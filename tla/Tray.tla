---------------------------------- MODULE Tray --------------------------------
(***************************************************************************)
(* The networks in the desktop application's tray menu (gui/tray.go),      *)
(* beside the window (gui/app.go) and over the engine service's pipe       *)
(* (client/ipc).  Every three seconds trackState asks the service for its  *)
(* networks and binds them to the menu's fixed items, first the list and   *)
(* then the titles one by one; a goroutine per item waits for clicks and   *)
(* looks up what its item is bound to.  What the service does with a       *)
(* request in detail is in Manager; here its calls are single steps.       *)
(***************************************************************************)
EXTENDS Integers, SequencesExt

CONSTANTS
  Network,       \* aliases, as numbers in their order
  Settings,      \* settings a network may be saved with
  TraySlots,     \* items of the menu (8 in the code)
  NoNet,         \* a network that is not known, an item that is hidden, nothing
  MaxChanges     \* bound: requests from the window and clicks

VARIABLES
  known,     \* the service's networks: alias -> [settings, up], or NoNet
  bound,     \* networkSlots.bound: sequence of [net, settings, up]
  item,      \* slot -> the network its title names, NoNet when it is hidden
  round,     \* trackState: [at, list, next], next the item to set next
  watcher,   \* slot -> NoNet, or a click: [at, shown, st, sure, same]
  moved,     \* age of the last network that came or went: "new", "asked", "old"
  edited,    \* alias -> age of the last change of its settings
  changes

trayVars == <<known, bound, item, round, watcher, moved, edited, changes>>

ASSUME TrayConstants ==
  /\ Network \subseteq Nat /\ IsFiniteSet(Network) /\ NoNet \notin Network
  /\ TraySlots \in Nat \ {0} /\ MaxChanges \in Nat

Slot == 1 .. TraySlots

TrayInit ==
  /\ known = [n \in Network |-> NoNet]
  /\ bound = <<>>
  /\ item = [i \in Slot |-> NoNet]
  /\ round = [at |-> "ask", list |-> <<>>, next |-> 1]
  /\ watcher = [i \in Slot |-> NoNet]
  /\ moved = "old" /\ edited = [n \in Network |-> "old"]
  /\ changes = 0

-------------------------------------------------------------------------------
(* The service *)

\* Slip: the networks come in the order of the saved list, which is any.
StatusesUnsorted ==
  {[i \in DOMAIN s |-> [net |-> s[i], settings |-> known[s[i]].settings, up |-> known[s[i]].up]] :
     s \in SetToSeqs({n \in Network : known[n] # NoNet})}

\* The sorted list of a set of aliases.
Sorted(M) ==
  {s \in [1 .. Cardinality(M) -> M] : /\ \A n \in M : \E i \in DOMAIN s : s[i] = n
                                      /\ \A i, j \in DOMAIN s : i < j => s[i] < s[j]}

(***************************************************************************)
(* Statuses: every known network, ordered by alias.                        *)
(***************************************************************************)
Statuses ==
  {[i \in DOMAIN s |-> [net |-> s[i], settings |-> known[s[i]].settings, up |-> known[s[i]].up]] :
     s \in Sorted({n \in Network : known[n] # NoNet})}

\* Connect remembers the network, whether it comes up or not.
Connect(n, s) ==
  \E up \in BOOLEAN : known' = [known EXCEPT ![n] = [settings |-> s, up |-> up]]

Disconnect(n) ==
  known' = [known EXCEPT ![n] = IF @ = NoNet THEN @ ELSE [@ EXCEPT !.up = FALSE]]

Forget(n) == known' = [known EXCEPT ![n] = NoNet]

-------------------------------------------------------------------------------
(* Bookkeeping: what has changed since a click, or since the tray asked *)

Members(k) == {n \in Network : k[n] # NoNet}

Resaved == {n \in Network : /\ known'[n] # known[n]
                            /\ \/ NoNet \in {known[n], known'[n]}
                               \/ known'[n].settings # known[n].settings}

Note(ws) ==
  /\ changes < MaxChanges /\ changes' = changes + 1
  /\ moved' = IF Members(known') # Members(known) THEN "new" ELSE moved
  /\ edited' = [n \in Network |-> IF n \in Resaved THEN "new" ELSE edited[n]]
  /\ watcher' = [i \in Slot |->
       IF ws[i] = NoNet THEN NoNet
       ELSE [ws[i] EXCEPT !.sure = @ /\ Members(known') = Members(known),
                          !.same = @ /\ ws[i].st.net \notin Resaved]]

-------------------------------------------------------------------------------
(* The window *)

WindowRequest(n) ==
  /\ \/ \E s \in Settings : Connect(n, s)
     \/ Disconnect(n)
     \/ Forget(n)
  /\ Note(watcher)
  /\ UNCHANGED <<bound, item, round>>

-------------------------------------------------------------------------------
(* trackState *)

(***************************************************************************)
(* Networks: when the service does not answer there are none.              *)
(***************************************************************************)
TrackAsk ==
  /\ round.at = "ask"
  /\ \/ /\ \E list \in Statuses : round' = [round EXCEPT !.at = "bind", !.list = list]
        /\ moved' = IF moved = "new" THEN "asked" ELSE moved
        /\ edited' = [n \in Network |-> IF edited[n] = "new" THEN "asked" ELSE edited[n]]
     \/ round' = [round EXCEPT !.at = "bind"] /\ UNCHANGED <<moved, edited>>
  /\ UNCHANGED <<known, bound, item, watcher, changes>>

\* set, under the mutex ...
SetBound ==
  /\ round.at = "bind"
  /\ bound' = round.list
  /\ round' = [round EXCEPT !.at = "items"]
  /\ edited' = [n \in Network |-> IF edited[n] = "asked" THEN "old" ELSE edited[n]]
  /\ UNCHANGED <<known, item, watcher, moved, changes>>

\* ... and then one item after the other.
SetItem ==
  /\ round.at = "items"
  /\ item' = [item EXCEPT ![round.next] =
                IF round.next <= Len(round.list) THEN round.list[round.next].net ELSE NoNet]
  /\ IF round.next < TraySlots
     THEN round' = [round EXCEPT !.next = @ + 1] /\ UNCHANGED moved
     ELSE /\ round' = [at |-> "ask", list |-> <<>>, next |-> 1]
          /\ moved' = IF moved = "asked" THEN "old" ELSE moved
  /\ UNCHANGED <<known, bound, watcher, edited, changes>>

-------------------------------------------------------------------------------
(* watch *)

(***************************************************************************)
(* A click on an item, if its goroutine is waiting for one.                *)
(***************************************************************************)
Click(i) ==
  /\ watcher[i] = NoNet /\ item[i] # NoNet
  /\ watcher' = [watcher EXCEPT ![i] =
       [at |-> "clicked", shown |-> item[i], st |-> [net |-> NoNet, settings |-> NoNet, up |-> FALSE],
        sure |-> moved = "old", same |-> TRUE]]
  /\ UNCHANGED <<known, bound, item, round, moved, edited, changes>>

WatchRead(i) ==
  /\ watcher[i] # NoNet /\ watcher[i].at = "clicked"
  /\ watcher' = [watcher EXCEPT ![i] =
       IF i > Len(bound) THEN NoNet
       ELSE [@ EXCEPT !.at = "call", !.st = bound[i], !.same = edited[bound[i].net] = "old"]]
  /\ UNCHANGED <<known, bound, item, round, moved, edited, changes>>

(***************************************************************************)
(* A network that was up is left, another joined with the settings that    *)
(* came with the list.                                                     *)
(***************************************************************************)
WatchCall(i) ==
  /\ watcher[i] # NoNet /\ watcher[i].at = "call"
  /\ LET st == watcher[i].st
     IN IF st.up THEN Disconnect(st.net) ELSE Connect(st.net, st.settings)
  /\ Note([watcher EXCEPT ![i] = NoNet])
  /\ UNCHANGED <<bound, item, round>>

TrayNext ==
  \/ \E n \in Network : WindowRequest(n)
  \/ TrackAsk \/ SetBound \/ SetItem
  \/ \E i \in Slot : Click(i) \/ WatchRead(i) \/ WatchCall(i)

TraySpec == TrayInit /\ [][TrayNext]_trayVars

-------------------------------------------------------------------------------
(* Properties *)

(***************************************************************************)
(* The tray "binds tray menu entries to joined networks.  Clicking one     *)
(* toggles it" (tray.go:87): a click acts on the network whose title was   *)
(* clicked, although list and titles are set at different times and the    *)
(* click is read later than it was made; the exception is a network that   *)
(* came or went since the round that set the titles asked.  And it changes *)
(* no network's settings, and brings no network back, unless they were     *)
(* saved, or it was forgotten, after the list was asked for.               *)
(***************************************************************************)
ClicksHitWhatTheyShow ==
  \A i \in Slot : watcher[i] # NoNet /\ watcher[i].at = "call" =>
    LET st == watcher[i].st
    IN  /\ watcher[i].sure => st.net = watcher[i].shown
        /\ watcher[i].same => known[st.net] # NoNet /\ known[st.net].settings = st.settings
===============================================================================
