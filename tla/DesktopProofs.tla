----------------------------- MODULE DesktopProofs ----------------------------
(***************************************************************************)
(* The desktop application and the engine behind it are correct for any    *)
(* networks, devices and services, any menu and any number of operations:  *)
(* a hosted network that was stopped stays stopped (HostTab), a click in   *)
(* the tray acts on what it shows (Tray), and the engine gives no address  *)
(* to two peers of the tunnel (Engine).                                    *)
(***************************************************************************)
EXTENDS HostTab, Tray, Engine, FiniteSetTheorems, WellFoundedInduction, TLAPS

-------------------------------------------------------------------------------
(* The tab for hosting *)

SupState == [conf : TabConf \cup {NoConf}, auto : BOOLEAN, serving : TabConf \cup {NoConf}]
OnFile   == [conf : TabConf \cup {NoConf}, auto : BOOLEAN]
Pending  == [op : {"start", "stop"}, conf : TabConf \cup {NoConf}, via : Side]

TabTypeOK ==
  /\ sup \in [Side -> SupState \cup {NoConf}]
  /\ saved \in OnFile
  /\ call \in Pending \cup {NoConf}
  /\ crossed \in BOOLEAN

(***************************************************************************)
(* As long as the service did not come up in between, it is down when the  *)
(* application hosts, or is about to act itself; and a stop has reached    *)
(* the saved configuration, from which a service would start.              *)
(***************************************************************************)
SidesApart ==
  crossed = FALSE /\ ServiceUp =>
    ~Serving("local") /\ (call # NoConf => call.via = "service")

StopSaved ==
  crossed = FALSE /\ last = "stopped" =>
    saved.auto = FALSE /\ ~Serving("service") /\ ~Serving("local")

TabInv == TabTypeOK /\ SidesApart /\ StopSaved

\* What Supervisor.Start leaves on the side it is called on.
LEMMA SupStartEffect ==
  ASSUME TabTypeOK, NEW s \in Side, NEW k \in TabConf \cup {NoConf}, SupStart(s, k)
  PROVE  /\ sup' \in [Side -> SupState \cup {NoConf}]
         /\ \A t \in Side \ {s} : sup'[t] = sup[t]
         /\ saved' \in OnFile
<1> DEFINE free == \A t \in Side \ {s} : ~Serving(t)
           new  == [conf |-> k, auto |-> TRUE, serving |-> IF free THEN k ELSE NoConf]
<1>1. new \in SupState
  BY DEF SupState
<1>2. sup' = [sup EXCEPT ![s] = new]
  BY DEF SupStart
<1>3. saved' = saved \/ saved' = [conf |-> k, auto |-> TRUE]
  BY DEF SupStart
<1> HIDE DEF new, free
<1>4. sup' \in [Side -> SupState \cup {NoConf}] /\ \A t \in Side \ {s} : sup'[t] = sup[t]
  BY <1>1, <1>2 DEF TabTypeOK
<1>5. [conf |-> k, auto |-> TRUE] \in OnFile
  BY DEF OnFile
<1>6. saved' \in OnFile
  BY <1>3, <1>5 DEF TabTypeOK
<1>7. QED
  BY <1>4, <1>6

\* Supervisor.Stop leaves its side without a network, and that on disk.
LEMMA SupStopEffect ==
  ASSUME TabTypeOK, NEW s \in Side, NEW was \in SupState, SupStop(s, was)
  PROVE  /\ sup' \in [Side -> SupState \cup {NoConf}]
         /\ \A t \in Side \ {s} : sup'[t] = sup[t]
         /\ sup'[s].serving = NoConf
         /\ saved' \in OnFile /\ saved'.auto = FALSE
<1> DEFINE new == [was EXCEPT !.auto = FALSE, !.serving = NoConf]
<1>1. new \in SupState /\ new.serving = NoConf
  BY DEF SupState
<1>2. sup' = [sup EXCEPT ![s] = new] /\ saved' = [conf |-> was.conf, auto |-> FALSE]
  BY DEF SupStop
<1> HIDE DEF new
<1>3. QED
  BY <1>1, <1>2 DEF TabTypeOK, SupState, OnFile

\* A new supervisor serves nothing.
LEMMA FreshIs ==
  ASSUME TabTypeOK
  PROVE  Fresh \in SupState /\ Fresh.serving = NoConf
  BY DEF TabTypeOK, Fresh, SupState, OnFile

LEMMA LocalIs ==
  ASSUME TabTypeOK
  PROVE  local \in SupState /\ (local.serving # NoConf => Serving("local"))
<1>1. CASE sup["local"] = NoConf
  BY <1>1, FreshIs DEF local
<1>2. CASE sup["local"] # NoConf
  BY <1>2 DEF local, Serving, TabTypeOK, Side
<1>3. QED
  BY <1>1, <1>2

(***************************************************************************)
(* The service comes and goes.                                             *)
(***************************************************************************)
LEMMA ServicePreservesTab ==
  ASSUME TabInv, ServiceStarts \/ ServiceEnds
  PROVE  TabInv'
<1> USE DEF TabInv
<1>1. CASE ServiceStarts
  <2>1. /\ crossed' = (crossed \/ call # NoConf \/ Serving("local"))
        /\ UNCHANGED <<call, last>> /\ ~ServiceUp
    BY <1>1 DEF ServiceStarts
  <2>2. /\ sup' \in [Side -> SupState \cup {NoConf}] /\ sup'["local"] = sup["local"]
        /\ saved' \in OnFile
        /\ saved.auto = FALSE => sup'["service"] = Fresh /\ saved' = saved
    <3>1. CASE saved.auto = TRUE
      <4>1. SupStart("service", saved.conf) /\ saved.conf \in TabConf \cup {NoConf}
        BY <1>1, <3>1 DEF ServiceStarts, TabTypeOK, OnFile
      <4>2. QED
        BY <3>1, <4>1, SupStartEffect DEF Side
    <3>2. CASE saved.auto = FALSE
      <4>1. sup' = [sup EXCEPT !["service"] = Fresh] /\ saved' = saved
        BY <1>1, <3>2 DEF ServiceStarts
      <4>2. QED
        BY <4>1, FreshIs DEF TabTypeOK, Side
    <3>3. QED
      BY <3>1, <3>2 DEF TabTypeOK, OnFile
  <2>3. crossed' = FALSE => crossed = FALSE /\ call = NoConf /\ ~Serving("local")
    BY <2>1 DEF TabTypeOK
  <2>4. crossed' \in BOOLEAN
    BY <2>1 DEF TabTypeOK
  <2>5. TabTypeOK'
    BY <2>1, <2>2, <2>4 DEF TabTypeOK
  <2>6. Serving("local")' = Serving("local")
    BY <2>2 DEF Serving
  <2>7. SidesApart'
    BY <2>1, <2>3, <2>6 DEF SidesApart
  <2>8. StopSaved'
    BY <2>1, <2>2, <2>3, <2>6, FreshIs DEF StopSaved, Serving
  <2>9. QED
    BY <2>5, <2>7, <2>8
<1>2. CASE ServiceEnds
  <2>1. /\ sup' = [sup EXCEPT !["service"] = NoConf]
        /\ UNCHANGED <<saved, call, last, crossed>>
    BY <1>2 DEF ServiceEnds
  <2>2. /\ sup' \in [Side -> SupState \cup {NoConf}]
        /\ sup'["service"] = NoConf /\ sup'["local"] = sup["local"]
    BY <2>1 DEF TabTypeOK, Side
  <2>3. TabTypeOK'
    BY <2>1, <2>2 DEF TabTypeOK
  <2>4. SidesApart' /\ StopSaved'
    BY <2>1, <2>2 DEF SidesApart, StopSaved, Serving, ServiceUp
  <2>5. QED
    BY <2>3, <2>4
<1>3. QED
  BY <1>1, <1>2

(***************************************************************************)
(* An operation acts on the side it has chosen.                            *)
(***************************************************************************)
LEMMA ActPreservesTab ==
  ASSUME TabInv, Act
  PROVE  TabInv'
<1> USE DEF TabInv
<1>1. /\ call # NoConf /\ call \in Pending /\ call' = NoConf /\ crossed' = crossed
      /\ call.via \in Side
  BY DEF Act, TabTypeOK, Pending
<1>2. CASE call.via = "service" /\ ~ServiceUp
  BY <1>1, <1>2 DEF Act, TabTypeOK, SidesApart, StopSaved, ServiceUp
<1>3. CASE ~(call.via = "service" /\ ~ServiceUp) /\ call.op = "start"
  <2>1. SupStart(call.via, call.conf) /\ call.conf \in TabConf \cup {NoConf} /\ last' # "stopped"
    BY <1>1, <1>3 DEF Act, Pending
  <2>2. /\ sup' \in [Side -> SupState \cup {NoConf}]
        /\ \A t \in Side \ {call.via} : sup'[t] = sup[t]
        /\ saved' \in OnFile
    BY <1>1, <2>1, SupStartEffect
  <2>3. TabTypeOK' /\ StopSaved'
    BY <1>1, <2>1, <2>2 DEF TabTypeOK, StopSaved
  <2>4. SidesApart'
    <3>1. CASE call.via = "service"
      BY <1>1, <1>3, <2>2, <3>1 DEF SidesApart, Side, Serving
    <3>2. CASE call.via = "local"
      BY <1>1, <2>2, <3>2 DEF SidesApart, Side, ServiceUp
    <3>3. QED
      BY <1>1, <3>1, <3>2 DEF Side
  <2>5. QED
    BY <2>3, <2>4
<1>4. CASE ~(call.via = "service" /\ ~ServiceUp) /\ call.op # "start"
  <2> DEFINE was == IF call.via = "service" THEN sup["service"] ELSE local
  <2>1. SupStop(call.via, was)
    BY <1>4 DEF Act
  <2>2. was \in SupState
    BY <1>4, LocalIs DEF TabTypeOK, ServiceUp, Side
  <2>3. /\ sup' \in [Side -> SupState \cup {NoConf}]
        /\ \A t \in Side \ {call.via} : sup'[t] = sup[t]
        /\ sup'[call.via].serving = NoConf
        /\ saved' \in OnFile /\ saved'.auto = FALSE
    <3> HIDE DEF was
    <3>1. QED
      BY <1>1, <2>1, <2>2, SupStopEffect
  <2>4. TabTypeOK'
    BY <1>1, <2>3 DEF TabTypeOK
  <2>5. crossed' = FALSE => ~Serving("service")' /\ ~Serving("local")'
    <3>1. CASE call.via = "service"
      BY <1>1, <1>4, <2>3, <3>1 DEF SidesApart, Serving, Side
    <3>2. CASE call.via = "local"
      BY <1>1, <2>3, <3>2 DEF SidesApart, Serving, Side, ServiceUp
    <3>3. QED
      BY <1>1, <3>1, <3>2 DEF Side
  <2>6. SidesApart' /\ StopSaved'
    BY <1>1, <2>3, <2>5 DEF SidesApart, StopSaved
  <2>7. QED
    BY <2>4, <2>6
<1>5. QED
  BY <1>2, <1>3, <1>4

(***************************************************************************)
(* The operator asks, the window and the tray poll, the application ends.  *)
(***************************************************************************)
LEMMA RestPreservesTab ==
  ASSUME TabInv,
         HostStatus \/ Quit \/ Ask("stop", NoConf) \/ \E k \in TabConf : Ask("start", k)
  PROVE  TabInv'
<1> USE DEF TabInv
<1>1. CASE HostStatus
  <2>1. /\ sup' = [sup EXCEPT !["local"] = local] /\ ~ServiceUp
        /\ UNCHANGED <<saved, call, last, crossed>>
    BY <1>1 DEF HostStatus
  <2>2. /\ sup' \in [Side -> SupState \cup {NoConf}]
        /\ sup'["service"] = sup["service"] /\ sup'["local"] = local
    BY <2>1, LocalIs DEF TabTypeOK, Side
  <2>3. TabTypeOK'
    BY <2>1, <2>2 DEF TabTypeOK
  <2>4. SidesApart' /\ StopSaved'
    BY <2>1, <2>2, LocalIs DEF SidesApart, StopSaved, Serving, ServiceUp
  <2>5. QED
    BY <2>3, <2>4
<1>2. CASE Quit
  <2>1. /\ sup' = [sup EXCEPT !["local"] = NoConf]
        /\ call' = NoConf /\ crossed' = FALSE /\ saved' = saved
    BY <1>2 DEF Quit
  <2>2. /\ sup' \in [Side -> SupState \cup {NoConf}]
        /\ sup'["service"] = sup["service"] /\ sup'["local"] = NoConf
    BY <2>1 DEF TabTypeOK, Side
  <2>3. last' = "stopped" => last = "stopped" /\ crossed = FALSE
    BY <1>2 DEF Quit, TabTypeOK
  <2>4. TabTypeOK'
    BY <2>1, <2>2 DEF TabTypeOK
  <2>5. SidesApart' /\ StopSaved'
    BY <2>1, <2>2, <2>3 DEF SidesApart, StopSaved, Serving
  <2>6. QED
    BY <2>4, <2>5
<1>3. ASSUME NEW op \in {"start", "stop"}, NEW k \in TabConf \cup {NoConf}, Ask(op, k)
      PROVE  TabInv'
  <2>1. /\ call' = [op |-> op, conf |-> k, via |-> IF ServiceUp THEN "service" ELSE "local"]
        /\ last' = "?" /\ UNCHANGED <<sup, saved, crossed>>
    BY <1>3 DEF Ask
  <2>2. call' \in Pending /\ (ServiceUp => call'.via = "service")
    BY <2>1 DEF Pending, Side
  <2>3. TabTypeOK'
    BY <2>1, <2>2 DEF TabTypeOK
  <2>4. SidesApart' /\ StopSaved'
    BY <2>1, <2>2 DEF SidesApart, StopSaved, Serving, ServiceUp
  <2>5. QED
    BY <2>3, <2>4
<1>4. ASSUME Ask("stop", NoConf) PROVE TabInv'
  BY <1>3, <1>4
<1>5. ASSUME NEW k \in TabConf, Ask("start", k) PROVE TabInv'
  BY <1>3, <1>5
<1>6. QED
  BY <1>1, <1>2, <1>4, <1>5

(***************************************************************************)
(* TabInv holds in every reachable state of the application and service.   *)
(***************************************************************************)
THEOREM TabSound == TabSpec => []TabInv
<1>1. TabInit => TabInv
  <2>1. SUFFICES ASSUME TabInit PROVE TabInv
    OBVIOUS
  <2>2. TabTypeOK
    BY <2>1 DEF TabInit, TabTypeOK, OnFile
  <2>3. SidesApart /\ StopSaved
    BY <2>1 DEF TabInit, SidesApart, StopSaved, ServiceUp, Side
  <2>4. QED
    BY <2>2, <2>3 DEF TabInv
<1>2. TabInv /\ [TabNext]_tabVars => TabInv'
  <2>1. SUFFICES ASSUME TabInv, [TabNext]_tabVars PROVE TabInv'
    OBVIOUS
  <2>2. CASE UNCHANGED tabVars
    BY <2>1, <2>2 DEF tabVars, TabInv, TabTypeOK, SidesApart, StopSaved, ServiceUp, Serving
  <2>3. QED
    BY <2>1, <2>2, ServicePreservesTab, ActPreservesTab, RestPreservesTab DEF TabNext
<1>3. QED
  BY <1>1, <1>2, PTL DEF TabSpec

(***************************************************************************)
(* After a HostStop that succeeded the machine hosts nothing, whichever    *)
(* supervisor was asked and however often service and application come and *)
(* go (App.HostStop, Supervisor.Stop and AutoStart).                       *)
(***************************************************************************)
THEOREM StopCorrect == TabSpec => []StopStaysStopped
<1>1. TabInv => StopStaysStopped
  BY DEF TabInv, TabTypeOK, StopSaved, StopStaysStopped, Side
<1>2. QED
  BY <1>1, TabSound, PTL

-------------------------------------------------------------------------------
(* The tray: the order of the networks *)

Less == {p \in Nat \X Nat : p[1] < p[2]}

\* Every set of numbers that is not empty has a least one.
LEMMA LeastNat ==
  ASSUME NEW T \in SUBSET Nat, T # {}
  PROVE  \E x \in T : \A y \in T : x <= y
<1>1. IsWellFoundedOn(Less, Nat)
  BY NatLessThanWellFounded DEF OpToRel, Less
<1>2. \E x \in T : \A y \in T : ~(<<y, x>> \in Less)
  BY <1>1, WFMin
<1>3. PICK x \in T : \A y \in T : ~(<<y, x>> \in Less)
  BY <1>2
<1>4. ASSUME NEW y \in T PROVE x <= y
  <2>1. <<y, x>> \in Nat \X Nat /\ <<y, x>>[1] = y /\ <<y, x>>[2] = x
    OBVIOUS
  <2>2. ~(y < x)
    BY <1>3, <2>1 DEF Less
  <2>3. x \in Nat /\ y \in Nat
    OBVIOUS
  <2>4. QED
    BY <2>2, <2>3
<1>5. QED
  BY <1>4

\* If a sorted list is below another one at a place, they differ at an earlier one.
LEMMA SortedBelow ==
  ASSUME NEW M \in SUBSET Nat, NEW s \in Sorted(M), NEW t \in Sorted(M),
         NEW i \in DOMAIN s, s[i] < t[i]
  PROVE  \E j \in DOMAIN s : j < i /\ s[j] # t[j]
<1>1. /\ s \in [1 .. Cardinality(M) -> M] /\ t \in [1 .. Cardinality(M) -> M]
      /\ \A n \in M : \E j \in DOMAIN t : t[j] = n
      /\ \A j, k \in DOMAIN s : j < k => s[j] < s[k]
      /\ \A j, k \in DOMAIN t : j < k => t[j] < t[k]
  BY DEF Sorted
<1>2. DOMAIN s = 1 .. Cardinality(M) /\ DOMAIN t = DOMAIN s /\ s[i] \in M
  BY <1>1
<1>3. PICK j \in DOMAIN s : t[j] = s[i]
  BY <1>1, <1>2
<1>4. i \in Int /\ j \in Int /\ t[i] \in Nat /\ t[j] \in Nat /\ s[j] \in Nat /\ s[i] \in Nat
  <2>1. \A k \in 1 .. Cardinality(M) : k \in Int
    OBVIOUS
  <2>2. \A k \in DOMAIN s : s[k] \in M /\ t[k] \in M
    BY <1>1, <1>2
  <2>3. QED
    BY <1>2, <2>1, <2>2
<1>5. j < i
  <2>1. i # j /\ ~(i < j)
    BY <1>1, <1>2, <1>3, <1>4
  <2>2. QED
    BY <1>4, <2>1
<1>6. s[j] < s[i]
  BY <1>1, <1>5
<1>7. s[j] # t[j]
  BY <1>3, <1>4, <1>6
<1>8. QED
  BY <1>5, <1>7

\* Statuses has one order only.
LEMMA SortedUnique ==
  ASSUME NEW M \in SUBSET Nat, NEW s \in Sorted(M), NEW t \in Sorted(M)
  PROVE  s = t
<1> DEFINE T == {i \in DOMAIN s : s[i] # t[i]}
<1>1. /\ s \in [1 .. Cardinality(M) -> M] /\ t \in [1 .. Cardinality(M) -> M]
      /\ DOMAIN s = 1 .. Cardinality(M) /\ DOMAIN t = DOMAIN s
  BY DEF Sorted
<1>2. T \in SUBSET Nat
  BY <1>1
<1>3. ASSUME T # {} PROVE FALSE
  <2>1. PICK i \in T : \A j \in T : i <= j
    <3> HIDE DEF T
    <3>1. QED
      BY <1>2, <1>3, LeastNat
  <2>2. i \in DOMAIN s /\ i \in DOMAIN t /\ s[i] # t[i] /\ i \in Int
    BY <1>1, <1>2
  <2>3. s[i] \in Nat /\ t[i] \in Nat
    BY <1>1, <2>2
  <2>4. CASE s[i] < t[i]
    <3>1. PICK j \in DOMAIN s : j < i /\ s[j] # t[j]
      BY <2>2, <2>4, SortedBelow
    <3>2. j \in T /\ j \in Int
      BY <1>2, <3>1
    <3>3. QED
      BY <2>1, <2>2, <3>1, <3>2
  <2>5. CASE t[i] < s[i]
    <3>1. PICK j \in DOMAIN t : j < i /\ t[j] # s[j]
      BY <2>2, <2>5, SortedBelow
    <3>2. j \in T /\ j \in Int
      BY <1>1, <1>2, <3>1
    <3>3. QED
      BY <2>1, <2>2, <3>1, <3>2
  <2>6. QED
    BY <2>2, <2>3, <2>4, <2>5
<1>4. \A i \in 1 .. Cardinality(M) : s[i] = t[i]
  BY <1>1, <1>3
<1>5. s = [i \in 1 .. Cardinality(M) |-> s[i]] /\ t = [i \in 1 .. Cardinality(M) |-> t[i]]
  BY <1>1
<1>6. QED
  BY <1>4, <1>5

-------------------------------------------------------------------------------
(* The tray: lists, titles and clicks *)

NetState == [settings : Settings, up : BOOLEAN]
Entry    == [net : Network, settings : Settings, up : BOOLEAN]
Blank    == [net |-> NoNet, settings |-> NoNet, up |-> FALSE]
Age      == {"new", "asked", "old"}
Watch    == [at : {"clicked", "call"}, shown : Network, st : Entry \cup {Blank},
             sure : BOOLEAN, same : BOOLEAN]

TrayTypeOK ==
  /\ known \in [Network -> NetState \cup {NoNet}]
  /\ bound \in Seq(Entry)
  /\ item \in [Slot -> Network \cup {NoNet}]
  /\ round \in [at : {"ask", "bind", "items"}, list : Seq(Entry), next : Slot]
  /\ watcher \in [Slot -> Watch \cup {NoNet}]
  /\ moved \in Age
  /\ edited \in [Network -> Age]

\* A round begins with nothing in its hands; a click that was read has an entry.
TrayStages ==
  /\ round.at = "ask" => round.list = <<>>
  /\ round.at # "items" => round.next = 1
  /\ \A i \in Slot : watcher[i] # NoNet /\ watcher[i].at = "call" => watcher[i].st \in Entry

\* n is the i-th of the networks in k.
IsAt(k, i, n) == \E s \in Sorted(Members(k)) : i \in DOMAIN s /\ s[i] = n

InOrder(k, list) == \A i \in DOMAIN list : IsAt(k, i, list[i].net)

(***************************************************************************)
(* While no network has come or gone since the titles were asked for, the  *)
(* titles and the list behind them are both in the order of the service's  *)
(* networks; while the round is under way, so is what it has set.          *)
(***************************************************************************)
TitlesInOrder ==
  /\ moved = "old" => /\ InOrder(known, bound) /\ InOrder(known, round.list)
                      /\ \A i \in Slot : item[i] # NoNet => IsAt(known, i, item[i])
  /\ moved = "asked" =>
       /\ round.at # "ask" /\ InOrder(known, round.list)
       /\ round.at = "items" =>
            /\ InOrder(known, bound)
            /\ \A i \in Slot : i < round.next /\ item[i] # NoNet => IsAt(known, i, item[i])

ClicksInOrder ==
  \A i \in Slot : watcher[i] # NoNet /\ watcher[i].sure = TRUE =>
    /\ moved = "old" /\ IsAt(known, i, watcher[i].shown)
    /\ watcher[i].at = "call" => watcher[i].st.net = watcher[i].shown

\* The settings in an entry are those the service has.
Agrees(k, e) == k[e.net] # NoNet /\ k[e.net].settings = e.settings

(***************************************************************************)
(* The lists carry the settings of every network that was not saved anew   *)
(* since they were asked for.                                              *)
(***************************************************************************)
SettingsFit ==
  /\ \A j \in DOMAIN bound : edited[bound[j].net] = "old" => Agrees(known, bound[j])
  /\ round.at = "bind" =>
       \A j \in DOMAIN round.list :
         edited[round.list[j].net] # "new" => Agrees(known, round.list[j])
  /\ \A i \in Slot : watcher[i] # NoNet /\ watcher[i].at = "call" /\ watcher[i].same = TRUE =>
       Agrees(known, watcher[i].st)

TrayInv == TrayTypeOK /\ TrayStages /\ TitlesInOrder /\ ClicksInOrder /\ SettingsFit

\* One place has one network.
LEMMA IsAtUnique ==
  ASSUME NEW k, NEW i, NEW m, NEW n, IsAt(k, i, m), IsAt(k, i, n)
  PROVE  m = n
<1>1. Members(k) \in SUBSET Nat
  BY TrayConstants DEF Members
<1>2. PICK s \in Sorted(Members(k)) : i \in DOMAIN s /\ s[i] = m
  BY DEF IsAt
<1>3. PICK t \in Sorted(Members(k)) : i \in DOMAIN t /\ t[i] = n
  BY DEF IsAt
<1>4. s = t
  BY <1>1, SortedUnique
<1>5. QED
  BY <1>2, <1>3, <1>4

\* What the service answers is in order and up to date.
LEMMA StatusesSound ==
  ASSUME known \in [Network -> NetState \cup {NoNet}], NEW list \in Statuses
  PROVE  /\ list \in Seq(Entry) /\ InOrder(known, list)
         /\ \A j \in DOMAIN list : Agrees(known, list[j])
<1> DEFINE M == Members(known)
<1>1. PICK s \in Sorted(M) :
        list = [i \in DOMAIN s |->
                  [net |-> s[i], settings |-> known[s[i]].settings, up |-> known[s[i]].up]]
  BY DEF Statuses, Members
<1>2. M \subseteq Network /\ \A n \in M : known[n] # NoNet /\ known[n] \in NetState
  BY DEF Members
<1>3. IsFiniteSet(M) /\ Cardinality(M) \in Nat
  BY <1>2, TrayConstants, FS_Subset, FS_CardinalityType
<1>4. s \in [1 .. Cardinality(M) -> M] /\ DOMAIN s = 1 .. Cardinality(M)
  BY DEF Sorted
<1> HIDE DEF M
<1>5. ASSUME NEW i \in 1 .. Cardinality(M)
      PROVE  /\ list[i] \in Entry /\ list[i].net = s[i]
             /\ known[s[i]] # NoNet /\ list[i].settings = known[s[i]].settings
  <2>1. s[i] \in M
    BY <1>4
  <2>2. s[i] \in Network /\ known[s[i]] \in NetState /\ known[s[i]] # NoNet
    BY <1>2, <2>1
  <2>3. list[i] = [net |-> s[i], settings |-> known[s[i]].settings, up |-> known[s[i]].up]
    BY <1>1, <1>4
  <2>4. QED
    BY <2>2, <2>3 DEF Entry, NetState
<1>6. DOMAIN list = 1 .. Cardinality(M) /\ list \in Seq(Entry)
  <2>1. list \in [1 .. Cardinality(M) -> Entry]
    BY <1>1, <1>4, <1>5
  <2>2. QED
    BY <1>3, <2>1
<1>7. InOrder(known, list)
  <2>1. ASSUME NEW i \in DOMAIN list PROVE IsAt(known, i, list[i].net)
    BY <1>4, <1>5, <1>6, <2>1 DEF IsAt, M
  <2>2. QED
    BY <2>1 DEF InOrder
<1>8. QED
  BY <1>5, <1>6, <1>7 DEF Agrees

\* What was not saved anew still agrees.
LEMMA AgreesKept ==
  ASSUME NEW e \in Entry, Agrees(known, e), e.net \notin Resaved
  PROVE  Agrees(known', e)
<1>1. e.net \in Network
  BY DEF Entry
<1>2. QED
  BY <1>1 DEF Agrees, Resaved

\* The order is that of the members.
LEMMA OrderKept ==
  ASSUME Members(known') = Members(known)
  PROVE  /\ \A i, n : IsAt(known', i, n) <=> IsAt(known, i, n)
         /\ \A list : InOrder(known', list) <=> InOrder(known, list)
  BY DEF IsAt, InOrder

(***************************************************************************)
(* A request, from the window or by a click that is now done with (ws is   *)
(* what is left of the clicks).                                            *)
(***************************************************************************)
LEMMA NotePreservesTray ==
  ASSUME TrayInv, NEW ws \in [Slot -> Watch \cup {NoNet}],
         \A i \in Slot : ws[i] # NoNet => ws[i] = watcher[i],
         known' \in [Network -> NetState \cup {NoNet}], Note(ws), UNCHANGED <<bound, item, round>>
  PROVE  TrayInv'
<1> USE DEF TrayInv
<1>1. /\ moved' = IF Members(known') # Members(known) THEN "new" ELSE moved
      /\ edited' = [n \in Network |-> IF n \in Resaved THEN "new" ELSE edited[n]]
      /\ watcher' = [i \in Slot |->
           IF ws[i] = NoNet THEN NoNet
           ELSE [ws[i] EXCEPT !.sure = @ /\ Members(known') = Members(known),
                              !.same = @ /\ ws[i].st.net \notin Resaved]]
  BY DEF Note
<1>2. ASSUME NEW i \in Slot, ws[i] # NoNet
      PROVE  /\ watcher'[i] \in Watch /\ watcher[i] # NoNet /\ watcher[i] \in Watch
             /\ watcher'[i].at = watcher[i].at /\ watcher'[i].shown = watcher[i].shown
             /\ watcher'[i].st = watcher[i].st
             /\ watcher'[i].sure = TRUE =>
                  watcher[i].sure = TRUE /\ Members(known') = Members(known)
             /\ watcher'[i].same = TRUE =>
                  watcher[i].same = TRUE /\ watcher[i].st.net \notin Resaved
  <2>1. /\ watcher'[i] = [ws[i] EXCEPT !.sure = @ /\ Members(known') = Members(known),
                                       !.same = @ /\ ws[i].st.net \notin Resaved]
        /\ ws[i] \in Watch /\ ws[i] = watcher[i]
    BY <1>1, <1>2
  <2>2. QED
    BY <1>2, <2>1 DEF Watch
<1>3. ASSUME NEW i \in Slot, watcher'[i] # NoNet PROVE ws[i] # NoNet
  BY <1>1, <1>3
<1>4. TrayTypeOK'
  <2>1. moved' \in Age /\ edited' \in [Network -> Age]
    BY <1>1 DEF TrayTypeOK, Age
  <2>2. watcher' \in [Slot -> Watch \cup {NoNet}]
    <3>1. ASSUME NEW i \in Slot PROVE watcher'[i] \in Watch \cup {NoNet}
      BY <1>1, <1>2
    <3>2. DOMAIN watcher' = Slot /\ watcher' = [i \in Slot |-> watcher'[i]]
      BY <1>1
    <3>3. QED
      BY <3>1, <3>2
  <2>3. QED
    BY <2>1, <2>2 DEF TrayTypeOK
<1>5. TrayStages'
  BY <1>2, <1>3 DEF TrayStages
<1>6. TitlesInOrder' /\ ClicksInOrder'
  <2>1. CASE Members(known') # Members(known)
    <3>1. moved' = "new"
      BY <1>1, <2>1
    <3>2. TitlesInOrder'
      BY <3>1 DEF TitlesInOrder
    <3>3. ClicksInOrder'
      BY <1>2, <1>3, <2>1 DEF ClicksInOrder
    <3>4. QED
      BY <3>2, <3>3
  <2>2. CASE Members(known') = Members(known)
    <3>1. moved' = moved
      BY <1>1, <2>2
    <3>2. TitlesInOrder'
      BY <2>2, <3>1, OrderKept DEF TitlesInOrder
    <3>3. ClicksInOrder'
      BY <1>2, <1>3, <2>2, <3>1, OrderKept DEF ClicksInOrder
    <3>4. QED
      BY <3>2, <3>3
  <2>3. QED
    BY <2>1, <2>2
<1>7. SettingsFit'
  <2>1. ASSUME NEW j \in DOMAIN bound, edited'[bound[j].net] = "old"
        PROVE  Agrees(known', bound[j])
    <3>1. bound[j] \in Entry
      BY DEF TrayTypeOK
    <3>2. edited[bound[j].net] = "old" /\ bound[j].net \notin Resaved
      BY <1>1, <2>1, <3>1 DEF Entry
    <3>3. QED
      BY <3>1, <3>2, AgreesKept DEF SettingsFit
  <2>2. ASSUME round.at = "bind", NEW j \in DOMAIN round.list, edited'[round.list[j].net] # "new"
        PROVE  Agrees(known', round.list[j])
    <3>1. round.list \in Seq(Entry)
      BY DEF TrayTypeOK
    <3>2. round.list[j] \in Entry
      BY <3>1
    <3>3. edited[round.list[j].net] # "new" /\ round.list[j].net \notin Resaved
      BY <1>1, <2>2, <3>2 DEF Entry
    <3>4. QED
      BY <2>2, <3>2, <3>3, AgreesKept DEF SettingsFit
  <2>3. ASSUME NEW i \in Slot, watcher'[i] # NoNet, watcher'[i].at = "call",
               watcher'[i].same = TRUE
        PROVE  Agrees(known', watcher'[i].st)
    <3>1. ws[i] # NoNet
      BY <1>3, <2>3
    <3>2. /\ watcher[i] # NoNet /\ watcher[i].at = "call" /\ watcher[i].same = TRUE
          /\ watcher[i].st.net \notin Resaved /\ watcher'[i].st = watcher[i].st
      BY <1>2, <2>3, <3>1
    <3>3. watcher[i].st \in Entry /\ Agrees(known, watcher[i].st)
      BY <3>2 DEF TrayStages, SettingsFit
    <3>4. QED
      BY <3>2, <3>3, AgreesKept
  <2>4. QED
    BY <2>1, <2>2, <2>3 DEF SettingsFit
<1>8. QED
  BY <1>4, <1>5, <1>6, <1>7

\* What a request leaves of a network is again a network, or nothing.
LEMMA RequestTypes ==
  ASSUME TrayTypeOK, NEW n \in Network,
         (\E s \in Settings : Connect(n, s)) \/ Disconnect(n) \/ Forget(n)
  PROVE  known' \in [Network -> NetState \cup {NoNet}]
<1>1. ASSUME NEW s \in Settings, Connect(n, s)
      PROVE  known' \in [Network -> NetState \cup {NoNet}]
  <2>1. PICK up \in BOOLEAN : known' = [known EXCEPT ![n] = [settings |-> s, up |-> up]]
    BY <1>1 DEF Connect
  <2>2. [settings |-> s, up |-> up] \in NetState
    BY DEF NetState
  <2>3. QED
    BY <2>1, <2>2 DEF TrayTypeOK
<1>2. CASE Disconnect(n)
  <2>1. CASE known[n] = NoNet
    BY <1>2, <2>1 DEF Disconnect, TrayTypeOK
  <2>2. CASE known[n] # NoNet
    <3>1. known' = [known EXCEPT ![n] = [known[n] EXCEPT !.up = FALSE]] /\ known[n] \in NetState
      BY <1>2, <2>2 DEF Disconnect, TrayTypeOK
    <3>2. [known[n] EXCEPT !.up = FALSE] \in NetState
      BY <3>1 DEF NetState
    <3>3. QED
      BY <3>1, <3>2 DEF TrayTypeOK
  <2>3. QED
    BY <2>1, <2>2
<1>3. CASE Forget(n)
  BY <1>3 DEF Forget, TrayTypeOK
<1>4. QED
  BY <1>1, <1>2, <1>3

LEMMA RequestsPreserveTray ==
  ASSUME TrayInv, (\E n \in Network : WindowRequest(n)) \/ \E i \in Slot : WatchCall(i)
  PROVE  TrayInv'
<1>1. ASSUME NEW n \in Network, WindowRequest(n) PROVE TrayInv'
  <2>1. /\ (\E s \in Settings : Connect(n, s)) \/ Disconnect(n) \/ Forget(n)
        /\ Note(watcher) /\ UNCHANGED <<bound, item, round>>
    BY <1>1 DEF WindowRequest
  <2>2. known' \in [Network -> NetState \cup {NoNet}]
    BY <2>1, RequestTypes DEF TrayInv
  <2>3. watcher \in [Slot -> Watch \cup {NoNet}]
    BY DEF TrayInv, TrayTypeOK
  <2>4. QED
    BY <2>1, <2>2, <2>3, NotePreservesTray
<1>2. ASSUME NEW i \in Slot, WatchCall(i) PROVE TrayInv'
  <2> DEFINE ws == [watcher EXCEPT ![i] = NoNet]
  <2>1. /\ watcher[i] # NoNet /\ watcher[i].at = "call"
        /\ Note(ws) /\ UNCHANGED <<bound, item, round>>
        /\ Disconnect(watcher[i].st.net) \/ Connect(watcher[i].st.net, watcher[i].st.settings)
    BY <1>2 DEF WatchCall
  <2>2. watcher[i].st \in Entry
    BY <2>1 DEF TrayInv, TrayStages
  <2>3. watcher[i].st.net \in Network /\ watcher[i].st.settings \in Settings
    BY <2>2 DEF Entry
  <2>4. known' \in [Network -> NetState \cup {NoNet}]
    BY <2>1, <2>3, RequestTypes DEF TrayInv
  <2>5. ws \in [Slot -> Watch \cup {NoNet}] /\ \A j \in Slot : ws[j] # NoNet => ws[j] = watcher[j]
    BY DEF TrayInv, TrayTypeOK
  <2> HIDE DEF ws
  <2>6. QED
    BY <2>1, <2>4, <2>5, NotePreservesTray
<1>3. QED
  BY <1>1, <1>2

(***************************************************************************)
(* The round: it asks ...                                                  *)
(***************************************************************************)
LEMMA AskPreservesTray ==
  ASSUME TrayInv, TrackAsk
  PROVE  TrayInv'
<1> USE DEF TrayInv
<1>1. /\ round.at = "ask" /\ round.list = <<>> /\ round.next = 1
      /\ UNCHANGED <<known, bound, item, watcher>>
  BY DEF TrackAsk, TrayStages
<1>2. moved # "asked"
  BY <1>1 DEF TitlesInOrder
<1>3. /\ moved' = "old" => moved = "old"
      /\ moved = "old" => moved' = "old"
      /\ moved' \in Age
      /\ edited' \in [Network -> Age]
      /\ \A n \in Network : edited'[n] = "old" => edited[n] = "old"
  BY DEF TrackAsk, TrayTypeOK, Age
<1>4. PICK list \in Seq(Entry) :
        /\ round' = [round EXCEPT !.at = "bind", !.list = list]
        /\ moved' # "new" => InOrder(known, list)
        /\ \A j \in DOMAIN list : Agrees(known, list[j])
  <2>1. CASE \E list \in Statuses : round' = [round EXCEPT !.at = "bind", !.list = list]
    BY <2>1, StatusesSound DEF TrayTypeOK
  <2>2. CASE round' = [round EXCEPT !.at = "bind"]
    <3>1. <<>> \in Seq(Entry) /\ DOMAIN <<>> = {}
      OBVIOUS
    <3>2. round' = [round EXCEPT !.at = "bind", !.list = <<>>]
      BY <1>1, <2>2 DEF TrayTypeOK
    <3>3. InOrder(known, <<>>) /\ \A j \in DOMAIN <<>> : Agrees(known, <<>>[j])
      BY <3>1 DEF InOrder
    <3>4. QED
      BY <3>1, <3>2, <3>3
  <2>3. QED
    BY <2>1, <2>2 DEF TrackAsk
<1>5. /\ round' \in [at : {"ask", "bind", "items"}, list : Seq(Entry), next : Slot]
      /\ round'.at = "bind" /\ round'.list = list /\ round'.next = 1
  BY <1>1, <1>4 DEF TrayTypeOK
<1>6. TrayTypeOK' /\ TrayStages'
  BY <1>1, <1>3, <1>5 DEF TrayTypeOK, TrayStages
<1>7. TitlesInOrder'
  BY <1>1, <1>3, <1>4, <1>5 DEF TitlesInOrder
<1>8. ClicksInOrder'
  BY <1>1, <1>3 DEF ClicksInOrder
<1>9. SettingsFit'
  <2>1. ASSUME NEW j \in DOMAIN bound, edited'[bound[j].net] = "old"
        PROVE  Agrees(known, bound[j])
    <3>1. bound[j] \in Entry
      BY DEF TrayTypeOK
    <3>2. edited[bound[j].net] = "old"
      BY <1>3, <2>1, <3>1 DEF Entry
    <3>3. QED
      BY <3>2 DEF SettingsFit
  <2>2. QED
    BY <1>1, <1>4, <1>5, <2>1 DEF SettingsFit
<1>10. QED
  BY <1>6, <1>7, <1>8, <1>9

(***************************************************************************)
(* ... sets the list ...                                                   *)
(***************************************************************************)
LEMMA BindPreservesTray ==
  ASSUME TrayInv, SetBound
  PROVE  TrayInv'
<1> USE DEF TrayInv
<1>1. /\ round.at = "bind" /\ bound' = round.list
      /\ round' = [round EXCEPT !.at = "items"]
      /\ edited' = [n \in Network |-> IF edited[n] = "asked" THEN "old" ELSE edited[n]]
      /\ UNCHANGED <<known, item, watcher, moved>>
  BY DEF SetBound
<1>2. /\ round' \in [at : {"ask", "bind", "items"}, list : Seq(Entry), next : Slot]
      /\ round'.at = "items" /\ round'.list = round.list /\ round'.next = round.next
      /\ bound' \in Seq(Entry)
  BY <1>1 DEF TrayTypeOK
<1>3. edited' \in [Network -> Age] /\ \A n \in Network : edited'[n] = "old" => edited[n] # "new"
  BY <1>1 DEF TrayTypeOK, Age
<1>4. TrayTypeOK' /\ TrayStages'
  BY <1>1, <1>2, <1>3 DEF TrayTypeOK, TrayStages
<1>5. TitlesInOrder'
  <2>1. round.next = 1 /\ \A i \in Slot : ~(i < 1)
    BY <1>1, TrayConstants DEF TrayStages, Slot
  <2>2. QED
    BY <1>1, <1>2, <2>1 DEF TitlesInOrder
<1>6. ClicksInOrder'
  BY <1>1 DEF ClicksInOrder
<1>7. SettingsFit'
  <2>1. ASSUME NEW j \in DOMAIN bound', edited'[bound'[j].net] = "old"
        PROVE  Agrees(known, bound'[j])
    <3>1. bound'[j] \in Entry
      BY <1>2
    <3>2. edited[bound'[j].net] # "new"
      BY <1>3, <2>1, <3>1 DEF Entry
    <3>3. QED
      BY <1>1, <3>2 DEF SettingsFit
  <2>2. QED
    BY <1>1, <1>2, <2>1 DEF SettingsFit
<1>8. QED
  BY <1>4, <1>5, <1>6, <1>7

(***************************************************************************)
(* ... and then the titles.                                                *)
(***************************************************************************)
LEMMA ItemPreservesTray ==
  ASSUME TrayInv, SetItem
  PROVE  TrayInv'
<1> USE DEF TrayInv
<1> DEFINE title == IF round.next <= Len(round.list) THEN round.list[round.next].net ELSE NoNet
<1>1. /\ round.at = "items" /\ item' = [item EXCEPT ![round.next] = title]
      /\ UNCHANGED <<known, bound, watcher, edited>>
  BY DEF SetItem
<1>2. round.next \in Slot /\ round.list \in Seq(Entry) /\ round.next \in Nat \ {0}
  BY TrayConstants DEF TrayTypeOK, Slot
<1>3. title \in Network \cup {NoNet}
      /\ (title # NoNet => round.next \in DOMAIN round.list /\ title = round.list[round.next].net)
  <2>1. CASE round.next <= Len(round.list)
    <3>1. round.next \in DOMAIN round.list
      BY <1>2, <2>1
    <3>2. round.list[round.next] \in Entry
      BY <1>2, <3>1
    <3>3. QED
      BY <2>1, <3>1, <3>2 DEF Entry
  <2>2. CASE ~(round.next <= Len(round.list))
    BY <2>2
  <2>3. QED
    BY <2>1, <2>2
<1> HIDE DEF title
<1>4. /\ item' \in [Slot -> Network \cup {NoNet}] /\ item'[round.next] = title
      /\ \A i \in Slot : i # round.next => item'[i] = item[i]
  BY <1>1, <1>2, <1>3 DEF TrayTypeOK
<1>5. InOrder(known, round.list) /\ title # NoNet => IsAt(known, round.next, title)
  BY <1>3 DEF InOrder
<1>6. ClicksInOrder' \/ moved' # moved
  BY <1>1 DEF ClicksInOrder
<1>7. CASE round.next < TraySlots
  <2>1. moved' = moved /\ round' = [round EXCEPT !.next = round.next + 1]
    BY <1>7 DEF SetItem
  <2>2. round.next + 1 \in Slot
    BY <1>2, <1>7, TrayConstants DEF Slot
  <2>3. /\ round' \in [at : {"ask", "bind", "items"}, list : Seq(Entry), next : Slot]
        /\ round'.at = "items" /\ round'.list = round.list /\ round'.next = round.next + 1
    BY <1>1, <2>1, <2>2 DEF TrayTypeOK
  <2>4. TrayTypeOK' /\ TrayStages'
    BY <1>1, <1>4, <2>1, <2>3 DEF TrayTypeOK, TrayStages
  <2>5. \A i \in Slot : i < round.next + 1 => i = round.next \/ i < round.next
    BY <1>2 DEF Slot
  <2>6. TitlesInOrder'
    BY <1>1, <1>4, <1>5, <2>1, <2>3, <2>5 DEF TitlesInOrder
  <2>7. SettingsFit' /\ ClicksInOrder'
    BY <1>1, <1>6, <2>1, <2>3 DEF SettingsFit
  <2>8. QED
    BY <2>4, <2>6, <2>7
<1>8. CASE ~(round.next < TraySlots)
  <2>1. /\ round' = [at |-> "ask", list |-> <<>>, next |-> 1]
        /\ moved' = IF moved = "asked" THEN "old" ELSE moved
    BY <1>8 DEF SetItem
  <2>2. /\ round' \in [at : {"ask", "bind", "items"}, list : Seq(Entry), next : Slot]
        /\ round'.at = "ask" /\ round'.list = <<>> /\ round'.next = 1
    <3>1. 1 \in Slot /\ <<>> \in Seq(Entry)
      BY TrayConstants DEF Slot
    <3>2. QED
      BY <2>1, <3>1
  <2>3. TrayTypeOK' /\ TrayStages'
    BY <1>1, <1>4, <2>1, <2>2 DEF TrayTypeOK, TrayStages, Age
  <2>4. \A i \in Slot : i = round.next \/ i < round.next
    BY <1>2, <1>8, TrayConstants DEF Slot
  <2>5. InOrder(known, <<>>)
    BY DEF InOrder
  <2>6. TitlesInOrder'
    BY <1>1, <1>4, <1>5, <2>1, <2>2, <2>4, <2>5 DEF TitlesInOrder
  <2>7. ClicksInOrder'
    BY <1>1, <2>1 DEF ClicksInOrder
  <2>8. SettingsFit'
    BY <1>1, <2>2 DEF SettingsFit
  <2>9. QED
    BY <2>3, <2>6, <2>7, <2>8
<1>9. QED
  BY <1>7, <1>8

(***************************************************************************)
(* A click, and its reading of the list.                                   *)
(***************************************************************************)
LEMMA ClickPreservesTray ==
  ASSUME TrayInv, NEW i \in Slot, Click(i) \/ WatchRead(i)
  PROVE  TrayInv'
<1> USE DEF TrayInv
<1>1. UNCHANGED <<known, bound, item, round, moved, edited>>
  BY DEF Click, WatchRead
<1>2. SUFFICES
        ASSUME NEW w \in Watch \cup {NoNet}, watcher' = [watcher EXCEPT ![i] = w],
               w # NoNet /\ w.at = "call" =>
                 w.st \in Entry /\ (w.same = TRUE => Agrees(known, w.st)),
               w # NoNet /\ w.sure = TRUE =>
                 /\ moved = "old" /\ IsAt(known, i, w.shown)
                 /\ w.at = "call" => w.st.net = w.shown
        PROVE  TrayInv'
  <2>1. CASE Click(i)
    <3> DEFINE w == [at |-> "clicked", shown |-> item[i], st |-> Blank,
                     sure |-> moved = "old", same |-> TRUE]
    <3>1. watcher' = [watcher EXCEPT ![i] = w] /\ item[i] # NoNet
      BY <2>1 DEF Click, Blank
    <3>2. item[i] \in Network /\ (moved = "old" => IsAt(known, i, item[i]))
      BY <3>1 DEF TrayTypeOK, TitlesInOrder
    <3>3. /\ w \in Watch /\ w.at = "clicked" /\ w.shown = item[i]
          /\ w.sure = TRUE => moved = "old"
      BY <3>2 DEF Watch
    <3> HIDE DEF w
    <3>4. QED
      BY <1>2, <3>1, <3>2, <3>3
  <2>2. CASE WatchRead(i) /\ i > Len(bound)
    BY <1>2, <2>2 DEF WatchRead
  <2>3. CASE WatchRead(i) /\ ~(i > Len(bound))
    <3> DEFINE w == [watcher[i] EXCEPT !.at = "call", !.st = bound[i],
                                       !.same = edited[bound[i].net] = "old"]
    <3>1. watcher' = [watcher EXCEPT ![i] = w] /\ watcher[i] # NoNet
      BY <2>3 DEF WatchRead
    <3>2. i \in DOMAIN bound /\ bound[i] \in Entry
      <4>1. i \in Nat \ {0} /\ bound \in Seq(Entry)
        BY TrayConstants DEF Slot, TrayTypeOK
      <4>2. i \in DOMAIN bound
        BY <2>3, <4>1
      <4>3. QED
        BY <4>1, <4>2
    <3>3. watcher[i] \in Watch
      BY <3>1 DEF TrayTypeOK
    <3>4. /\ w \in Watch /\ w.at = "call" /\ w.st = bound[i] /\ w.shown = watcher[i].shown
          /\ w.sure = watcher[i].sure
          /\ w.same = TRUE => edited[bound[i].net] = "old"
      BY <3>2, <3>3 DEF Watch
    <3>5. edited[bound[i].net] = "old" => Agrees(known, bound[i])
      BY <3>2 DEF SettingsFit
    <3>6. watcher[i].sure = TRUE =>
            moved = "old" /\ IsAt(known, i, watcher[i].shown) /\ IsAt(known, i, bound[i].net)
      BY <3>1, <3>2 DEF ClicksInOrder, TitlesInOrder, InOrder
    <3>7. watcher[i].sure = TRUE => bound[i].net = watcher[i].shown
      BY <3>6, IsAtUnique
    <3> HIDE DEF w
    <3>8. QED
      BY <1>2, <3>1, <3>2, <3>4, <3>5, <3>6, <3>7
  <2>4. QED
    BY <2>1, <2>2, <2>3
<1>3. /\ watcher' \in [Slot -> Watch \cup {NoNet}] /\ watcher'[i] = w
      /\ \A j \in Slot : j # i => watcher'[j] = watcher[j]
  BY <1>2 DEF TrayTypeOK
<1>4. TrayTypeOK' /\ TrayStages'
  BY <1>1, <1>2, <1>3 DEF TrayTypeOK, TrayStages
<1>5. TitlesInOrder'
  BY <1>1 DEF TitlesInOrder
<1>6. ClicksInOrder'
  BY <1>1, <1>2, <1>3 DEF ClicksInOrder
<1>7. SettingsFit'
  BY <1>1, <1>2, <1>3 DEF SettingsFit
<1>8. QED
  BY <1>4, <1>5, <1>6, <1>7

(***************************************************************************)
(* TrayInv holds in every reachable state of the tray and the service.     *)
(***************************************************************************)
THEOREM TraySound == TraySpec => []TrayInv
<1>1. TrayInit => TrayInv
  <2>1. SUFFICES ASSUME TrayInit PROVE TrayInv
    OBVIOUS
  <2>2. /\ round.at = "ask" /\ round.list = <<>> /\ round.next = 1 /\ bound = <<>>
        /\ \A i \in Slot : watcher[i] = NoNet /\ item[i] = NoNet
    BY <2>1 DEF TrayInit
  <2>3. 1 \in Slot /\ <<>> \in Seq(Entry) /\ DOMAIN <<>> = {}
    BY TrayConstants DEF Slot
  <2>4. TrayTypeOK
    BY <2>1, <2>3 DEF TrayInit, TrayTypeOK, Age
  <2>5. TrayStages /\ TitlesInOrder /\ ClicksInOrder /\ SettingsFit
    <3>1. moved = "old"
      BY <2>1 DEF TrayInit
    <3>2. QED
      BY <2>2, <2>3, <3>1 DEF TrayStages, TitlesInOrder, ClicksInOrder, SettingsFit, InOrder
  <2>6. QED
    BY <2>4, <2>5 DEF TrayInv
<1>2. TrayInv /\ [TrayNext]_trayVars => TrayInv'
  <2>1. SUFFICES ASSUME TrayInv, [TrayNext]_trayVars PROVE TrayInv'
    OBVIOUS
  <2>2. CASE UNCHANGED trayVars
    BY <2>1, <2>2 DEF trayVars, TrayInv, TrayTypeOK, TrayStages, TitlesInOrder, ClicksInOrder,
                      SettingsFit
  <2>3. ASSUME NEW n \in Network, WindowRequest(n) PROVE TrayInv'
    BY <2>1, <2>3, RequestsPreserveTray
  <2>4. ASSUME NEW i \in Slot, Click(i) \/ WatchRead(i) \/ WatchCall(i) PROVE TrayInv'
    BY <2>1, <2>4, RequestsPreserveTray, ClickPreservesTray
  <2>5. CASE TrackAsk \/ SetBound \/ SetItem
    BY <2>1, <2>5, AskPreservesTray, BindPreservesTray, ItemPreservesTray
  <2>6. QED
    BY <2>1, <2>2, <2>3, <2>4, <2>5 DEF TrayNext
<1>3. QED
  BY <1>1, <1>2, PTL DEF TraySpec

(***************************************************************************)
(* A click in the tray acts on the network whose title was clicked, and    *)
(* does not undo what was saved since the list was asked for (networkSlots *)
(* .set and .watch against the window's requests).                         *)
(***************************************************************************)
THEOREM ClicksCorrect == TraySpec => []ClicksHitWhatTheyShow
<1>1. TrayInv => ClicksHitWhatTheyShow
  <2>1. SUFFICES ASSUME TrayInv, NEW i \in Slot, watcher[i] # NoNet, watcher[i].at = "call"
                 PROVE  /\ watcher[i].sure => watcher[i].st.net = watcher[i].shown
                        /\ watcher[i].same => /\ known[watcher[i].st.net] # NoNet
                                              /\ known[watcher[i].st.net].settings
                                                   = watcher[i].st.settings
    BY DEF ClicksHitWhatTheyShow
  <2>2. watcher[i] \in Watch
    BY <2>1 DEF TrayInv, TrayTypeOK
  <2>3. watcher[i].sure \in BOOLEAN /\ watcher[i].same \in BOOLEAN
    BY <2>2 DEF Watch
  <2>4. watcher[i].sure = TRUE => watcher[i].st.net = watcher[i].shown
    BY <2>1 DEF TrayInv, ClicksInOrder
  <2>5. watcher[i].same = TRUE => /\ known[watcher[i].st.net] # NoNet
                                  /\ known[watcher[i].st.net].settings = watcher[i].st.settings
    BY <2>1 DEF TrayInv, SettingsFit, Agrees
  <2>6. QED
    BY <2>3, <2>4, <2>5
<1>2. QED
  BY <1>1, TraySound, PTL

-------------------------------------------------------------------------------
(* The engine behind the application *)

Apart(f) == \A x, y \in DOMAIN f : f[x] = f[y] => x = y

(***************************************************************************)
(* The directory hands out the addresses of each half in order.            *)
(***************************************************************************)
MembersNumbered ==
  /\ DOMAIN members \subseteq Device
  /\ \A d \in DOMAIN members : members[d] \in 1..Cardinality(DOMAIN members)
  /\ Apart(members)

ServicesNumbered ==
  /\ DOMAIN services \subseteq Name
  /\ \A n \in DOMAIN services :
       services[n].vip \in (VipBase + 1)..(VipBase + Cardinality(DOMAIN services))
  /\ \A m, n \in DOMAIN services : services[m].vip = services[n].vip => m = n

ServicesAbove ==
  \A n \in DOMAIN services : services[n].vip \in Nat /\ services[n].vip > VipBase

(***************************************************************************)
(* The lists of a round.  A restart between two of its calls can give an   *)
(* address to two of its services, but only if one is hosted here.         *)
(***************************************************************************)
PeersApart ==
  /\ DOMAIN peers \subseteq Device
  /\ \A d \in DOMAIN peers : peers[d] \in 1..VipBase
  /\ Apart(peers)

SvcsApart ==
  /\ \A n \in DOMAIN svcs : svcs[n].vip \in Nat /\ svcs[n].vip > VipBase
  /\ \A m, n \in DOMAIN svcs :
       svcs[m].vip = svcs[n].vip /\ svcs[m].node # selfIP /\ svcs[n].node # selfIP => m = n

\* This node's address changes between rounds only, when no list is held.
RoundOver == phase \in {"off", "idle"} => svcs = Empty

EngineInv ==
  /\ MembersNumbered /\ ServicesNumbered
  /\ PeersApart /\ SvcsApart /\ RoundOver
  /\ AllowedDisjoint

\* Registering a device keeps the addresses numbered in the order of arrival.
LEMMA RegisteredNumbered ==
  ASSUME MembersNumbered, NEW d \in Device, members' = Registered(d)
  PROVE  MembersNumbered'
<1> DEFINE old == DOMAIN members
<1>1. /\ DOMAIN members' = old \cup {d}
      /\ members'[d] = NodeLease(d)
      /\ \A e \in old \ {d} : members'[e] = members[e]
  BY DEF Registered, Put
<1>2. /\ IsFiniteSet(old) /\ Cardinality(old) \in Nat
      /\ Cardinality(old \cup {d}) = IF d \in old THEN Cardinality(old) ELSE Cardinality(old) + 1
  <2>1. IsFiniteSet(Device) /\ old \in SUBSET Device
    BY EngineConstants DEF MembersNumbered
  <2>2. IsFiniteSet(old)
    BY <2>1, FS_Subset
  <2>3. QED
    BY <2>2, FS_AddElement, FS_CardinalityType
<1>3. CASE d \in old
  <2>1. members'[d] = members[d] /\ DOMAIN members' = old
    BY <1>1, <1>3 DEF NodeLease
  <2>2. \A e \in old : members'[e] = members[e]
    BY <1>1, <2>1
  <2>3. QED
    BY <2>1, <2>2 DEF MembersNumbered, Apart
<1>4. CASE d \notin old
  <2>1. members'[d] = Cardinality(old) + 1 /\ Cardinality(DOMAIN members') = Cardinality(old) + 1
    BY <1>1, <1>2, <1>4 DEF NodeLease
  <2>2. \A e \in old : members'[e] = members[e] /\ members[e] \in 1..Cardinality(old)
    BY <1>1, <1>4 DEF MembersNumbered
  <2>3. \A e \in DOMAIN members' : members'[e] \in 1..Cardinality(DOMAIN members')
    BY <1>1, <1>2, <2>1, <2>2
  <2>4. Apart(members')
    <3>1. \A e \in old : members'[e] # members'[d]
      BY <1>2, <2>1, <2>2
    <3>2. \A e, f \in old : members'[e] = members'[f] => e = f
      BY <2>2 DEF MembersNumbered, Apart
    <3>3. QED
      BY <1>1, <3>1, <3>2 DEF Apart
  <2>5. QED
    BY <1>1, <2>3, <2>4 DEF MembersNumbered
<1>5. QED
  BY <1>3, <1>4

\* Publishing a service keeps the services' addresses numbered.
LEMMA PublishedNumbered ==
  ASSUME ServicesNumbered, NEW n \in Name, NEW ip,
         services' = Put(services, n, [node |-> ip, vip |-> VipLease(n)])
  PROVE  ServicesNumbered' /\ services'[n] = [node |-> ip, vip |-> VipLease(n)]
<1> DEFINE old  == DOMAIN services
           full == Cardinality(old)
<1>1. /\ DOMAIN services' = old \cup {n}
      /\ services'[n] = [node |-> ip, vip |-> VipLease(n)]
      /\ \A m \in old \ {n} : services'[m] = services[m]
  BY DEF Put
<1>2. services'[n].vip = VipLease(n)
  BY <1>1
<1>3. /\ full \in Nat
      /\ Cardinality(old \cup {n}) = IF n \in old THEN full ELSE full + 1
  <2>1. IsFiniteSet(Name) /\ old \in SUBSET Name
    BY EngineConstants DEF ServicesNumbered
  <2>2. IsFiniteSet(old)
    BY <2>1, FS_Subset
  <2>3. QED
    BY <2>2, FS_AddElement, FS_CardinalityType
<1>4. VipBase \in Nat
  BY EngineConstants
<1>5. CASE n \in old
  <2>1. DOMAIN services' = old /\ \A m \in old : services'[m].vip = services[m].vip
    BY <1>1, <1>2, <1>5 DEF VipLease
  <2>2. QED
    BY <1>1, <2>1 DEF ServicesNumbered
<1>6. CASE n \notin old
  <2>1. services'[n].vip = VipBase + full + 1 /\ Cardinality(DOMAIN services') = full + 1
    BY <1>1, <1>2, <1>3, <1>6 DEF VipLease
  <2>2. \A m \in old : /\ services'[m].vip = services[m].vip
                       /\ services[m].vip \in (VipBase + 1)..(VipBase + full)
    BY <1>1, <1>6 DEF ServicesNumbered
  <2>3. \A m \in DOMAIN services' :
          services'[m].vip \in (VipBase + 1)..(VipBase + Cardinality(DOMAIN services'))
    BY <1>1, <1>3, <1>4, <2>1, <2>2
  <2>4. \A m \in old : services'[m].vip # services'[n].vip
    BY <1>3, <1>4, <2>1, <2>2
  <2>5. \A l, m \in old : services'[l].vip = services'[m].vip => l = m
    BY <2>2 DEF ServicesNumbered
  <2>6. \A l, m \in DOMAIN services' : services'[l].vip = services'[m].vip => l = m
    BY <1>1, <2>4, <2>5
  <2>7. QED
    BY <1>1, <2>3, <2>6 DEF ServicesNumbered
<1>7. QED
  BY <1>5, <1>6

\* The addresses of a list of members are members' addresses.
LEMMA MembersBelow == MembersNumbered => \A d \in DOMAIN members : members[d] \in 1..VipBase
<1> SUFFICES ASSUME MembersNumbered PROVE \A d \in DOMAIN members : members[d] \in 1..VipBase
  OBVIOUS
<1>1. IsFiniteSet(Device) /\ DOMAIN members \in SUBSET Device
  BY EngineConstants DEF MembersNumbered
<1>2. IsFiniteSet(DOMAIN members) /\ Cardinality(DOMAIN members) <= Cardinality(Device)
  BY <1>1, FS_Subset
<1>3. Cardinality(DOMAIN members) \in Nat /\ Cardinality(Device) \in Nat
  BY <1>1, <1>2, FS_CardinalityType
<1>4. VipBase \in Nat /\ Cardinality(Device) <= VipBase
  BY EngineConstants
<1>5. Cardinality(DOMAIN members) <= VipBase
  BY <1>2, <1>3, <1>4
<1>6. QED
  BY <1>3, <1>4, <1>5 DEF MembersNumbered

\* The addresses of services are above those of members.
LEMMA ServicesAboveBase == ServicesNumbered => ServicesAbove
<1> SUFFICES ASSUME ServicesNumbered, NEW n \in DOMAIN services
             PROVE  services[n].vip \in Nat /\ services[n].vip > VipBase
  BY DEF ServicesAbove
<1>1. IsFiniteSet(Name) /\ DOMAIN services \in SUBSET Name
  BY EngineConstants DEF ServicesNumbered
<1>2. IsFiniteSet(DOMAIN services)
  BY <1>1, FS_Subset
<1>3. Cardinality(DOMAIN services) \in Nat /\ VipBase \in Nat
  BY <1>2, EngineConstants, FS_CardinalityType
<1>4. services[n].vip \in (VipBase + 1)..(VipBase + Cardinality(DOMAIN services))
  BY DEF ServicesNumbered
<1>5. QED
  BY <1>3, <1>4

\* WgPeers gives no address to two peers.
LEMMA WgPeersApart ==
  ASSUME PeersApart, SvcsApart
  PROVE  \A d, e \in DOMAIN WgPeers : WgPeers[d] \cap WgPeers[e] # {} => d = e
<1> SUFFICES ASSUME NEW d \in DOMAIN WgPeers, NEW e \in DOMAIN WgPeers,
                    NEW a \in WgPeers[d], a \in WgPeers[e]
             PROVE  d = e
  OBVIOUS
<1> DEFINE hosts(c) == {m \in DOMAIN svcs : svcs[m].node = peers[c]}
<1>1. /\ d \in DOMAIN peers /\ peers[d] # selfIP
      /\ e \in DOMAIN peers /\ peers[e] # selfIP
  BY DEF WgPeers
<1>2. /\ a = peers[d] \/ \E m \in hosts(d) : a = svcs[m].vip
      /\ a = peers[e] \/ \E m \in hosts(e) : a = svcs[m].vip
  BY <1>1 DEF WgPeers
<1>3. peers[d] \in 1..VipBase /\ peers[e] \in 1..VipBase /\ VipBase \in Nat
  BY <1>1, EngineConstants DEF PeersApart
<1>4. \A m \in DOMAIN svcs : svcs[m].vip # peers[d] /\ svcs[m].vip # peers[e]
  BY <1>3 DEF SvcsApart
<1>5. CASE a = peers[d]
  BY <1>1, <1>2, <1>4, <1>5 DEF PeersApart, Apart
<1>6. CASE \E m \in hosts(d) : a = svcs[m].vip
  <2>1. PICK m \in DOMAIN svcs : svcs[m].node = peers[d] /\ a = svcs[m].vip
    BY <1>6
  <2>2. PICK n \in DOMAIN svcs : svcs[n].node = peers[e] /\ a = svcs[n].vip
    BY <1>2, <1>4, <2>1
  <2>3. m = n
    BY <1>1, <2>1, <2>2 DEF SvcsApart
  <2>4. QED
    BY <1>1, <2>1, <2>2, <2>3 DEF PeersApart, Apart
<1>7. QED
  BY <1>2, <1>5, <1>6

\* Nor does any part of it.
LEMMA PartApart ==
  ASSUME PeersApart, SvcsApart, NEW some \in SUBSET DOMAIN WgPeers,
         tunnel' = Restrict(WgPeers, some)
  PROVE  AllowedDisjoint'
<1>1. DOMAIN tunnel' = some /\ \A d \in some : tunnel'[d] = WgPeers[d]
  BY DEF Restrict
<1>2. QED
  BY <1>1, WgPeersApart DEF AllowedDisjoint

\* A call to the server leaves its members numbered.
LEMMA CallNumbered ==
  ASSUME MembersNumbered, CallSucceeds \/ CallFails
  PROVE  MembersNumbered'
<1>1. CASE Call
  BY <1>1, RegisteredNumbered DEF Call, Device
<1>2. CASE UNCHANGED members
  BY <1>2 DEF MembersNumbered
<1>3. QED
  BY <1>1, <1>2 DEF CallSucceeds, CallFails

\* The steps of the directory.
LEMMA DirectorySound ==
  ASSUME EngineInv,
         \/ \E d \in Other : Join(d)
         \/ \E n \in DOMAIN Theirs : PublishOther(n)
         \/ ServerRestart
  PROVE  EngineInv'
<1>1. ASSUME NEW d \in Other, Join(d) PROVE EngineInv'
  <2>1. MembersNumbered'
    BY <1>1, RegisteredNumbered DEF Join, Device, EngineInv
  <2>2. QED
    BY <1>1, <2>1 DEF Join, EngineInv, PeersApart, ServicesNumbered, SvcsApart, RoundOver,
       AllowedDisjoint, applyVars
<1>2. ASSUME NEW n \in DOMAIN Theirs, PublishOther(n) PROVE EngineInv'
  <2>1. ServicesNumbered'
    BY <1>2, PublishedNumbered DEF PublishOther, Name, EngineInv
  <2>2. QED
    BY <1>2, <2>1 DEF PublishOther, EngineInv, PeersApart, MembersNumbered, SvcsApart, RoundOver,
       AllowedDisjoint, applyVars
<1>3. CASE ServerRestart
  <2>1. DOMAIN Empty = {}
    BY DEF Empty
  <2>2. MembersNumbered' /\ ServicesNumbered'
    BY <1>3, <2>1 DEF ServerRestart, MembersNumbered, ServicesNumbered, Apart
  <2>3. QED
    BY <1>3, <2>2 DEF ServerRestart, EngineInv, PeersApart, SvcsApart, RoundOver,
       AllowedDisjoint, applyVars
<1>4. QED
  BY <1>1, <1>2, <1>3

\* Start, with the round's lists still empty, and Stop.
LEMMA StartStopSound ==
  ASSUME EngineInv, Start \/ StartFails \/ Stop \/ Cleanup
  PROVE  EngineInv'
<1>1. CASE Start
  <2>1. MembersNumbered'
    BY <1>1, RegisteredNumbered DEF Start, Device, EngineInv
  <2>2. SvcsApart' /\ RoundOver'
    BY <1>1 DEF Start, EngineInv, RoundOver, SvcsApart, Empty, applyVars
  <2>3. QED
    BY <1>1, <2>1, <2>2 DEF Start, EngineInv, PeersApart, ServicesNumbered, AllowedDisjoint, applyVars
<1>2. CASE StartFails
  <2>1. MembersNumbered'
    BY <1>2, RegisteredNumbered DEF StartFails, Device, EngineInv, MembersNumbered
  <2>2. QED
    BY <1>2, <2>1 DEF StartFails, EngineInv, PeersApart, ServicesNumbered, SvcsApart, RoundOver,
       AllowedDisjoint, applyVars
<1>3. CASE Stop
  BY <1>3 DEF Stop, EngineInv, MembersNumbered, PeersApart, ServicesNumbered, SvcsApart, RoundOver,
     AllowedDisjoint, applyVars, serverVars
<1>4. CASE Cleanup
  <2>1. SvcsApart' /\ RoundOver'
    BY <1>4 DEF Cleanup, EngineInv, RoundOver, SvcsApart, Empty, applyVars
  <2>2. AllowedDisjoint'
    BY <1>4 DEF Cleanup, AllowedDisjoint, Empty
  <2>3. QED
    BY <1>4, <2>1, <2>2 DEF Cleanup, EngineInv, MembersNumbered, PeersApart, ServicesNumbered,
       applyVars, serverVars
<1>5. QED
  BY <1>1, <1>2, <1>3, <1>4

\* The questions of a round.
LEMMA AskSound ==
  ASSUME EngineInv, AskPeers \/ AskServices
  PROVE  EngineInv'
<1>1. CASE AskPeers
  <2>1. MembersNumbered'
    BY <1>1, CallNumbered DEF AskPeers, EngineInv
  <2>2. PeersApart'
    <3>1. CASE peers' = members'
      <4>1. \A d \in DOMAIN members' : members'[d] \in 1..VipBase
        <5>1. MembersNumbered' => (\A d \in DOMAIN members : members[d] \in 1..VipBase)'
          BY MembersBelow, PTL
        <5>2. QED
          BY <2>1, <5>1
      <4>2. QED
        BY <2>1, <3>1, <4>1 DEF MembersNumbered, PeersApart, Apart
    <3>2. CASE UNCHANGED peers
      BY <3>2 DEF EngineInv, PeersApart
    <3>3. QED
      BY <1>1, <3>1, <3>2 DEF AskPeers
  <2>3. RoundOver'
    BY <1>1 DEF AskPeers, EngineInv, RoundOver
  <2>4. QED
    BY <1>1, <2>1, <2>2, <2>3 DEF AskPeers, EngineInv, ServicesNumbered, SvcsApart, AllowedDisjoint
<1>2. CASE AskServices
  <2>1. MembersNumbered'
    BY <1>2, CallNumbered DEF AskServices, EngineInv
  <2>2. SvcsApart'
    <3>1. CASE svcs' = services
      BY <3>1, ServicesAboveBase DEF EngineInv, ServicesNumbered, ServicesAbove, SvcsApart
    <3>2. CASE svcs' = Empty
      BY <3>2 DEF SvcsApart, Empty
    <3>3. QED
      BY <1>2, <3>1, <3>2 DEF AskServices
  <2>3. RoundOver'
    BY <1>2 DEF AskServices, RoundOver
  <2>4. QED
    BY <1>2, <2>1, <2>2, <2>3 DEF AskServices, EngineInv, PeersApart, ServicesNumbered, AllowedDisjoint
<1>3. QED
  BY <1>1, <1>2

(***************************************************************************)
(* A service published in between may have the address of a service in the *)
(* list, which is older; but it is this node's own, which no peer carries. *)
(***************************************************************************)
LEMMA RepublishSound ==
  ASSUME EngineInv, NEW n \in Mine, Republish(n)
  PROVE  EngineInv'
<1>1. MembersNumbered'
  BY CallNumbered DEF Republish, EngineInv
<1>2. CASE UNCHANGED <<services, svcs>>
  BY <1>1, <1>2 DEF Republish, EngineInv, PeersApart, ServicesNumbered, SvcsApart, RoundOver,
     AllowedDisjoint
<1>3. CASE /\ services' = Put(services, n, [node |-> selfIP, vip |-> VipLease(n)])
           /\ svcs' = Put(svcs, n, services'[n])
  <2>1. ServicesNumbered' /\ services'[n] = [node |-> selfIP, vip |-> VipLease(n)]
    BY <1>3, PublishedNumbered DEF EngineInv, Name
  <2>2. /\ DOMAIN svcs' = DOMAIN svcs \cup {n}
        /\ svcs'[n] = services'[n]
        /\ \A m \in DOMAIN svcs \ {n} : svcs'[m] = svcs[m]
    BY <1>3 DEF Put
  <2>3. svcs'[n].node = selfIP /\ selfIP' = selfIP
    BY <2>1, <2>2 DEF Republish
  <2>4. svcs'[n].vip \in Nat /\ svcs'[n].vip > VipBase
    <3>1. ServicesAbove'
      BY <2>1, ServicesAboveBase, PTL
    <3>2. n \in DOMAIN services'
      BY <1>3 DEF Put
    <3>3. QED
      BY <2>2, <3>1, <3>2 DEF ServicesAbove
  <2>5. SvcsApart'
    BY <2>2, <2>3, <2>4 DEF EngineInv, SvcsApart
  <2>6. QED
    BY <1>1, <2>1, <2>5 DEF Republish, EngineInv, PeersApart, RoundOver, AllowedDisjoint
<1>4. QED
  BY <1>2, <1>3 DEF Republish

\* The steps that act on the device.
LEMMA DeviceSound ==
  ASSUME EngineInv, Tunnel \/ Finish
  PROVE  EngineInv'
<1>1. CASE Tunnel
  <2>1. UNCHANGED <<members, services, selfIP>>
    BY <1>1 DEF Tunnel, serverVars
  <2>2. CASE SetPeers
    <3>1. UNCHANGED <<peers, svcs>> /\ phase' = "finish" /\ (tunnel' = tunnel \/ tunnel' = WgPeers)
      BY <2>2 DEF SetPeers, applyVars
    <3>2. AllowedDisjoint'
      BY <3>1, WgPeersApart DEF EngineInv, AllowedDisjoint
    <3>3. QED
      BY <2>1, <3>1, <3>2 DEF EngineInv, MembersNumbered, PeersApart, ServicesNumbered, SvcsApart,
         RoundOver
  <2>3. CASE SetPeersFails
    <3>1. AllowedDisjoint'
      BY <2>3, PartApart DEF SetPeersFails, EngineInv
    <3>2. peers' = Empty /\ svcs' = Empty /\ DOMAIN Empty = {}
      BY <2>3 DEF SetPeersFails, EndRound, Empty
    <3>3. QED
      BY <2>1, <3>1, <3>2 DEF EngineInv, MembersNumbered, PeersApart, ServicesNumbered, SvcsApart,
         RoundOver, Apart
  <2>4. QED
    BY <1>1, <2>2, <2>3 DEF Tunnel
<1>2. CASE Finish
  <2>1. /\ peers' = Empty /\ svcs' = Empty /\ DOMAIN Empty = {}
        /\ UNCHANGED <<members, services, tunnel, selfIP>>
    BY <1>2 DEF Finish, EndRound, Empty, serverVars
  <2>2. QED
    BY <2>1 DEF EngineInv, MembersNumbered, PeersApart, ServicesNumbered, SvcsApart, RoundOver,
       Apart, AllowedDisjoint
<1>3. QED
  BY <1>1, <1>2

(***************************************************************************)
(* For any devices and services: the addresses the server lists, those of  *)
(* a round's two lists and those the tunnel carries are apart.             *)
(***************************************************************************)
THEOREM EngineSound == Spec => []EngineInv
<1>1. Init => EngineInv
  BY DEF Init, EngineInv, MembersNumbered, PeersApart, ServicesNumbered, SvcsApart, RoundOver,
     AllowedDisjoint, Apart, Empty
<1>2. EngineInv /\ [Next]_vars => EngineInv'
  <2> SUFFICES ASSUME EngineInv, [Next]_vars PROVE EngineInv'
    OBVIOUS
  <2>1. CASE UNCHANGED vars
    BY <2>1 DEF vars, serverVars, applyVars, EngineInv, MembersNumbered, PeersApart,
       ServicesNumbered, SvcsApart, RoundOver, AllowedDisjoint
  <2>2. CASE Next
    BY <2>2, DirectorySound, StartStopSound, AskSound, RepublishSound, DeviceSound DEF Next, Round
  <2>3. QED
    BY <2>1, <2>2
<1>3. QED
  BY <1>1, <1>2, PTL DEF Spec

(***************************************************************************)
(* For any devices and services, any failures, restarts and stops: no      *)
(* address is allowed at two peers of the tunnel.                          *)
(***************************************************************************)
THEOREM AllowedCorrect == Spec => []AllowedDisjoint
<1>1. EngineInv => AllowedDisjoint
  BY DEF EngineInv
<1>2. QED
  BY <1>1, EngineSound, PTL
===============================================================================
