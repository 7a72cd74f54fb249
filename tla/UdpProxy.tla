-------------------------------- MODULE UdpProxy ------------------------------
(***************************************************************************)
(* The UDP side of a hosted service (client/l4/udp.go): serve takes        *)
(* datagrams off the overlay one by one and gives each client a socket of  *)
(* its own to the backend; a pump per socket carries the answers back      *)
(* until the socket is quiet for too long; Close ends it all.              *)
(*                                                                         *)
(* The map of flows is read and written under a mutex, but sockets are     *)
(* opened, written and closed outside it.                                  *)
(***************************************************************************)
EXTENDS Integers, FiniteSets

CONSTANTS
  Client,
  Refused,       \* clients the access check refuses
  None,
  MaxSockets     \* bound: sockets opened to the backend

VARIABLES
  flows,         \* client -> its socket, or None
  closed,        \* the flag
  listening,     \* the overlay socket is open
  socket,        \* sockets to the backend that are open
  pump,          \* socket -> [client, at], for running pumps
  serve,         \* serve: [at, client, conn]
  closing,       \* Close: "no", "begun" or "done"
  taken,         \* the sockets Close took out of the map
  opened,        \* sockets opened so far
  gone           \* clients that left: neither they nor the backend send any more

proxyVars == <<flows, closed, listening, socket, pump, serve, closing, taken, opened, gone>>

ASSUME UdpProxyConstants == Refused \subseteq Client /\ MaxSockets \in Nat /\ None \notin Nat

Reading == [at |-> "read", client |-> None, conn |-> None]

ProxyInit ==
  /\ flows = [c \in Client |-> None]
  /\ closed = FALSE /\ listening = TRUE
  /\ socket = {} /\ pump = [k \in {} |-> None]
  /\ serve = Reading
  /\ closing = "no" /\ taken = {} /\ opened = 0 /\ gone = {}

-------------------------------------------------------------------------------
(* serve and flowFor *)

(***************************************************************************)
(* A datagram: one from a refused client is dropped.  flowFor looks the    *)
(* client up; once closed it has nothing to give.                          *)
(***************************************************************************)
\* Slip: the client is not looked up.
DatagramAlwaysDials(c) ==
  /\ serve.at = "read" /\ listening
  /\ c \notin Refused \cup gone /\ ~closed
  /\ serve' = [at |-> "dial", client |-> c, conn |-> None]
  /\ UNCHANGED <<flows, closed, listening, socket, pump, closing, taken, opened, gone>>

ServeDatagram(c) ==
  /\ serve.at = "read" /\ listening
  /\ c \notin Refused \cup gone /\ ~closed
  /\ serve' = IF flows[c] # None
              THEN [at |-> "write", client |-> c, conn |-> flows[c]]
              ELSE [at |-> "dial", client |-> c, conn |-> None]
  /\ UNCHANGED <<flows, closed, listening, socket, pump, closing, taken, opened, gone>>

Dial ==
  /\ serve.at = "dial" /\ opened < MaxSockets
  /\ opened' = opened + 1
  /\ socket' = socket \cup {opened'}
  /\ serve' = [serve EXCEPT !.at = "enter", !.conn = opened']
  /\ UNCHANGED <<flows, closed, listening, pump, closing, taken, gone>>

DialFails ==
  /\ serve.at = "dial"
  /\ serve' = Reading
  /\ UNCHANGED <<flows, closed, listening, socket, pump, closing, taken, opened, gone>>

(***************************************************************************)
(* Back under the mutex: closed in the meantime, or the flow is entered    *)
(* and its pump started.  (serve is the only caller, so that nobody else   *)
(* can have entered a flow for the client.)                                *)
(***************************************************************************)
\* Slip: whether the proxy was closed meanwhile is not looked at again.
EnterUnchecked ==
  /\ serve.at = "enter"
  /\ flows' = [flows EXCEPT ![serve.client] = serve.conn]
  /\ pump' = [k \in DOMAIN pump \cup {serve.conn} |->
                IF k = serve.conn THEN [client |-> serve.client, at |-> "reading"] ELSE pump[k]]
  /\ serve' = [serve EXCEPT !.at = "write"]
  /\ UNCHANGED <<closed, listening, socket, closing, taken, opened, gone>>

Enter ==
  /\ serve.at = "enter"
  /\ IF closed
     THEN /\ socket' = socket \ {serve.conn}
          /\ serve' = Reading
          /\ UNCHANGED <<flows, pump>>
     ELSE /\ flows' = [flows EXCEPT ![serve.client] = serve.conn]
          /\ pump' = [k \in DOMAIN pump \cup {serve.conn} |->
                IF k = serve.conn THEN [client |-> serve.client, at |-> "reading"] ELSE pump[k]]
          /\ serve' = [serve EXCEPT !.at = "write"]
          /\ UNCHANGED socket
  /\ UNCHANGED <<closed, listening, closing, taken, opened, gone>>

\* The datagram goes to the backend, or nowhere if the socket has been closed.
Write ==
  /\ serve.at = "write"
  /\ serve' = Reading
  /\ UNCHANGED <<flows, closed, listening, socket, pump, closing, taken, opened, gone>>

(***************************************************************************)
(* Any read that fails ends serve, not only one of the closed socket; the  *)
(* flows and their pumps remain.                                           *)
(***************************************************************************)
ServeEnds ==
  /\ serve.at = "read"
  /\ serve' = [Reading EXCEPT !.at = "ended"]
  /\ UNCHANGED <<flows, closed, listening, socket, pump, closing, taken, opened, gone>>

\* A client goes away.
Leave(c) ==
  /\ gone' = gone \cup {c}
  /\ UNCHANGED <<flows, closed, listening, socket, pump, serve, closing, taken, opened>>

-------------------------------------------------------------------------------
(* pump *)

(***************************************************************************)
(* The pump of k stops: nothing came for too long, its socket was closed,  *)
(* or the overlay socket was.  It then removes the flow and closes the     *)
(* socket.                                                                 *)
(***************************************************************************)
\* Slip: no deadline is set.
PumpWithoutDeadline(k) ==
  /\ pump[k].at = "reading" /\ (k \notin socket \/ ~listening)
  /\ pump' = [pump EXCEPT ![k].at = "ending"]
  /\ UNCHANGED <<flows, closed, listening, socket, serve, closing, taken, opened, gone>>

PumpStops(k) ==
  /\ pump[k].at = "reading"
  /\ pump' = [pump EXCEPT ![k].at = "ending"]
  /\ UNCHANGED <<flows, closed, listening, socket, serve, closing, taken, opened, gone>>

\* Slip: the flow is left in the map.
PumpLeavesFlow(k) ==
  /\ pump[k].at = "ending"
  /\ pump' = [pump EXCEPT ![k].at = "removed"]
  /\ UNCHANGED <<flows, closed, listening, socket, serve, closing, taken, opened, gone>>

PumpRemoves(k) ==
  /\ pump[k].at = "ending"
  /\ flows' = [flows EXCEPT ![pump[k].client] = IF @ = k THEN None ELSE @]
  /\ pump' = [pump EXCEPT ![k].at = "removed"]
  /\ UNCHANGED <<closed, listening, socket, serve, closing, taken, opened, gone>>

PumpEnds(k) ==
  /\ pump[k].at = "removed"
  /\ socket' = socket \ {k}
  /\ pump' = [j \in DOMAIN pump \ {k} |-> pump[j]]
  /\ UNCHANGED <<flows, closed, listening, serve, closing, taken, opened, gone>>

-------------------------------------------------------------------------------
(* Close *)

CloseBegins ==
  /\ closing = "no"
  /\ closed' = TRUE
  /\ taken' = {flows[c] : c \in Client} \ {None}
  /\ flows' = [c \in Client |-> None]
  /\ closing' = "begun"
  /\ UNCHANGED <<listening, socket, pump, serve, opened, gone>>

CloseEnds ==
  /\ closing = "begun"
  /\ socket' = socket \ taken
  /\ listening' = FALSE
  /\ closing' = "done"
  /\ UNCHANGED <<flows, closed, pump, serve, taken, opened, gone>>

PumpStep(k) == PumpStops(k) \/ PumpRemoves(k) \/ PumpEnds(k)

ProxyNext ==
  \/ \E c \in Client : ServeDatagram(c) \/ Leave(c)
  \/ Dial \/ DialFails \/ Enter \/ Write \/ ServeEnds
  \/ \E k \in DOMAIN pump : PumpStep(k)
  \/ CloseBegins \/ CloseEnds

ProxySpec == ProxyInit /\ [][ProxyNext]_proxyVars

(***************************************************************************)
(* serve goes on with what it has begun, and so does a pump once it stops. *)
(* A pump whose client is gone reads nothing more, so its deadline passes. *)
(***************************************************************************)
Expire(k) ==
  /\ k \in DOMAIN pump
  /\ pump[k].at = "reading" => pump[k].client \in gone
  /\ PumpStep(k)

ProxyFairness ==
  /\ WF_proxyVars(Enter)
  /\ \A k \in 1 .. MaxSockets : WF_proxyVars(Expire(k))

-------------------------------------------------------------------------------
(* Properties *)

(***************************************************************************)
(* A flow in the map always has a pump, which serves that client and will  *)
(* take it out: otherwise every later datagram of the client would go to a *)
(* dead socket.  And "each client gets its own socket to the backend"      *)
(* (udp.go:19), only one: to the backend a second is another client.       *)
(***************************************************************************)
FlowsArePumped ==
  /\ \A c \in Client : flows[c] # None =>
       /\ flows[c] \in DOMAIN pump
       /\ pump[flows[c]].client = c
       /\ pump[flows[c]].at \in {"reading", "ending"}
  /\ ~closed => \A j, k \in DOMAIN pump :
       /\ pump[j].client = pump[k].client
       /\ pump[j].at \in {"reading", "ending"} /\ pump[k].at \in {"reading", "ending"}
       => j = k

(***************************************************************************)
(* "Close stops the proxy and drops every flow" (udp.go:56): afterwards    *)
(* the only sockets open are one that serve has just opened and will find  *)
(* out about, and those whose pumps are about to close them.               *)
(***************************************************************************)
CloseIsFinal ==
  closing = "done" =>
    /\ \A c \in Client : flows[c] = None
    /\ \A k \in socket :
         \/ serve.at = "enter" /\ serve.conn = k
         \/ k \in DOMAIN pump /\ pump[k].at = "removed"

(***************************************************************************)
(* A machine "does not accumulate sockets for clients that left"           *)
(* (udp.go:13): the socket of a client that is gone is closed in the end,  *)
(* also when serve has ended on a failed read or Close came in between.    *)
(***************************************************************************)
Held(k) == k \in socket /\ k \in DOMAIN pump /\ pump[k].client \in gone

FlowsExpire == \A k \in 1 .. MaxSockets : Held(k) ~> k \notin socket
===============================================================================
