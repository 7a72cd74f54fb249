---------------------------- MODULE ControlSession ----------------------------
(***************************************************************************)
(* Devices that keep a session with the control server: the client of      *)
(* client/join/join.go, driven by the engine that starts it, polls through *)
(* it and stops (client/engine/engine.go), against a server that may be    *)
(* restarted and a network that may lose an exchange.                      *)
(*                                                                         *)
(* The server registers a device in one step, as ControlServer is shown to *)
(* (ImplementsDirectory), at the address the allocator gives it; groups    *)
(* and services do not matter here.  A round trip is one step of the       *)
(* server; the client may not learn of it.  An exchange fails in one of    *)
(* three ways: the request is lost, the answer is lost, or the client      *)
(* gives up (requestTimeout) on a request that the server will still       *)
(* serve later.  One engine makes its control calls one after the other.   *)
(***************************************************************************)
EXTENDS Integers, FiniteSets

CONSTANTS
  Device, NoAddr, None, NoTok,
  NodeBase, HalfSize,   \* the devices' half of the overlay range
  MaxTokens,            \* bound: registrations the server serves
  Restless,             \* devices whose engine is started more than once
  MaxSessions,          \* bound: times such an engine is started
  MaxEpoch,             \* bound: server restarts
  MaxFaults             \* bound: failed exchanges

VARIABLES
  members,                        \* device -> what the server has of it: [ip, token, key]
  spent,                          \* node tokens given out so far
  nodeNext, nodeUsed, nodeByKey,  \* its address allocator
  epoch,      \* server restarts so far
  late,       \* device -> keys of registrations given up on, still to be served
  faults,     \* failed exchanges so far
  pc,         \* where the device's engine stands
  up,         \* engine.Start has returned, the tunnel is running
  key,        \* the node key of this engine: its number, as Join makes a new one
  tok,        \* Client.nodeToken
  ip,         \* Client.id.assignedIP, the address of the tunnel
  born,       \* the epoch in which this engine joined
  reported    \* the address an error of this engine's calls last named as its new one

Token == 1 .. MaxTokens

nodeVars   == <<nodeNext, nodeUsed, nodeByKey>>
serverVars == <<members, spent, nodeVars>>
idVars     == <<key, tok, ip, born, reported>>
clientVars == <<pc, up, idVars>>
vars       == <<serverVars, epoch, late, faults, clientVars>>

Nodes == INSTANCE Ipam WITH
  Key <- Device, Base <- NodeBase, Size <- HalfSize,
  next <- nodeNext, used <- nodeUsed, byKey <- nodeByKey

\* What the server has of a device.
Member == [ip : Nat, token : Nat, key : Nat]

ASSUME SessionConstants ==
  /\ Restless \subseteq Device
  /\ NodeBase \in Nat /\ HalfSize \in Nat \ {0}
  /\ MaxTokens \in Nat /\ MaxSessions \in Nat /\ MaxEpoch \in Nat /\ MaxFaults \in Nat
  /\ NoTok \notin Nat /\ NoAddr \notin Nat /\ None \notin Member

Init ==
  /\ members = [d \in Device |-> None] /\ spent = {}
  /\ Nodes!Init
  /\ epoch = 0
  /\ late = [d \in Device |-> {}]
  /\ faults = 0
  /\ pc = [d \in Device |-> "down"]
  /\ up = [d \in Device |-> FALSE]
  /\ key = [d \in Device |-> 0]
  /\ tok = [d \in Device |-> NoTok]
  /\ ip = [d \in Device |-> NoAddr]
  /\ born = [d \in Device |-> 0]
  /\ reported = [d \in Device |-> NoAddr]

-------------------------------------------------------------------------------
(* The server's side of a round trip *)

(***************************************************************************)
(* POST /v1/register for d with node key k is served: a gives the address, *)
(* t the new node token (tokens are interchangeable, so the next one).     *)
(***************************************************************************)
register(d, k, a, t) ==
  /\ t = Cardinality(spent) + 1
  /\ t \in Token
  /\ Nodes!Allocate(d, a)
  /\ members' = [members EXCEPT ![d] = [ip |-> a, token |-> t, key |-> k]]
  /\ spent' = spent \cup {t}

(***************************************************************************)
(* The server recognises the token d presents.                             *)
(***************************************************************************)
Recognised(d) == members[d] # None /\ members[d].token = tok[d]

-------------------------------------------------------------------------------
(* The client *)

(***************************************************************************)
(* The control call of d is over.  Until Start has returned, an error      *)
(* makes Join and with it Start fail, and the engine is gone.              *)
(***************************************************************************)
Fail(d) ==
  /\ pc' = [pc EXCEPT ![d] = IF up[d] THEN "idle" ELSE "down"]
  /\ UNCHANGED up

(***************************************************************************)
(* Start, up to the registration of Join: a new client and a new node key. *)
(***************************************************************************)
\* Slip: a new engine goes on with the old client's token.
StartKeepingToken(d) ==
  /\ pc[d] = "down"
  /\ key[d] < IF d \in Restless THEN MaxSessions ELSE 1
  /\ key' = [key EXCEPT ![d] = @ + 1]
  /\ ip' = [ip EXCEPT ![d] = NoAddr]
  /\ reported' = [reported EXCEPT ![d] = NoAddr]
  /\ pc' = [pc EXCEPT ![d] = "join"]
  /\ UNCHANGED <<serverVars, epoch, late, faults, up, tok, born>>

Start(d) ==
  /\ pc[d] = "down"
  /\ key[d] < IF d \in Restless THEN MaxSessions ELSE 1
  /\ key' = [key EXCEPT ![d] = @ + 1]
  /\ tok' = [tok EXCEPT ![d] = NoTok]
  /\ ip' = [ip EXCEPT ![d] = NoAddr]
  /\ reported' = [reported EXCEPT ![d] = NoAddr]
  /\ pc' = [pc EXCEPT ![d] = "join"]
  /\ UNCHANGED <<serverVars, epoch, late, faults, up, born>>

(***************************************************************************)
(* register and the rest of Join: the node token is adopted, the assigned  *)
(* address kept, and the peer list asked for (pc "call").                  *)
(***************************************************************************)
JoinRegister(d) ==
  /\ pc[d] = "join"
  /\ \E a \in Nodes!Prefix, t \in Token :
       /\ register(d, key[d], a, t)
       /\ tok' = [tok EXCEPT ![d] = t]
       /\ ip' = [ip EXCEPT ![d] = a]
  /\ born' = [born EXCEPT ![d] = epoch]
  /\ pc' = [pc EXCEPT ![d] = "call"]
  /\ UNCHANGED <<epoch, late, faults, up, key, reported>>

(***************************************************************************)
(* The run loop polls: do sends its first request.                         *)
(***************************************************************************)
Poll(d) ==
  /\ pc[d] = "idle"
  /\ pc' = [pc EXCEPT ![d] = "call"]
  /\ UNCHANGED <<serverVars, epoch, late, faults, up, idVars>>

(***************************************************************************)
(* do, first or second request: an answer is handed to the caller (the     *)
(* one that ends Join brings the tunnel up), and a 401 is followed by one  *)
(* registration, once.                                                     *)
(***************************************************************************)
CallSucceeds(d) ==
  /\ pc[d] \in {"call", "again"}
  /\ Recognised(d)
  /\ pc' = [pc EXCEPT ![d] = "idle"]
  /\ up' = [up EXCEPT ![d] = TRUE]
  /\ UNCHANGED <<serverVars, epoch, late, faults, idVars>>

\* Slip: a 401 is handed to the caller without registering again.
CallUnauthorizedOnce(d) ==
  /\ ~Recognised(d)
  /\ pc[d] \in {"call", "again"}
  /\ Fail(d)
  /\ UNCHANGED <<serverVars, epoch, late, faults, idVars>>

CallUnauthorized(d) ==
  /\ ~Recognised(d)
  /\ \/ /\ pc[d] = "call"
        /\ pc' = [pc EXCEPT ![d] = "reauth"]
        /\ UNCHANGED up
     \/ pc[d] = "again" /\ Fail(d)
  /\ UNCHANGED <<serverVars, epoch, late, faults, idVars>>

(***************************************************************************)
(* reauthenticate: register, which adopts the new node token, and only     *)
(* then the comparison of the addresses.  A changed address ends the call  *)
(* with an error that names it; otherwise the request is sent again.  The  *)
(* tunnel stays at the old address, and the next call is a good one.       *)
(***************************************************************************)
\* Slip: the addresses are not compared.
ReauthenticateSilently(d) ==
  /\ pc[d] = "reauth"
  /\ \E a \in Nodes!Prefix, t \in Token :
       /\ register(d, key[d], a, t)
       /\ tok' = [tok EXCEPT ![d] = t]
  /\ pc' = [pc EXCEPT ![d] = "again"]
  /\ UNCHANGED <<epoch, late, faults, up, key, ip, born, reported>>

Reauthenticate(d) ==
  /\ pc[d] = "reauth"
  /\ \E a \in Nodes!Prefix, t \in Token :
       /\ register(d, key[d], a, t)
       /\ tok' = [tok EXCEPT ![d] = t]
       /\ \/ a # ip[d] /\ Fail(d) /\ reported' = [reported EXCEPT ![d] = a]
          \/ /\ a = ip[d]
             /\ pc' = [pc EXCEPT ![d] = "again"]
             /\ UNCHANGED <<up, reported>>
  /\ UNCHANGED <<epoch, late, faults, key, ip, born>>

(***************************************************************************)
(* The server has no address left: 503, an error for the client.           *)
(***************************************************************************)
RegisterRefused(d) ==
  /\ pc[d] \in {"join", "reauth"}
  /\ Nodes!AllocateFails(d)
  /\ Fail(d)
  /\ UNCHANGED <<members, spent, epoch, late, faults, idVars>>

(***************************************************************************)
(* The engine is stopped; its run loop ends between two polls.             *)
(***************************************************************************)
Stop(d) ==
  /\ pc[d] = "idle"
  /\ pc' = [pc EXCEPT ![d] = "down"]
  /\ up' = [up EXCEPT ![d] = FALSE]
  /\ UNCHANGED <<serverVars, epoch, late, faults, idVars>>

-------------------------------------------------------------------------------
(* Failed exchanges, and the server's restart *)

Fault(d) ==
  /\ faults < MaxFaults
  /\ faults' = faults + 1
  /\ Fail(d)
  /\ UNCHANGED <<epoch, idVars>>

\* A request or its answer is lost where the server has nothing to change.
ExchangeLost(d) ==
  /\ pc[d] \in {"join", "reauth", "call", "again"}
  /\ Fault(d)
  /\ UNCHANGED <<serverVars, late>>

\* The registration is served but the client does not hear of it.
RegisterAnswerLost(d) ==
  /\ pc[d] \in {"join", "reauth"}
  /\ Fault(d)
  /\ \E a \in Nodes!Prefix, t \in Token : register(d, key[d], a, t)
  /\ UNCHANGED late

\* The client gives up on a registration that is still on its way.
RegisterTimesOut(d) ==
  /\ pc[d] \in {"join", "reauth"}
  /\ Fault(d)
  /\ late' = [late EXCEPT ![d] = @ \cup {key[d]}]
  /\ UNCHANGED serverVars

RegisterArrivesLate(d) ==
  /\ \E k \in late[d] :
       /\ \E a \in Nodes!Prefix, t \in Token : register(d, k, a, t)
       /\ late' = [late EXCEPT ![d] = @ \ {k}]
  /\ UNCHANGED <<epoch, faults, clientVars>>

\* Everything is forgotten, and connections to the old process are gone.
ServerRestart ==
  /\ epoch < MaxEpoch
  /\ epoch' = epoch + 1
  /\ members' = [d \in Device |-> None]
  /\ Nodes!Renew
  /\ late' = [d \in Device |-> {}]
  /\ UNCHANGED <<spent, faults, clientVars>>

-------------------------------------------------------------------------------

Progress(d) ==
  \/ JoinRegister(d) \/ Poll(d) \/ CallSucceeds(d) \/ CallUnauthorized(d)
  \/ Reauthenticate(d) \/ RegisterRefused(d)

Next ==
  \/ ServerRestart
  \/ \E d \in Device :
       \/ Start(d) \/ Stop(d) \/ Progress(d)
       \/ ExchangeLost(d) \/ RegisterAnswerLost(d) \/ RegisterTimesOut(d)
       \/ RegisterArrivesLate(d)

(***************************************************************************)
(* A running engine polls every few seconds and the server answers every   *)
(* request; nothing obliges an operator, a fault or a restart to happen.   *)
(***************************************************************************)
Spec == Init /\ [][Next]_vars

FairSpec == Spec /\ \A d \in Device : WF_vars(Progress(d))

-------------------------------------------------------------------------------
(* Properties *)

(***************************************************************************)
(* The member a token authenticates is this device under this engine's own *)
(* key (join.go:165 adopts only answers to its own registration): with     *)
(* lost answers, registrations of a previous engine that arrive late and   *)
(* restarts, a client is never recognised as another device, nor on the    *)
(* strength of a key its tunnel does not use.                              *)
(***************************************************************************)
TokenIsMine ==
  \A c, d \in Device :
    members[d] # None /\ tok[c] # NoTok /\ members[d].token = tok[c] =>
      c = d /\ members[d].key = key[d]

(***************************************************************************)
(* While the server an engine joined is up, the engine's tunnel has the    *)
(* address the server has on record, whatever was lost or repeated.        *)
(***************************************************************************)
AddressAgreesUntilRestart ==
  \A d \in Device :
    ip[d] # NoAddr /\ born[d] = epoch => members[d] # None /\ members[d].ip = ip[d]

(***************************************************************************)
(* "A server restart does not strand a running connection" (join.go:227),  *)
(* and if the address changed, "saying so beats silently running on an     *)
(* address nobody routes to" (join.go:171): once restarts and faults are   *)
(* over, every running engine is for ever recognised by the server under   *)
(* the key its tunnel uses, and the server has it at the tunnel's address  *)
(* or at one that an error returned to the engine has named.  The          *)
(* exception: others have taken the last address of the range meanwhile.   *)
(***************************************************************************)
NotStranded ==
  \A d \in Device :
    <>[](up[d] => \/ /\ Recognised(d) /\ members[d].key = key[d]
                     /\ members[d].ip \in {ip[d], reported[d]}
                  \/ members[d] = None /\ nodeUsed = Nodes!Hosts)
===============================================================================
