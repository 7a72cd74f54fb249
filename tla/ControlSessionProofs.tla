-------------------------- MODULE ControlSessionProofs ------------------------
(***************************************************************************)
(* What a device has with the server: a session with the control server,   *)
(* and its place in the relay's table.                                     *)
(***************************************************************************)
EXTENDS ControlSession, Relay, FiniteSetTheorems, TLAPS

-------------------------------------------------------------------------------
(***************************************************************************)
(* A session with the control server is sound for any devices, however     *)
(* many registrations are lost, late or repeated and however often the     *)
(* server restarts.                                                        *)
(*                                                                         *)
(* Tokens: every one in use was given out, and the next one was not        *)
(* (TokensFit), so an answer the client adopts cannot match what the       *)
(* server has of another device, or of an earlier engine.  Addresses: a    *)
(* member's address is the allocator's, which a device keeps until the     *)
(* restart, and an engine of this server process has that one              *)
(* (AddressesFit).                                                         *)
(***************************************************************************)

SessionTypeOK ==
  /\ members \in [Device -> Member \cup {None}]
  /\ nodeByKey \in [Device -> Nat \cup {NoAddr}]
  /\ epoch \in Nat
  /\ late \in [Device -> SUBSET Nat]
  /\ key \in [Device -> Nat]
  /\ tok \in [Device -> Nat \cup {NoTok}]
  /\ ip \in [Device -> Nat \cup {NoAddr}]
  /\ born \in [Device -> Nat]

TokensFit ==
  /\ IsFiniteSet(spent) /\ Cardinality(spent) \in Nat
  /\ \A t \in spent : t \in Nat /\ t <= Cardinality(spent)
  /\ \A d \in Device : /\ members[d] # None => members[d].token \in spent
                       /\ tok[d] # NoTok => tok[d] \in spent

AddressesFit ==
  \A d \in Device :
    /\ members[d] # None => nodeByKey[d] # NoAddr /\ members[d].ip = nodeByKey[d]
    /\ born[d] <= epoch
    /\ ip[d] # NoAddr /\ born[d] = epoch => members[d] # None /\ nodeByKey[d] = ip[d]

SessionInv == SessionTypeOK /\ TokensFit /\ AddressesFit /\ TokenIsMine

(***************************************************************************)
(* A registration is served: a token that nobody has, the address the      *)
(* device had if it had one, and nothing of any other device changes.      *)
(***************************************************************************)
LEMMA RegisterSound ==
  ASSUME SessionInv, NEW d \in Device, NEW k \in Nat, NEW a \in Nodes!Prefix, NEW t \in Token,
         register(d, k, a, t)
  PROVE  /\ t \in Nat /\ a \in Nat /\ t \notin spent /\ t \in spent' /\ spent \subseteq spent'
         /\ IsFiniteSet(spent') /\ Cardinality(spent') \in Nat
         /\ \A u \in spent' : u \in Nat /\ u <= Cardinality(spent')
         /\ members' \in [Device -> Member \cup {None}]
         /\ nodeByKey' \in [Device -> Nat \cup {NoAddr}]
         /\ members'[d] # None /\ members'[d].ip = a /\ members'[d].token = t /\ members'[d].key = k
         /\ nodeByKey'[d] = a /\ (nodeByKey[d] # NoAddr => nodeByKey[d] = a)
         /\ \A e \in Device : e # d => members'[e] = members[e] /\ nodeByKey'[e] = nodeByKey[e]
<1>1. t = Cardinality(spent) + 1 /\ spent' = spent \cup {t} /\ Nodes!Allocate(d, a)
      /\ members' = [members EXCEPT ![d] = [ip |-> a, token |-> t, key |-> k]]
  BY DEF register
<1>2. /\ IsFiniteSet(spent) /\ Cardinality(spent) \in Nat
      /\ \A u \in spent : u \in Nat /\ u <= Cardinality(spent)
  BY DEF SessionInv, TokensFit
<1>3. t \in Nat /\ t \notin spent
  BY <1>1, <1>2
<1>4. a \in Nat
  BY SessionConstants DEF Nodes!Prefix
<1>5. IsFiniteSet(spent') /\ Cardinality(spent') = t
  BY <1>1, <1>2, <1>3, FS_AddElement
<1>6. \A u \in spent' : u \in Nat /\ u <= t
  BY <1>1, <1>2, <1>3
<1>7. /\ members' \in [Device -> Member \cup {None}]
      /\ members'[d] # None /\ members'[d].ip = a /\ members'[d].token = t /\ members'[d].key = k
      /\ \A e \in Device : e # d => members'[e] = members[e]
  <2> DEFINE m == [ip |-> a, token |-> t, key |-> k]
  <2>1. m \in Member /\ m.ip = a /\ m.token = t /\ m.key = k
    BY <1>3, <1>4 DEF Member
  <2>2. members' = [members EXCEPT ![d] = m] /\ members \in [Device -> Member \cup {None}]
    BY <1>1 DEF SessionInv, SessionTypeOK
  <2> HIDE DEF m
  <2>3. QED
    BY <2>1, <2>2, SessionConstants
<1>8. /\ nodeByKey' \in [Device -> Nat \cup {NoAddr}]
      /\ nodeByKey'[d] = a /\ (nodeByKey[d] # NoAddr => nodeByKey[d] = a)
      /\ \A e \in Device : e # d => nodeByKey'[e] = nodeByKey[e]
  <2>1. nodeByKey \in [Device -> Nat \cup {NoAddr}]
    BY DEF SessionInv, SessionTypeOK
  <2>2. \/ nodeByKey[d] # NoAddr /\ a = nodeByKey[d] /\ nodeByKey' = nodeByKey
        \/ nodeByKey[d] = NoAddr /\ nodeByKey' = [nodeByKey EXCEPT ![d] = a]
    BY <1>1 DEF Nodes!Allocate, Nodes!AllocateKnown, Nodes!AllocateNew, Nodes!ipamVars
  <2>3. QED
    BY <1>4, <2>1, <2>2
<1>9. QED
  BY <1>1, <1>3, <1>4, <1>5, <1>6, <1>7, <1>8

(***************************************************************************)
(* The registration's answer is adopted, at the start or again.            *)
(***************************************************************************)
LEMMA AdoptPreservesInv ==
  ASSUME SessionInv, NEW d \in Device, NEW a \in Nodes!Prefix, NEW t \in Token,
         register(d, key[d], a, t), tok' = [tok EXCEPT ![d] = t],
         \/ ip' = [ip EXCEPT ![d] = a] /\ born' = [born EXCEPT ![d] = epoch]
         \/ UNCHANGED <<ip, born>>,
         UNCHANGED <<epoch, late, key>>
  PROVE  SessionInv'
<1>1. /\ t \in Nat /\ a \in Nat /\ t \notin spent /\ t \in spent' /\ spent \subseteq spent'
      /\ IsFiniteSet(spent') /\ Cardinality(spent') \in Nat
      /\ \A u \in spent' : u \in Nat /\ u <= Cardinality(spent')
      /\ members' \in [Device -> Member \cup {None}]
      /\ nodeByKey' \in [Device -> Nat \cup {NoAddr}]
      /\ members'[d] # None /\ members'[d].ip = a /\ members'[d].token = t
      /\ members'[d].key = key[d]
      /\ nodeByKey'[d] = a /\ (nodeByKey[d] # NoAddr => nodeByKey[d] = a)
      /\ \A e \in Device : e # d => members'[e] = members[e] /\ nodeByKey'[e] = nodeByKey[e]
  <2>1. key[d] \in Nat
    BY DEF SessionInv, SessionTypeOK
  <2>2. QED
    BY <2>1, RegisterSound
<1>2. a # NoAddr /\ t # NoTok
  BY <1>1, SessionConstants
<1>3. /\ tok' \in [Device -> Nat \cup {NoTok}] /\ tok'[d] = t
      /\ \A e \in Device : e # d => tok'[e] = tok[e]
  BY <1>1 DEF SessionInv, SessionTypeOK
<1>4. /\ ip' \in [Device -> Nat \cup {NoAddr}] /\ born' \in [Device -> Nat]
      /\ \A e \in Device : e # d => ip'[e] = ip[e] /\ born'[e] = born[e]
      /\ \/ ip'[d] = a /\ born'[d] = epoch
         \/ ip'[d] = ip[d] /\ born'[d] = born[d]
  BY <1>1 DEF SessionInv, SessionTypeOK
<1>5. SessionTypeOK'
  BY <1>1, <1>3, <1>4 DEF SessionInv, SessionTypeOK
<1>6. TokensFit'
  <2>1. ASSUME NEW e \in Device
        PROVE  /\ members'[e] # None => members'[e].token \in spent'
               /\ tok'[e] # NoTok => tok'[e] \in spent'
    <3>1. CASE e = d
      BY <1>1, <1>3, <3>1
    <3>2. CASE e # d
      BY <1>1, <1>3, <3>2 DEF SessionInv, TokensFit
    <3>3. QED
      BY <3>1, <3>2
  <2>2. QED
    BY <1>1, <2>1 DEF TokensFit
<1>7. AddressesFit'
  <2>1. SUFFICES ASSUME NEW e \in Device
                 PROVE  /\ members'[e] # None =>
                             nodeByKey'[e] # NoAddr /\ members'[e].ip = nodeByKey'[e]
                        /\ born'[e] <= epoch
                        /\ ip'[e] # NoAddr /\ born'[e] = epoch =>
                             members'[e] # None /\ nodeByKey'[e] = ip'[e]
    BY DEF AddressesFit
  <2>2. CASE e # d
    BY <1>1, <1>4, <2>2 DEF SessionInv, AddressesFit
  <2>3. CASE e = d /\ ip'[d] = a /\ born'[d] = epoch
    <3>1. epoch <= epoch
      BY DEF SessionInv, SessionTypeOK
    <3>2. QED
      BY <1>1, <1>2, <2>3, <3>1
  <2>4. CASE e = d /\ ip'[d] = ip[d] /\ born'[d] = born[d]
    <3>1. born[d] <= epoch
      BY DEF SessionInv, AddressesFit
    <3>2. ip[d] # NoAddr /\ born[d] = epoch => nodeByKey[d] = ip[d]
      BY DEF SessionInv, AddressesFit
    <3>3. QED
      BY <1>1, <1>2, <2>4, <3>1, <3>2
  <2>5. QED
    BY <1>4, <2>2, <2>3, <2>4
<1>8. TokenIsMine'
  <2>1. SUFFICES ASSUME NEW c \in Device, NEW e \in Device, members'[e] # None,
                        tok'[c] # NoTok, members'[e].token = tok'[c]
                 PROVE  c = e /\ members'[e].key = key[e]
    BY DEF TokenIsMine
  <2>2. c # d => tok[c] \in spent
    BY <1>3, <2>1 DEF SessionInv, TokensFit
  <2>3. e # d => members[e].token \in spent
    BY <1>1, <2>1 DEF SessionInv, TokensFit
  <2>4. CASE c # d /\ e # d
    BY <1>1, <1>3, <2>1, <2>4 DEF SessionInv, TokenIsMine
  <2>5. CASE c = d \/ e = d
    BY <1>1, <1>3, <2>1, <2>2, <2>3, <2>5
  <2>6. QED
    BY <2>4, <2>5
<1>9. QED
  BY <1>5, <1>6, <1>7, <1>8 DEF SessionInv

(***************************************************************************)
(* A registration is served whose answer nobody adopts: lost, or late.     *)
(***************************************************************************)
LEMMA UnheardPreservesInv ==
  ASSUME SessionInv, NEW d \in Device, NEW k \in Nat, NEW a \in Nodes!Prefix, NEW t \in Token,
         register(d, k, a, t), late' \in [Device -> SUBSET Nat],
         UNCHANGED <<epoch, key, tok, ip, born>>
  PROVE  SessionInv'
<1>1. /\ t \in Nat /\ a \in Nat /\ t \notin spent /\ t \in spent' /\ spent \subseteq spent'
      /\ IsFiniteSet(spent') /\ Cardinality(spent') \in Nat
      /\ \A u \in spent' : u \in Nat /\ u <= Cardinality(spent')
      /\ members' \in [Device -> Member \cup {None}]
      /\ nodeByKey' \in [Device -> Nat \cup {NoAddr}]
      /\ members'[d] # None /\ members'[d].ip = a /\ members'[d].token = t
      /\ nodeByKey'[d] = a /\ (nodeByKey[d] # NoAddr => nodeByKey[d] = a)
      /\ \A e \in Device : e # d => members'[e] = members[e] /\ nodeByKey'[e] = nodeByKey[e]
  BY RegisterSound
<1>2. a # NoAddr
  BY <1>1, SessionConstants
<1>3. SessionTypeOK'
  BY <1>1 DEF SessionInv, SessionTypeOK
<1>4. TokensFit'
  <2>1. ASSUME NEW e \in Device
        PROVE  /\ members'[e] # None => members'[e].token \in spent'
               /\ tok[e] # NoTok => tok[e] \in spent'
    <3>1. CASE e = d
      BY <1>1, <3>1 DEF SessionInv, TokensFit
    <3>2. CASE e # d
      BY <1>1, <3>2 DEF SessionInv, TokensFit
    <3>3. QED
      BY <3>1, <3>2
  <2>2. QED
    BY <1>1, <2>1 DEF TokensFit
<1>5. AddressesFit'
  <2>1. SUFFICES ASSUME NEW e \in Device
                 PROVE  /\ members'[e] # None =>
                             nodeByKey'[e] # NoAddr /\ members'[e].ip = nodeByKey'[e]
                        /\ born[e] <= epoch
                        /\ ip[e] # NoAddr /\ born[e] = epoch =>
                             members'[e] # None /\ nodeByKey'[e] = ip[e]
    BY DEF AddressesFit
  <2>2. /\ born[e] <= epoch
        /\ members[e] # None => nodeByKey[e] # NoAddr /\ members[e].ip = nodeByKey[e]
        /\ ip[e] # NoAddr /\ born[e] = epoch => members[e] # None /\ nodeByKey[e] = ip[e]
    BY DEF SessionInv, AddressesFit
  <2>3. CASE e = d
    BY <1>1, <1>2, <2>2, <2>3
  <2>4. CASE e # d
    BY <1>1, <2>2, <2>4
  <2>5. QED
    BY <2>3, <2>4
<1>6. TokenIsMine'
  <2>1. SUFFICES ASSUME NEW c \in Device, NEW e \in Device, members'[e] # None,
                        tok[c] # NoTok, members'[e].token = tok[c]
                 PROVE  c = e /\ members'[e].key = key[e]
    BY DEF TokenIsMine
  <2>2. tok[c] \in spent
    BY <2>1 DEF SessionInv, TokensFit
  <2>3. e # d
    BY <1>1, <2>1, <2>2
  <2>4. QED
    BY <1>1, <2>1, <2>3 DEF SessionInv, TokenIsMine
<1>7. QED
  BY <1>3, <1>4, <1>5, <1>6 DEF SessionInv

(***************************************************************************)
(* Nothing is served: the invariant speaks of no other variables.          *)
(***************************************************************************)
LEMMA OthersPreserveInv ==
  ASSUME SessionInv, late' \in [Device -> SUBSET Nat],
         UNCHANGED <<members, spent, nodeByKey, epoch, key, tok, ip, born>>
  PROVE  SessionInv'
  BY DEF SessionInv, SessionTypeOK, TokensFit, AddressesFit, TokenIsMine

LEMMA StartPreservesInv ==
  ASSUME SessionInv, NEW d \in Device, Start(d)
  PROVE  SessionInv'
<1>1. /\ key' = [key EXCEPT ![d] = key[d] + 1]
      /\ tok' = [tok EXCEPT ![d] = NoTok]
      /\ ip' = [ip EXCEPT ![d] = NoAddr]
      /\ UNCHANGED <<members, spent, nodeByKey, epoch, late, born>>
  BY DEF Start, serverVars, nodeVars
<1>2. key' \in [Device -> Nat] /\ \A e \in Device : e # d => key'[e] = key[e]
  <2>1. key \in [Device -> Nat]
    BY DEF SessionInv, SessionTypeOK
  <2>2. QED
    BY <1>1, <2>1
<1>3. /\ tok' \in [Device -> Nat \cup {NoTok}] /\ tok'[d] = NoTok
      /\ ip' \in [Device -> Nat \cup {NoAddr}] /\ ip'[d] = NoAddr
      /\ \A e \in Device : e # d => tok'[e] = tok[e] /\ ip'[e] = ip[e]
  BY <1>1 DEF SessionInv, SessionTypeOK
<1>4. SessionTypeOK'
  BY <1>1, <1>2, <1>3 DEF SessionInv, SessionTypeOK
<1>5. TokensFit' /\ AddressesFit'
  BY <1>1, <1>3 DEF SessionInv, TokensFit, AddressesFit
<1>6. TokenIsMine'
  BY <1>1, <1>2, <1>3 DEF SessionInv, TokenIsMine
<1>7. QED
  BY <1>4, <1>5, <1>6 DEF SessionInv

LEMMA RestartPreservesInv ==
  ASSUME SessionInv, ServerRestart
  PROVE  SessionInv'
<1>1. /\ epoch' = epoch + 1 /\ epoch \in Nat
      /\ members' = [d \in Device |-> None]
      /\ nodeByKey' = [d \in Device |-> NoAddr]
      /\ late' = [d \in Device |-> {}]
      /\ UNCHANGED <<spent, key, tok, ip, born>>
  BY DEF ServerRestart, Nodes!Renew, clientVars, idVars, SessionInv, SessionTypeOK
<1>2. \A d \in Device : members'[d] = None
  BY <1>1
<1>3. \A d \in Device : born[d] <= epoch' /\ born[d] # epoch'
  <2>1. \A d \in Device : born[d] \in Nat /\ born[d] <= epoch
    BY DEF SessionInv, SessionTypeOK, AddressesFit
  <2>2. epoch' = epoch + 1 /\ epoch \in Nat
    BY <1>1
  <2>3. QED
    BY <2>1, <2>2
<1>4. SessionTypeOK'
  BY <1>1 DEF SessionInv, SessionTypeOK
<1>5. TokensFit' /\ AddressesFit' /\ TokenIsMine'
  BY <1>1, <1>2, <1>3 DEF SessionInv, TokensFit, AddressesFit, TokenIsMine
<1>6. QED
  BY <1>4, <1>5 DEF SessionInv

(***************************************************************************)
(* SessionInv holds in every reachable state of devices and server.        *)
(***************************************************************************)
THEOREM SessionSound == Spec => []SessionInv
<1>1. Init => SessionInv
  <2>1. SUFFICES ASSUME Init PROVE SessionInv
    OBVIOUS
  <2>2. IsFiniteSet(spent) /\ Cardinality(spent) = 0 /\ spent = {}
    BY <2>1, FS_EmptySet DEF Init
  <2>3. SessionTypeOK
    BY <2>1 DEF Init, Nodes!Init, SessionTypeOK
  <2>4. TokensFit /\ AddressesFit /\ TokenIsMine
    BY <2>1, <2>2 DEF Init, TokensFit, AddressesFit, TokenIsMine
  <2>5. QED
    BY <2>3, <2>4 DEF SessionInv
<1>2. SessionInv /\ [Next]_vars => SessionInv'
  <2>1. SUFFICES ASSUME SessionInv, [Next]_vars PROVE SessionInv'
    OBVIOUS
  <2>2. late \in [Device -> SUBSET Nat] /\ key \in [Device -> Nat]
    BY <2>1 DEF SessionInv, SessionTypeOK
  <2>3. CASE ServerRestart
    BY <2>1, <2>3, RestartPreservesInv
  <2>4. ASSUME NEW d \in Device, Start(d) PROVE SessionInv'
    BY <2>1, <2>4, StartPreservesInv
  <2>5. ASSUME NEW d \in Device, JoinRegister(d) \/ Reauthenticate(d) PROVE SessionInv'
    <3>1. PICK a \in Nodes!Prefix, t \in Token :
            /\ register(d, key[d], a, t) /\ tok' = [tok EXCEPT ![d] = t]
            /\ \/ ip' = [ip EXCEPT ![d] = a] /\ born' = [born EXCEPT ![d] = epoch]
               \/ UNCHANGED <<ip, born>>
            /\ UNCHANGED <<epoch, late, key>>
      BY <2>5 DEF JoinRegister, Reauthenticate
    <3>2. QED
      BY <2>1, <3>1, AdoptPreservesInv
  <2>6. ASSUME NEW d \in Device, RegisterAnswerLost(d) PROVE SessionInv'
    <3>1. PICK a \in Nodes!Prefix, t \in Token : register(d, key[d], a, t)
      BY <2>6 DEF RegisterAnswerLost
    <3>2. UNCHANGED <<late, epoch, key, tok, ip, born>>
      BY <2>6 DEF RegisterAnswerLost, Fault, idVars
    <3>3. key[d] \in Nat /\ late' \in [Device -> SUBSET Nat]
      BY <2>2, <3>2
    <3>4. QED
      BY <2>1, <3>1, <3>2, <3>3, UnheardPreservesInv
  <2>7. ASSUME NEW d \in Device, RegisterArrivesLate(d) PROVE SessionInv'
    <3>1. PICK k \in late[d] : /\ \E a \in Nodes!Prefix, t \in Token : register(d, k, a, t)
                               /\ late' = [late EXCEPT ![d] = @ \ {k}]
      BY <2>7 DEF RegisterArrivesLate
    <3>2. PICK a \in Nodes!Prefix, t \in Token : register(d, k, a, t)
      BY <3>1
    <3>3. UNCHANGED <<epoch, key, tok, ip, born>>
      BY <2>7 DEF RegisterArrivesLate, clientVars, idVars
    <3>4. k \in Nat /\ late' \in [Device -> SUBSET Nat]
      BY <2>2, <3>1
    <3>5. QED
      BY <2>1, <3>2, <3>3, <3>4, UnheardPreservesInv
  <2>8. ASSUME NEW d \in Device,
               \/ Stop(d) \/ Poll(d) \/ CallSucceeds(d) \/ CallUnauthorized(d)
               \/ RegisterRefused(d) \/ ExchangeLost(d) \/ RegisterTimesOut(d)
        PROVE  SessionInv'
    <3>1. UNCHANGED <<members, spent, nodeByKey, epoch, key, tok, ip, born>>
      BY <2>8 DEF Stop, Poll, CallSucceeds, CallUnauthorized, RegisterRefused, ExchangeLost,
                  RegisterTimesOut, Fault, Nodes!AllocateFails, serverVars, nodeVars, idVars
    <3>2. late' = late \/ late' = [late EXCEPT ![d] = @ \cup {key[d]}]
      BY <2>8 DEF Stop, Poll, CallSucceeds, CallUnauthorized, RegisterRefused, ExchangeLost,
                  RegisterTimesOut
    <3>3. late' \in [Device -> SUBSET Nat]
      BY <2>2, <3>2
    <3>4. QED
      BY <2>1, <3>1, <3>3, OthersPreserveInv
  <2>9. CASE UNCHANGED vars
    <3>1. UNCHANGED <<members, spent, nodeByKey, epoch, late, key, tok, ip, born>>
      BY <2>9 DEF vars, serverVars, nodeVars, clientVars, idVars
    <3>2. QED
      BY <2>1, <2>2, <3>1, OthersPreserveInv
  <2>10. QED
    BY <2>1, <2>3, <2>4, <2>5, <2>6, <2>7, <2>8, <2>9 DEF Next, Progress
<1>3. QED
  BY <1>1, <1>2, PTL DEF Spec

(***************************************************************************)
(* A client is never recognised as another device, nor on the strength of  *)
(* a key its tunnel does not use (Client.register, Server.authenticate).   *)
(***************************************************************************)
THEOREM TokenCorrect == Spec => []TokenIsMine
<1>1. SessionInv => TokenIsMine
  BY DEF SessionInv
<1>2. QED
  BY <1>1, SessionSound, PTL

(***************************************************************************)
(* While the server it joined is up, a tunnel has the address the server   *)
(* has on record (Client.reauthenticate, Allocator.Allocate).              *)
(***************************************************************************)
THEOREM AddressCorrect == Spec => []AddressAgreesUntilRestart
<1>1. SessionInv => AddressAgreesUntilRestart
  BY DEF SessionInv, AddressesFit, AddressAgreesUntilRestart
<1>2. QED
  BY <1>1, SessionSound, PTL

-------------------------------------------------------------------------------
(***************************************************************************)
(* The relay, for any nodes, sockets, losses, repetitions and restarts.    *)
(* Late announcements of old sockets and keepalives that outlive theirs    *)
(* are what could go wrong; the invariant says what each may still name.   *)
(***************************************************************************)
KeepaliveState ==
  [node : Node, socket : Nat \ {0}, at : {"started", "select", "turn"}, stop : Nat]

Packet == [type : {"register", "data"}, src : Node, dst : Node, socket : Nat \ {0}]

RelayTypeOK ==
  /\ opens \in [Node -> Nat] /\ open \subseteq Node /\ keepalives \subseteq KeepaliveState
  /\ clients \in [Node -> Nat] /\ net \subseteq Packet /\ heard \subseteq Node \X Node
  /\ restarts \in Nat

\* Whatever names a socket names one that was opened, and data is for others.
SocketsOpened ==
  /\ \A n \in open : opens[n] > 0
  /\ \A k \in keepalives : k.socket <= opens[k.node] /\ k.stop <= opens[k.node]
  /\ \A n \in Node : clients[n] <= opens[n]
  /\ \A p \in net : p.socket <= opens[p.src] /\ (p.type = "data" => p.src # p.dst)

(***************************************************************************)
(* A socket has one keepalive at most, and while it is open, one.  That of *)
(* the current socket waits on the channel the next Close will close.      *)
(***************************************************************************)
OneKeepalive ==
  /\ \A k, l \in keepalives : k.node = l.node /\ k.socket = l.socket => k = l
  /\ \A n \in open : \E k \in keepalives : k.node = n /\ k.socket = opens[n]

RightChannel ==
  \A k \in keepalives :
    Usable(k.node, k.socket) /\ k.at = "select" => k.stop = opens[k.node]

RelayInv == RelayTypeOK /\ SocketsOpened /\ OneKeepalive /\ RightChannel

\* A step of the network or the relay: sockets and keepalives stay as they are.
LEMMA NetStep ==
  ASSUME RelayInv, UNCHANGED nodeEnd, restarts' \in Nat,
         clients' \in [Node -> Nat], \A n \in Node : clients'[n] <= opens[n],
         net' \subseteq Packet,
         \A p \in net' : p.socket <= opens[p.src] /\ (p.type = "data" => p.src # p.dst),
         heard' \subseteq Node \X Node
  PROVE  RelayInv'
<1>1. opens' = opens /\ open' = open /\ keepalives' = keepalives
  BY DEF nodeEnd
<1>2. RelayTypeOK'
  BY <1>1 DEF RelayInv, RelayTypeOK
<1>3. SocketsOpened'
  BY <1>1 DEF RelayInv, SocketsOpened
<1>4. OneKeepalive' /\ RightChannel'
  BY <1>1 DEF RelayInv, OneKeepalive, RightChannel, Usable
<1>5. QED
  BY <1>2, <1>3, <1>4 DEF RelayInv

\* What is sent, field by field.
LEMMA RegisterIs ==
  ASSUME NEW n \in Node, NEW s \in Nat \ {0}
  PROVE  LET p == Register(n, s)
         IN p \in Packet /\ p.src = n /\ p.socket = s /\ p.type = "register"
  BY DEF Register, Packet

LEMMA DataIs ==
  ASSUME NEW n \in Node, NEW m \in Node, NEW s \in Nat \ {0}
  PROVE  LET p == Data(n, m, s)
         IN p \in Packet /\ p.src = n /\ p.dst = m /\ p.socket = s /\ p.type = "data"
  BY DEF Data, Packet

\* Open: the new socket is the current one, and has a keepalive of its own.
LEMMA OpenSound == ASSUME RelayInv, NEW n \in Node, Open(n) PROVE RelayInv'
<1> DEFINE s == opens[n] + 1
           new == [node |-> n, socket |-> s, at |-> "started", stop |-> 0]
           reg == Register(n, s)
<1>1. s \in Nat \ {0} /\ opens' = [opens EXCEPT ![n] = s] /\ opens'[n] = s
      /\ \A m \in Node : opens[m] <= opens'[m] /\ (m # n => opens'[m] = opens[m])
  BY DEF Open, RelayInv, RelayTypeOK
<1>2. reg \in Packet /\ reg.src = n /\ reg.socket = s /\ reg.type = "register"
  BY <1>1, RegisterIs
<1>3. new \in KeepaliveState /\ new.node = n /\ new.socket = s /\ new.at = "started" /\ new.stop = 0
  BY <1>1 DEF KeepaliveState
<1>4. /\ n \notin open /\ open' = open \cup {n} /\ net' = net \cup {reg}
      /\ keepalives' = keepalives \cup {new} /\ heard' \subseteq heard /\ clients' = clients
      /\ restarts' = restarts
  BY <1>1 DEF Open, relayVars, bounds
<1> HIDE DEF new, reg, s
<1>5. opens' \in [Node -> Nat]
  BY <1>1 DEF RelayInv, RelayTypeOK
<1>6. RelayTypeOK'
  BY <1>2, <1>3, <1>4, <1>5 DEF RelayInv, RelayTypeOK
<1>7. \A k \in keepalives : k.node \in Node /\ k.socket \in Nat /\ k.stop \in Nat
                            /\ k.socket <= opens[k.node] /\ k.stop <= opens[k.node]
  BY DEF RelayInv, RelayTypeOK, SocketsOpened, KeepaliveState
<1>8. \A p \in net : p.src \in Node /\ p.socket \in Nat /\ p.socket <= opens[p.src]
                     /\ (p.type = "data" => p.src # p.dst)
  BY DEF RelayInv, RelayTypeOK, SocketsOpened, Packet
<1>9. \A m \in Node : opens[m] \in Nat /\ opens'[m] \in Nat /\ clients[m] \in Nat
  BY <1>5 DEF RelayInv, RelayTypeOK
<1>10. SocketsOpened'
  <2>1. \A m \in open' : opens'[m] > 0
    BY <1>1, <1>4, <1>9 DEF RelayInv, RelayTypeOK, SocketsOpened
  <2>2. \A k \in keepalives' : k.socket <= opens'[k.node] /\ k.stop <= opens'[k.node]
    BY <1>1, <1>3, <1>4, <1>7, <1>9
  <2>3. \A m \in Node : clients'[m] <= opens'[m]
    BY <1>1, <1>4, <1>9 DEF RelayInv, SocketsOpened
  <2>4. \A p \in net' : p.socket <= opens'[p.src] /\ (p.type = "data" => p.src # p.dst)
    BY <1>1, <1>2, <1>4, <1>8, <1>9
  <2>5. QED
    BY <2>1, <2>2, <2>3, <2>4 DEF SocketsOpened
<1>11. \A k \in keepalives : ~(k.node = n /\ k.socket = s)
  <2>1. s > opens[n]
    BY <1>9 DEF s
  <2>2. QED
    BY <1>1, <1>7, <1>9, <2>1
<1>12. OneKeepalive'
  <2>1. \A k, l \in keepalives' : k.node = l.node /\ k.socket = l.socket => k = l
    BY <1>3, <1>4, <1>11 DEF RelayInv, OneKeepalive
  <2>2. ASSUME NEW m \in open' PROVE \E k \in keepalives' : k.node = m /\ k.socket = opens'[m]
    <3>1. CASE m = n
      BY <1>1, <1>3, <1>4, <3>1
    <3>2. CASE m # n
      BY <1>1, <1>4, <3>2 DEF RelayInv, OneKeepalive, RelayTypeOK
    <3>3. QED
      BY <3>1, <3>2
  <2>3. QED
    BY <2>1, <2>2 DEF OneKeepalive
<1>13. RightChannel'
  <2>1. ASSUME NEW k \in keepalives', Usable(k.node, k.socket)', k.at = "select"
        PROVE  k.stop = opens'[k.node]
    <3>1. k \in keepalives /\ k.node \in open' /\ opens'[k.node] = k.socket
      BY <1>3, <1>4, <2>1 DEF Usable
    <3>2. k.node # n
      BY <1>1, <1>11, <3>1
    <3>3. Usable(k.node, k.socket) /\ opens'[k.node] = opens[k.node]
      BY <1>1, <1>4, <1>7, <3>1, <3>2 DEF Usable
    <3>4. QED
      BY <2>1, <3>1, <3>3 DEF RelayInv, RightChannel
  <2>2. QED
    BY <2>1 DEF RightChannel
<1>14. QED
  BY <1>6, <1>10, <1>12, <1>13 DEF RelayInv

\* Close: what is left belongs to sockets that are not open any more.
LEMMA CloseSound == ASSUME RelayInv, NEW n \in Node, Close(n) PROVE RelayInv'
<1>1. /\ open' = open \ {n} /\ keepalives' \subseteq keepalives
      /\ UNCHANGED <<opens, clients, net, heard, restarts>>
      /\ \A k \in keepalives : k.node # n => k \in keepalives'
  BY DEF Close, relayVars, bounds
<1>2. RelayTypeOK'
  BY <1>1 DEF RelayInv, RelayTypeOK
<1>3. SocketsOpened'
  BY <1>1 DEF RelayInv, SocketsOpened
<1>4. OneKeepalive'
  <2>1. \A k, l \in keepalives' : k.node = l.node /\ k.socket = l.socket => k = l
    BY <1>1 DEF RelayInv, OneKeepalive
  <2>2. ASSUME NEW m \in open' PROVE \E k \in keepalives' : k.node = m /\ k.socket = opens'[m]
    <3>1. PICK k \in keepalives : k.node = m /\ k.socket = opens[m]
      BY <1>1 DEF RelayInv, OneKeepalive
    <3>2. QED
      BY <1>1, <3>1
  <2>3. QED
    BY <2>1, <2>2 DEF OneKeepalive
<1>5. RightChannel'
  BY <1>1 DEF RelayInv, RightChannel, Usable
<1>6. QED
  BY <1>2, <1>3, <1>4, <1>5 DEF RelayInv

\* A keepalive moves on, and may send an announcement of its socket.
LEMMA MoveSound ==
  ASSUME RelayInv, NEW k \in keepalives, NEW at \in {"select", "turn"}, Move(k, at),
         UNCHANGED <<opens, open, relayVars, heard, restarts>>,
         net' \in {net, net \cup {Register(k.node, k.socket)}}
  PROVE  RelayInv'
<1> DEFINE stop == IF at = "select" /\ k.node \in open THEN opens[k.node] ELSE 0
           next == [k EXCEPT !.at = at, !.stop = stop]
           reg == Register(k.node, k.socket)
<1>1. k.node \in Node /\ k.socket \in Nat \ {0} /\ k.socket <= opens[k.node]
      /\ opens[k.node] \in Nat /\ k \in KeepaliveState
  BY DEF RelayInv, RelayTypeOK, SocketsOpened, KeepaliveState
<1>2. stop \in Nat /\ stop <= opens[k.node]
      /\ (at = "select" /\ k.node \in open => stop = opens[k.node])
  BY <1>1
<1> HIDE DEF stop
<1>3. /\ next \in KeepaliveState /\ next.node = k.node /\ next.socket = k.socket
      /\ next.at = at /\ next.stop = stop
  BY <1>1, <1>2 DEF KeepaliveState
<1>4. keepalives' = (keepalives \ {k}) \cup {next}
  BY DEF Move, stop
<1>5. reg \in Packet /\ reg.src = k.node /\ reg.socket = k.socket /\ reg.type = "register"
  BY <1>1, RegisterIs
<1>6. UNCHANGED <<opens, open, clients, heard, restarts>>
  BY DEF relayVars
<1>7. net' \subseteq net \cup {reg}
  OBVIOUS
<1> HIDE DEF next, reg
<1>8. RelayTypeOK'
  BY <1>3, <1>4, <1>5, <1>6, <1>7 DEF RelayInv, RelayTypeOK
<1>9. SocketsOpened'
  <2>1. \A l \in keepalives' : l.socket <= opens[l.node] /\ l.stop <= opens[l.node]
    BY <1>1, <1>2, <1>3, <1>4 DEF RelayInv, SocketsOpened
  <2>2. \A p \in net' : p.socket <= opens[p.src] /\ (p.type = "data" => p.src # p.dst)
    BY <1>1, <1>5, <1>7 DEF RelayInv, SocketsOpened
  <2>3. QED
    BY <1>6, <2>1, <2>2 DEF RelayInv, SocketsOpened
<1>10. OneKeepalive'
  <2>1. \A l, m \in keepalives' : l.node = m.node /\ l.socket = m.socket => l = m
    BY <1>3, <1>4 DEF RelayInv, OneKeepalive
  <2>2. ASSUME NEW n \in open' PROVE \E l \in keepalives' : l.node = n /\ l.socket = opens'[n]
    <3>1. PICK l \in keepalives : l.node = n /\ l.socket = opens[n]
      BY <1>6 DEF RelayInv, OneKeepalive
    <3>2. QED
      BY <1>3, <1>4, <1>6, <3>1
  <2>3. QED
    BY <2>1, <2>2 DEF OneKeepalive
<1>11. RightChannel'
  <2>1. ASSUME NEW l \in keepalives', Usable(l.node, l.socket), l.at = "select"
        PROVE  l.stop = opens[l.node]
    <3>1. CASE l = next
      BY <1>2, <1>3, <2>1, <3>1 DEF Usable
    <3>2. CASE l # next
      BY <1>4, <2>1, <3>2 DEF RelayInv, RightChannel
    <3>3. QED
      BY <3>1, <3>2
  <2>2. QED
    BY <1>6, <2>1 DEF RightChannel, Usable
<1>12. QED
  BY <1>8, <1>9, <1>10, <1>11 DEF RelayInv

\* Send: data of the current socket, for another node.
LEMMA SendSound == ASSUME RelayInv, NEW n \in Node, NEW m \in Node, Send(n, m) PROVE RelayInv'
<1> DEFINE p == Data(n, m, opens[n])
<1>1. n \in open /\ n # m /\ net' = net \cup {p} /\ UNCHANGED <<nodeEnd, clients, heard, restarts>>
  BY DEF Send, relayVars, bounds
<1>2. opens[n] \in Nat \ {0}
  BY <1>1 DEF RelayInv, RelayTypeOK, SocketsOpened
<1>3. p \in Packet /\ p.src = n /\ p.dst = m /\ p.socket = opens[n]
  BY <1>2, DataIs
<1> HIDE DEF p
<1>4. net' \subseteq Packet
  BY <1>1, <1>3 DEF RelayInv, RelayTypeOK
<1>5. \A q \in net' : q.socket <= opens[q.src] /\ (q.type = "data" => q.src # q.dst)
  BY <1>1, <1>2, <1>3 DEF RelayInv, SocketsOpened
<1>6. /\ clients' \in [Node -> Nat] /\ heard' \subseteq Node \X Node
      /\ \A x \in Node : clients'[x] <= opens[x] /\ restarts' \in Nat
  BY <1>1 DEF RelayInv, RelayTypeOK, SocketsOpened
<1>7. QED
  BY <1>1, <1>4, <1>5, <1>6, NetStep

(***************************************************************************)
(* handle: the table changes for the sender only, and a packet is heard    *)
(* only by the node it is for, at the socket the relay knows.              *)
(***************************************************************************)
LEMMA HandleIs ==
  ASSUME RelayInv, NEW p \in net, handle(p)
  PROVE  /\ p.src \in Node /\ p.dst \in Node /\ p.socket \in Nat \ {0} /\ p.socket <= opens[p.src]
         /\ clients' = [clients EXCEPT ![p.src] = p.socket]
         /\ heard \subseteq heard'
         /\ \A h \in heard' \ heard :
              /\ p.type = "data" /\ p.src # p.dst /\ h = <<p.src, p.dst>>
              /\ Usable(p.dst, clients[p.dst])
<1>1. /\ p.src \in Node /\ p.dst \in Node /\ p.socket \in Nat \ {0} /\ p.socket <= opens[p.src]
      /\ (p.type = "data" => p.src # p.dst)
  BY DEF RelayInv, RelayTypeOK, SocketsOpened, Packet
<1>2. clients' = [clients EXCEPT ![p.src] = p.socket]
  BY DEF handle
<1>3. p.type = "data" => clients'[p.dst] = clients[p.dst]
  BY <1>1, <1>2 DEF RelayInv, RelayTypeOK
<1>4. \/ heard' = heard
      \/ p.type = "data" /\ heard' = IF Usable(p.dst, clients'[p.dst])
                                     THEN heard \cup {<<p.src, p.dst>>} ELSE heard
  BY DEF handle, makeRelayReceive
<1>5. QED
  BY <1>1, <1>2, <1>3, <1>4

\* Serve: where the sender is, and perhaps a delivery.
LEMMA RelayServes == ASSUME RelayInv, NEW p \in net, Serve(p) PROVE RelayInv'
<1>1. /\ p.src \in Node /\ p.dst \in Node /\ p.socket \in Nat \ {0} /\ p.socket <= opens[p.src]
      /\ clients' = [clients EXCEPT ![p.src] = p.socket]
      /\ \A h \in heard' \ heard : h = <<p.src, p.dst>>
  BY HandleIs DEF Serve
<1>2. UNCHANGED <<nodeEnd, restarts>> /\ net' \subseteq net
  BY DEF Serve
<1>3. clients' \in [Node -> Nat] /\ \A n \in Node : clients'[n] <= opens[n]
  BY <1>1 DEF RelayInv, RelayTypeOK, SocketsOpened
<1>4. heard' \subseteq Node \X Node /\ restarts' \in Nat
  BY <1>1, <1>2 DEF RelayInv, RelayTypeOK
<1>5. net' \subseteq Packet
      /\ \A q \in net' : q.socket <= opens[q.src] /\ (q.type = "data" => q.src # q.dst)
  BY <1>2 DEF RelayInv, RelayTypeOK, SocketsOpened
<1>6. QED
  BY <1>2, <1>3, <1>4, <1>5, NetStep

(***************************************************************************)
(* The invariant holds for any nodes, losses, repetitions and restarts.    *)
(***************************************************************************)
THEOREM RelaySound == RelaySpec => []RelayInv
<1>1. RelayInit => RelayInv
  BY DEF RelayInit, RelayInv, RelayTypeOK, SocketsOpened, OneKeepalive, RightChannel
<1>2. RelayInv /\ [RelayNext]_relayAll => RelayInv'
  <2> SUFFICES ASSUME RelayInv, [RelayNext]_relayAll PROVE RelayInv'
    OBVIOUS
  <2> USE DEF relayVars, bounds
  <2>1. ASSUME NEW n \in Node, Open(n) PROVE RelayInv'
    BY <2>1, OpenSound
  <2>2. ASSUME NEW n \in Node, Close(n) PROVE RelayInv'
    BY <2>2, CloseSound
  <2>3. ASSUME NEW n \in Node, NEW m \in Node, Send(n, m) PROVE RelayInv'
    BY <2>3, SendSound
  <2>4. ASSUME NEW k \in keepalives, Wait(k) \/ Tick(k) PROVE RelayInv'
    <3>1. PICK at \in {"select", "turn"} : Move(k, at)
      BY <2>4 DEF Wait, Tick
    <3>2. net' = net /\ UNCHANGED <<opens, open, relayVars, heard, restarts>>
      BY <2>4 DEF Wait, Tick
    <3>3. QED
      BY <3>1, <3>2, MoveSound
  <2>5. ASSUME NEW k \in keepalives, Announce(k) PROVE RelayInv'
    <3>1. Move(k, "select") /\ UNCHANGED <<opens, open, relayVars, heard, restarts>>
          /\ net' \in {net, net \cup {Register(k.node, k.socket)}}
      BY <2>5 DEF Announce
    <3>2. QED
      BY <3>1, MoveSound
  <2>6. ASSUME NEW p \in net, Serve(p) PROVE RelayInv'
    BY <2>6, RelayServes
  <2>7. ASSUME UNCHANGED <<nodeEnd, heard>>, net' \subseteq net, restarts' \in Nat,
               clients' = clients \/ clients' = [n \in Node |-> 0]
        PROVE  RelayInv'
    <3>1. clients' \in [Node -> Nat] /\ heard' \subseteq Node \X Node
          /\ \A n \in Node : clients'[n] <= opens[n]
      BY <2>7 DEF RelayInv, RelayTypeOK, SocketsOpened
    <3>2. net' \subseteq Packet
          /\ \A q \in net' : q.socket <= opens[q.src] /\ (q.type = "data" => q.src # q.dst)
      BY <2>7 DEF RelayInv, RelayTypeOK, SocketsOpened
    <3>3. QED
      BY <2>7, <3>1, <3>2, NetStep
  <2>8. ASSUME NEW p \in net, Lose(p) PROVE RelayInv'
    BY <2>7, <2>8 DEF Lose, RelayInv, RelayTypeOK
  <2>9. CASE ReadFails \/ Restart
    BY <2>7, <2>9 DEF ReadFails, Restart, RelayInv, RelayTypeOK
  <2>10. CASE UNCHANGED relayAll
    BY <2>7, <2>10 DEF relayAll, RelayInv, RelayTypeOK
  <2>11. QED
    BY <2>1, <2>2, <2>3, <2>4, <2>5, <2>6, <2>8, <2>9, <2>10 DEF RelayNext
<1>3. QED
  BY <1>1, <1>2, PTL DEF RelaySpec


-------------------------------------------------------------------------------
(***************************************************************************)
(* The relay gives a packet only to the node it was sent to, and only at   *)
(* the socket which it knows for that node and which is still in use.      *)
(***************************************************************************)
DeliveriesMeant ==
  [][\A h \in heard' \ heard :
       /\ Usable(h[2], clients[h[2]])
       /\ \E p \in net : p.type = "data" /\ p.src = h[1] /\ p.dst = h[2]]_relayAll

(***************************************************************************)
(* Close ends the keepalive of the socket it closes if that is waiting;    *)
(* only one in the middle of a turn, or not yet waiting, gets away.        *)
(***************************************************************************)
CloseStops ==
  [][\A k \in keepalives' :
       Usable(k.node, k.socket) /\ k.node \notin open' => k.at # "select"]_relayAll

(***************************************************************************)
(* The relay knows every node under its current socket, and nothing under  *)
(* way says otherwise.                                                     *)
(***************************************************************************)
InTouch == Settled /\ clients = opens /\ \A p \in net : p.socket = opens[p.src]

(***************************************************************************)
(* The nodes stay in touch, and nobody who was heard has to be heard anew, *)
(* until a node closes its socket or the relay stops: what keepalives of   *)
(* earlier sockets do cannot undo it.                                      *)
(***************************************************************************)
TouchKept ==
  [][InTouch /\ Settled' /\ restarts' = restarts => InTouch' /\ heard \subseteq heard']_relayAll

\* Only handle gives packets to anybody.
LEMMA HeardBy ==
  ASSUME RelayInv, RelayNext, ~(heard' \subseteq heard)
  PROVE  \E p \in net : Serve(p)
  BY DEF RelayNext, Open, Close, Send, Wait, Tick, Announce, Lose, ReadFails, Restart

(***************************************************************************)
(* handle delivers what was sent, to whom it was sent.                     *)
(***************************************************************************)
THEOREM DeliveryCorrect == RelaySpec => DeliveriesMeant
<1>1. RelayInv /\ [RelayNext]_relayAll =>
        [\A h \in heard' \ heard :
           /\ Usable(h[2], clients[h[2]])
           /\ \E p \in net : p.type = "data" /\ p.src = h[1] /\ p.dst = h[2]]_relayAll
  <2> SUFFICES ASSUME RelayInv, RelayNext, NEW h \in heard' \ heard
               PROVE  /\ Usable(h[2], clients[h[2]])
                      /\ \E p \in net : p.type = "data" /\ p.src = h[1] /\ p.dst = h[2]
    OBVIOUS
  <2>1. PICK p \in net : Serve(p)
    BY HeardBy
  <2>2. p.type = "data" /\ h = <<p.src, p.dst>> /\ Usable(p.dst, clients[p.dst])
    BY <2>1, HandleIs DEF Serve
  <2>3. h[1] = p.src /\ h[2] = p.dst
    BY <2>2
  <2>4. QED
    BY <2>2, <2>3
<1>2. QED
  BY <1>1, RelaySound, PTL DEF RelaySpec, DeliveriesMeant

(***************************************************************************)
(* A keepalive reads the channel anew each time, and that of the current   *)
(* socket always finds the right one (RightChannel).                       *)
(***************************************************************************)
THEOREM CloseStopsKeepalive == RelaySpec => CloseStops
<1>1. RelayInv /\ [RelayNext]_relayAll =>
        [\A k \in keepalives' :
           Usable(k.node, k.socket) /\ k.node \notin open' => k.at # "select"]_relayAll
  <2> SUFFICES ASSUME RelayInv, RelayNext, NEW k \in keepalives', Usable(k.node, k.socket),
                      k.node \notin open', k.at = "select"
               PROVE  FALSE
    OBVIOUS
  <2>1. k.node \in open
    BY DEF Usable
  <2>2. PICK n \in Node : Close(n)
    BY <2>1 DEF RelayNext, Open, Send, Wait, Tick, Announce, Serve, Lose, ReadFails, Restart, nodeEnd
  <2>3. k.node = n /\ k \in keepalives /\ k.stop # opens[n]
    BY <2>1, <2>2 DEF Close
  <2>4. k.stop = opens[n]
    BY <2>3 DEF RelayInv, RightChannel
  <2>5. QED
    BY <2>3, <2>4
<1>2. QED
  BY <1>1, RelaySound, PTL DEF RelaySpec, CloseStops

(***************************************************************************)
(* The part of TunnelsComeUp that is no matter of fairness: what has been  *)
(* reached is kept.                                                        *)
(***************************************************************************)
LEMMA TouchStays ==
  ASSUME RelayInv, RelayNext, InTouch, Settled', restarts' = restarts
  PROVE  InTouch' /\ heard \subseteq heard'
<1>1. open = Node /\ open' = Node /\ serving /\ serving' /\ clients = opens
  BY DEF InTouch, Settled
<1>2. \A p \in net : p.socket = opens[p.src]
  BY DEF InTouch
<1> USE DEF nodeEnd, relayVars
<1>3. ASSUME UNCHANGED <<opens, clients>>, heard \subseteq heard', \A p \in net' : p.socket = opens[p.src]
      PROVE  InTouch' /\ heard \subseteq heard'
  BY <1>1, <1>3 DEF InTouch, Settled
<1>4. ASSUME NEW n \in Node, Open(n) \/ Close(n) PROVE FALSE
  BY <1>1, <1>4 DEF Open, Close
<1>5. CASE Restart \/ ReadFails
  <2>1. restarts' # restarts \/ ~serving'
    <3>1. CASE ReadFails
      BY <3>1 DEF ReadFails
    <3>2. CASE Restart
      BY <3>2 DEF Restart, RelayInv, RelayTypeOK
    <3>3. QED
      BY <1>5, <3>1, <3>2
  <2>2. QED
    BY <1>1, <2>1
<1>6. ASSUME NEW n \in Node, NEW m \in Node, Send(n, m) PROVE InTouch' /\ heard \subseteq heard'
  <2> DEFINE p == Data(n, m, opens[n])
  <2>1. p.socket = opens[n] /\ p.src = n
    BY DEF Data
  <2>2. net' = net \cup {p} /\ UNCHANGED <<opens, clients, heard>>
    BY <1>6 DEF Send
  <2> HIDE DEF p
  <2>3. \A q \in net' : q.socket = opens[q.src]
    BY <1>2, <2>1, <2>2
  <2>4. QED
    BY <1>3, <2>2, <2>3
<1>7. ASSUME NEW k \in keepalives, Wait(k) \/ Tick(k) PROVE InTouch' /\ heard \subseteq heard'
  BY <1>2, <1>3, <1>7 DEF Wait, Tick
<1>8. ASSUME NEW k \in keepalives, Announce(k) PROVE InTouch' /\ heard \subseteq heard'
  <2> DEFINE p == Register(k.node, k.socket)
  <2>1. p.socket = k.socket /\ p.src = k.node
    BY DEF Register
  <2>2. /\ UNCHANGED <<opens, clients, heard>>
        /\ net' = IF Usable(k.node, k.socket) THEN net \cup {p} ELSE net
    BY <1>8 DEF Announce
  <2> HIDE DEF p
  <2>3. \A q \in net' : q.socket = opens[q.src]
    BY <1>2, <2>1, <2>2 DEF Usable
  <2>4. QED
    BY <1>3, <2>2, <2>3
<1>9. ASSUME NEW p \in net, Serve(p) PROVE InTouch' /\ heard \subseteq heard'
  <2>1. clients' = [clients EXCEPT ![p.src] = p.socket] /\ heard \subseteq heard' /\ p.src \in Node
    BY <1>9, HandleIs DEF Serve
  <2>2. clients[p.src] = p.socket
    BY <1>1, <1>2
  <2>3. clients' = clients
    BY <2>1, <2>2 DEF RelayInv, RelayTypeOK
  <2>4. opens' = opens /\ net' \subseteq net
    BY <1>9 DEF Serve
  <2>5. QED
    BY <1>2, <1>3, <2>1, <2>3, <2>4
<1>10. ASSUME NEW p \in net, Lose(p) PROVE InTouch' /\ heard \subseteq heard'
  BY <1>2, <1>3, <1>10 DEF Lose
<1>11. QED
  BY <1>4, <1>5, <1>6, <1>7, <1>8, <1>9, <1>10 DEF RelayNext

(***************************************************************************)
(* For any nodes and sockets, however datagrams are repeated or late.      *)
(***************************************************************************)
THEOREM TouchCorrect == RelaySpec => TouchKept
<1>1. RelayInv /\ [RelayNext]_relayAll =>
        [InTouch /\ Settled' /\ restarts' = restarts => InTouch' /\ heard \subseteq heard']_relayAll
  BY TouchStays
<1>2. QED
  BY <1>1, RelaySound, PTL DEF RelaySpec, TouchKept
===============================================================================
