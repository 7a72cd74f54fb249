---------------------------- MODULE ClientPartsProofs -------------------------
(***************************************************************************)
(* Three parts of the client that run by themselves: the UDP proxy, the    *)
(* policy rules that send the names of the networks to the resolver, and   *)
(* the resolver.                                                           *)
(***************************************************************************)
EXTENDS UdpProxy, SplitDns, Resolver, NaturalsInduction, WellFoundedInduction, TLAPS

-------------------------------------------------------------------------------
(***************************************************************************)
(* The UDP proxy is correct for any number of clients and sockets.         *)
(*                                                                         *)
(* Neither property is inductive.  What serve holds while it is outside    *)
(* the mutex must be a socket nobody else knows (ServeSound), a flow and   *)
(* its pump must name each other as long as the proxy is open (PumpsFiled),*)
(* and once Close has taken the map every pump that still runs must be one *)
(* of those it took (CloseSound).                                          *)
(***************************************************************************)
Sock == 1 .. MaxSockets

PumpState == [client : Client, at : {"reading", "ending", "removed"}]

\* The pump of k has not taken its flow out yet.
Live(k) == pump[k].at \in {"reading", "ending"}

(***************************************************************************)
(* Types.  Sockets are numbered in the order they are opened.              *)
(***************************************************************************)
ProxyTypeOK ==
  /\ flows \in [Client -> Sock \cup {None}]
  /\ closed \in BOOLEAN /\ listening \in BOOLEAN
  /\ opened \in 0 .. MaxSockets
  /\ socket \subseteq 1 .. opened
  /\ taken \subseteq 1 .. opened
  /\ DOMAIN pump \subseteq 1 .. opened
  /\ pump \in [DOMAIN pump -> PumpState]
  /\ serve \in [at : {"read", "dial", "enter", "write", "ended"},
                client : Client \cup {None}, conn : Sock \cup {None}]
  /\ closing \in {"no", "begun", "done"}

\* serve alone knows the socket it has opened, and nobody enters flows but serve.
ServeSound ==
  /\ serve.at \in {"dial", "enter", "write"} => serve.client \in Client
  /\ serve.at \in {"dial", "enter"} /\ ~closed => flows[serve.client] = None
  /\ serve.at = "enter" =>
       serve.conn \in (1 .. opened) \ (DOMAIN pump \cup taken)

\* Flows and pumps name each other.
FlowsHavePumps ==
  \A c \in Client : flows[c] # None =>
    flows[c] \in DOMAIN pump /\ pump[flows[c]].client = c /\ Live(flows[c])

PumpsFiled == ~closed => \A k \in DOMAIN pump : Live(k) => flows[pump[k].client] = k

\* Close took every flow there was, and no socket is left without a keeper.
CloseSound ==
  /\ closed <=> closing # "no"
  /\ closed => /\ \A c \in Client : flows[c] = None
               /\ \A k \in DOMAIN pump : Live(k) => k \in taken
  /\ closing = "done" => socket \cap taken = {}
  /\ \A k \in socket : (serve.at = "enter" /\ serve.conn = k) \/ k \in DOMAIN pump

ProxyInv == ProxyTypeOK /\ ServeSound /\ FlowsHavePumps /\ PumpsFiled /\ CloseSound

-------------------------------------------------------------------------------

\* A new proxy satisfies the invariant.
LEMMA ProxyInitInv == ProxyInit => ProxyInv
<1> SUFFICES ASSUME ProxyInit PROVE ProxyInv
  OBVIOUS
<1> USE DEF ProxyInit, Reading
<1>1. DOMAIN pump = {}
  OBVIOUS
<1>2. pump \in [DOMAIN pump -> PumpState]
  BY <1>1
<1>3. /\ flows \in [Client -> Sock \cup {None}]
      /\ opened \in 0 .. MaxSockets
      /\ serve \in [at : {"read", "dial", "enter", "write", "ended"},
                    client : Client \cup {None}, conn : Sock \cup {None}]
  BY UdpProxyConstants
<1>4. ServeSound /\ FlowsHavePumps /\ PumpsFiled
  BY <1>1 DEF ServeSound, FlowsHavePumps, PumpsFiled
<1>5. CloseSound
  BY <1>1 DEF CloseSound
<1>6. ProxyTypeOK
  BY <1>1, <1>2, <1>3 DEF ProxyTypeOK
<1>7. QED
  BY <1>4, <1>5, <1>6 DEF ProxyInv

(***************************************************************************)
(* Each step of serve preserves the invariant.                             *)
(***************************************************************************)
LEMMA ServePreservesInv ==
  ASSUME ProxyInv,
         \/ \E c \in Client : ServeDatagram(c) \/ Leave(c)
         \/ Dial \/ DialFails \/ Enter \/ Write \/ ServeEnds
  PROVE  ProxyInv'
<1> USE DEF ProxyInv, ProxyTypeOK, ServeSound, FlowsHavePumps, PumpsFiled, CloseSound, Live
<1>1. ASSUME NEW c \in Client, ServeDatagram(c) PROVE ProxyInv'
  BY <1>1 DEF ServeDatagram
<1>2. ASSUME NEW c \in Client, Leave(c) PROVE ProxyInv'
  BY <1>2 DEF Leave
<1>3. CASE Dial
  <2>1. opened' = opened + 1 /\ opened' \in Sock /\ opened' \notin DOMAIN pump \cup taken
    BY <1>3, UdpProxyConstants DEF Dial, Sock
  <2>2. ProxyTypeOK'
    <3>1. opened' \in 0 .. MaxSockets /\ 1 .. opened \subseteq 1 .. opened' /\ opened' \in 1 .. opened'
      BY <1>3, UdpProxyConstants DEF Dial
    <3>2. serve' \in [at : {"read", "dial", "enter", "write", "ended"},
                      client : Client \cup {None}, conn : Sock \cup {None}]
      BY <1>3, <2>1 DEF Dial
    <3>3. QED
      BY <1>3, <3>1, <3>2 DEF Dial
  <2>3. ServeSound' /\ FlowsHavePumps' /\ PumpsFiled' /\ CloseSound'
    BY <1>3, <2>1 DEF Dial
  <2>4. QED
    BY <2>2, <2>3
<1>4. CASE DialFails
  BY <1>4 DEF DialFails, Reading
<1>5. CASE Enter
  <2>1. CASE closed
    BY <1>5, <2>1 DEF Enter, Reading
  <2>2. CASE ~closed
    <3> DEFINE c == serve.client
               k == serve.conn
    <3>1. /\ c \in Client /\ flows[c] = None
          /\ k \in 1 .. opened /\ k \notin DOMAIN pump /\ k \notin taken
          /\ k \in Sock /\ k # None
      BY <1>5, <2>2, UdpProxyConstants DEF Enter, Sock
    <3>2. /\ flows' = [flows EXCEPT ![c] = k]
          /\ DOMAIN pump' = DOMAIN pump \cup {k}
          /\ pump'[k] = [client |-> c, at |-> "reading"]
          /\ \A j \in DOMAIN pump : pump'[j] = pump[j]
          /\ serve' = [serve EXCEPT !.at = "write"]
          /\ UNCHANGED <<closed, listening, socket, closing, taken, opened>>
      BY <1>5, <2>2, <3>1 DEF Enter
    <3>3. pump' \in [DOMAIN pump' -> PumpState]
      BY <1>5, <2>2, <3>1 DEF Enter, PumpState
    <3> HIDE DEF c, k
    <3>4. ProxyTypeOK'
      <4>1. flows' \in [Client -> Sock \cup {None}]
        BY <3>1, <3>2
      <4>2. DOMAIN pump' \subseteq 1 .. opened'
        BY <3>1, <3>2
      <4>3. serve' \in [at : {"read", "dial", "enter", "write", "ended"},
                        client : Client \cup {None}, conn : Sock \cup {None}]
        BY <3>2
      <4>4. QED
        BY <3>2, <3>3, <4>1, <4>2, <4>3
    <3>5. ServeSound' /\ FlowsHavePumps' /\ PumpsFiled'
      <4>1. ServeSound'
        BY <3>1, <3>2 DEF c
      <4>2. FlowsHavePumps'
        <5> SUFFICES ASSUME NEW d \in Client, flows'[d] # None
                     PROVE  flows'[d] \in DOMAIN pump' /\ pump'[flows'[d]].client = d
                            /\ pump'[flows'[d]].at \in {"reading", "ending"}
          OBVIOUS
        <5>1. CASE d = c
          BY <3>1, <3>2, <5>1
        <5>2. CASE d # c
          <6>1. flows'[d] = flows[d] /\ flows[d] \in DOMAIN pump
            BY <3>1, <3>2, <5>2
          <6>2. QED
            BY <3>1, <3>2, <6>1
        <5>3. QED
          BY <5>1, <5>2
      <4>3. PumpsFiled'
        <5> SUFFICES ASSUME NEW j \in DOMAIN pump', pump'[j].at \in {"reading", "ending"}
                     PROVE  flows'[pump'[j].client] = j
          OBVIOUS
        <5>1. CASE j = k
          BY <3>1, <3>2, <5>1
        <5>2. CASE j # k
          <6>1. j \in DOMAIN pump /\ pump'[j] = pump[j] /\ pump[j].client \in Client
            BY <3>2, <5>2 DEF PumpState
          <6>2. flows[pump[j].client] = j /\ j # None
            BY <2>2, <6>1, UdpProxyConstants
          <6>3. QED
            BY <3>1, <3>2, <6>1, <6>2
        <5>3. QED
          BY <5>1, <5>2
      <4>4. QED
        BY <4>1, <4>2, <4>3
    <3>6. CloseSound'
      BY <2>2, <3>1, <3>2 DEF k
    <3>7. QED
      BY <3>4, <3>5, <3>6
  <2>3. QED
    BY <2>1, <2>2
<1>6. CASE Write
  BY <1>6 DEF Write, Reading
<1>7. CASE ServeEnds
  BY <1>7 DEF ServeEnds, Reading
<1>8. QED
  BY <1>1, <1>2, <1>3, <1>4, <1>5, <1>6, <1>7

(***************************************************************************)
(* Each step of a pump preserves the invariant.                            *)
(***************************************************************************)
LEMMA PumpPreservesInv ==
  ASSUME ProxyInv, NEW k \in DOMAIN pump, PumpStep(k)
  PROVE  ProxyInv'
<1> USE DEF ProxyInv, ProxyTypeOK, ServeSound, FlowsHavePumps, PumpsFiled, CloseSound, Live
<1>1. CASE PumpStops(k)
  BY <1>1 DEF PumpStops, PumpState
<1>2. CASE PumpRemoves(k)
  BY <1>2 DEF PumpRemoves, PumpState
<1>3. CASE PumpEnds(k)
  BY <1>3 DEF PumpEnds, PumpState
<1>4. QED
  BY <1>1, <1>2, <1>3 DEF PumpStep

(***************************************************************************)
(* Both halves of Close preserve the invariant.                            *)
(***************************************************************************)
LEMMA ClosePreservesInv ==
  ASSUME ProxyInv, CloseBegins \/ CloseEnds
  PROVE  ProxyInv'
<1> USE DEF ProxyInv, ProxyTypeOK, ServeSound, FlowsHavePumps, PumpsFiled, CloseSound, Live
<1>1. CASE CloseBegins
  <2>1. taken' \subseteq 1 .. opened
    BY <1>1 DEF CloseBegins
  <2>2. ProxyTypeOK'
    BY <1>1, <2>1 DEF CloseBegins
  <2>3. ServeSound' /\ FlowsHavePumps' /\ PumpsFiled'
    BY <1>1 DEF CloseBegins
  <2>4. CloseSound'
    <3>1. ASSUME NEW k \in DOMAIN pump, Live(k) PROVE k \in taken'
      <4>1. pump[k].client \in Client /\ flows[pump[k].client] = k /\ k # None
        BY <1>1, <3>1, UdpProxyConstants DEF CloseBegins, PumpState
      <4>2. QED
        BY <1>1, <4>1 DEF CloseBegins
    <3>2. QED
      BY <1>1, <3>1 DEF CloseBegins
  <2>5. QED
    BY <2>2, <2>3, <2>4
<1>2. CASE CloseEnds
  <2>1. ProxyTypeOK'
    BY <1>2 DEF CloseEnds
  <2>2. ServeSound' /\ FlowsHavePumps' /\ PumpsFiled'
    BY <1>2 DEF CloseEnds
  <2>3. CloseSound'
    BY <1>2 DEF CloseEnds
  <2>4. QED
    BY <2>1, <2>2, <2>3
<1>3. QED
  BY <1>1, <1>2

(***************************************************************************)
(* The proxy's state is always sound, however serve, the pumps and Close   *)
(* interleave (udp.go:56-163).                                             *)
(***************************************************************************)
THEOREM ProxySound == ProxySpec => []ProxyInv
<1>1. ProxyInv /\ [ProxyNext]_proxyVars => ProxyInv'
  <2> SUFFICES ASSUME ProxyInv, [ProxyNext]_proxyVars PROVE ProxyInv'
    OBVIOUS
  <2>1. CASE UNCHANGED proxyVars
    BY <2>1 DEF proxyVars, ProxyInv, ProxyTypeOK, ServeSound, FlowsHavePumps, PumpsFiled,
                CloseSound, Live
  <2>2. QED
    BY <2>1, ServePreservesInv, PumpPreservesInv, ClosePreservesInv DEF ProxyNext
<1>2. QED
  BY <1>1, ProxyInitInv, PTL DEF ProxySpec

(***************************************************************************)
(* For any number of clients: a flow in the map is served by a pump of its *)
(* own client that will take it out, and no client has two.                *)
(***************************************************************************)
THEOREM FlowsCorrect == ProxySpec => []FlowsArePumped
<1>1. ProxyInv => FlowsArePumped
  BY DEF ProxyInv, FlowsHavePumps, PumpsFiled, Live, FlowsArePumped
<1>2. QED
  BY <1>1, ProxySound, PTL

(***************************************************************************)
(* For any number of clients: after Close no flow is left, and every       *)
(* socket still open is about to be closed by serve or by its pump.        *)
(***************************************************************************)
THEOREM CloseCorrect == ProxySpec => []CloseIsFinal
<1>1. ProxyInv => CloseIsFinal
  <2> SUFFICES ASSUME ProxyInv, closing = "done" PROVE
        /\ \A c \in Client : flows[c] = None
        /\ \A k \in socket :
             \/ serve.at = "enter" /\ serve.conn = k
             \/ k \in DOMAIN pump /\ pump[k].at = "removed"
    BY DEF CloseIsFinal
  <2>1. QED
    BY DEF ProxyInv, ProxyTypeOK, CloseSound, Live, PumpState
<1>2. QED
  BY <1>1, ProxySound, PTL

-------------------------------------------------------------------------------
(***************************************************************************)
(* Split DNS, for any networks, any foreign rules and any number of runs.  *)
(*                                                                         *)
(* The binder trusts its memory: an Apply that asks for what the last one  *)
(* installed does nothing.  So while scripts do not fail and nobody        *)
(* meddles, the rules in the table must be for namespaces it remembers     *)
(* (MemoryFits), and a script under way must leave only rules for what was *)
(* asked (ScriptFits), which in Clear and Purge is nothing (ClearsAll).    *)
(***************************************************************************)
DnsTypeOK ==
  /\ rules \subseteq Rule
  /\ proc \in {"down", "up", "stopping", "purging"}
  /\ pc \in {"off", "read", "apply", "mutate", "wait"}
  /\ synced \in BOOLEAN
  /\ outcome \in {"none", "busy", "ok", "error"}
  /\ want \subseteq Suffix /\ adds \subseteq Suffix /\ served \subseteq Suffix
  /\ failures \in Nat /\ meddles \in Nat

OursOnly == \A r \in removes : r.tag = "ours"

ClearsAll ==
  /\ outcome = "busy" => want = {} /\ pc \in {"apply", "mutate"}
  /\ pc \in {"off", "read", "wait"} => want = {}
  /\ pc = "off" <=> proc = "down"
  /\ proc = "purging" => outcome = "busy"

Undisturbed == failures = 0 /\ meddles = 0

MemoryFits ==
  synced = TRUE /\ proc # "down" /\ pc # "mutate" => \A r \in list : r.ns \in last

ScriptFits ==
  pc = "mutate" => /\ removes \subseteq rules /\ adds \subseteq want
                   /\ \A r \in list : r \in removes \/ r.ns \in want

TableFits == Undisturbed => MemoryFits /\ ScriptFits

DnsInv == DnsTypeOK /\ OursOnly /\ ClearsAll /\ TableFits /\ NothingLeftBehind

LEMMA DnsInit == Init => DnsInv
<1> SUFFICES ASSUME Init PROVE DnsInv
  OBVIOUS
<1>1. rules \subseteq Rule
  <2>1. SUFFICES ASSUME NEW r \in rules PROVE r \in Rule
    OBVIOUS
  <2>2. PICK n \in ForeignNs : r = [ns |-> n, to |-> "other", tag |-> "foreign", copy |-> 1]
    BY DEF Init
  <2>3. n \in Suffix
    BY SplitDnsConstants
  <2>4. QED
    BY <2>2, <2>3 DEF Rule
<1>2. DnsTypeOK
  BY <1>1 DEF Init, DnsTypeOK
<1>3. OursOnly /\ ClearsAll /\ TableFits /\ NothingLeftBehind
  BY DEF Init, OursOnly, ClearsAll, TableFits, MemoryFits, ScriptFits, NothingLeftBehind
<1>4. QED
  BY <1>2, <1>3 DEF DnsInv

\* The end of Apply, once the table fits what was asked.
LEMMA ReturnSound ==
  ASSUME DnsInv, NEW how \in {"ok", "error"}, Return(how), pc \in {"apply", "mutate"},
         UNCHANGED <<rules, served>>, synced' \in BOOLEAN,
         failures' \in Nat, meddles' \in Nat,
         Undisturbed' => /\ synced' = TRUE => \A r \in list : r.ns \in last'
                         /\ how = "ok" /\ outcome = "busy" => list = {}
  PROVE  DnsInv'
<1>1. /\ adds' = {} /\ removes' = {} /\ want' = {} /\ pc' \in {"wait", "off"}
      /\ \/ pc' = "wait" /\ proc' = proc /\ outcome' = outcome /\ outcome = "none"
         \/ pc' = "off" /\ proc' = "down" /\ outcome' = how /\ outcome = "busy"
  BY DEF Return
<1>2. DnsTypeOK'
  BY <1>1 DEF DnsInv, DnsTypeOK
<1>3. OursOnly' /\ ClearsAll'
  BY <1>1 DEF DnsInv, OursOnly, ClearsAll
<1>4. list' = list
  BY DEF list
<1>5. TableFits'
  BY <1>1, <1>4 DEF TableFits, MemoryFits, ScriptFits
<1>6. NothingLeftBehind'
  BY <1>1, <1>4 DEF NothingLeftBehind, Undisturbed, DnsInv, ClearsAll
<1>7. QED
  BY <1>2, <1>3, <1>5, <1>6 DEF DnsInv

LEMMA ApplySound ==
  ASSUME DnsInv, ApplyUnchanged \/ ApplyDone \/ ApplyFails
  PROVE  DnsInv'
<1> USE DEF binderVars, bounds
<1>1. CASE ApplyUnchanged
  <2>1. Undisturbed' => /\ synced' = TRUE => \A r \in list : r.ns \in last'
                        /\ outcome = "busy" => list = {}
    BY <1>1 DEF ApplyUnchanged, Undisturbed, DnsInv, DnsTypeOK, TableFits, MemoryFits, ClearsAll
  <2>2. QED
    BY <1>1, <2>1, ReturnSound DEF ApplyUnchanged, DnsInv, DnsTypeOK
<1>2. CASE ApplyDone
  <2>1. Undisturbed' => \A r \in list : r.ns \in want
    BY <1>2 DEF ApplyDone, Undisturbed, DnsInv, TableFits, ScriptFits
  <2>2. Undisturbed' => /\ synced' = TRUE => \A r \in list : r.ns \in last'
                        /\ outcome = "busy" => list = {}
    BY <1>2, <2>1 DEF ApplyDone, DnsInv, ClearsAll
  <2>3. QED
    BY <1>2, <2>2, ReturnSound DEF ApplyDone, DnsInv, DnsTypeOK
<1>3. CASE ApplyFails
  <2>1. failures' \in Nat /\ ~Undisturbed'
    BY <1>3 DEF ApplyFails, Undisturbed, DnsInv, DnsTypeOK
  <2>2. QED
    BY <1>3, <2>1, ReturnSound DEF ApplyFails, DnsInv, DnsTypeOK
<1>4. QED
  BY <1>1, <1>2, <1>3

LEMMA ListSound ==
  ASSUME DnsInv, ApplyList
  PROVE  DnsInv'
<1> USE DEF binderVars, bounds
<1>1. PICK kept \in SUBSET list : plan(list, want, kept, adds', removes')
  BY DEF ApplyList
<1>2. /\ removes' = list \ kept /\ adds' \subseteq want /\ \A k \in kept : k.ns \in want
  BY <1>1 DEF plan, Keepers
<1>3. /\ pc = "apply" /\ pc' = "mutate"
      /\ UNCHANGED <<rules, served, proc, synced, last, want, outcome, failures, meddles>>
  BY DEF ApplyList
<1>4. list' = list /\ \A r \in list : r \in rules /\ r.tag = "ours"
  BY <1>3 DEF list
<1>5. DnsTypeOK'
  BY <1>2, <1>3 DEF DnsInv, DnsTypeOK
<1>6. OursOnly' /\ ClearsAll'
  BY <1>2, <1>3, <1>4 DEF DnsInv, OursOnly, ClearsAll
<1>7. TableFits'
  BY <1>2, <1>3, <1>4 DEF TableFits, MemoryFits, ScriptFits
<1>8. NothingLeftBehind'
  BY <1>3 DEF NothingLeftBehind, DnsInv, ClearsAll
<1>9. QED
  BY <1>5, <1>6, <1>7, <1>8 DEF DnsInv

LEMMA RemoveSound ==
  ASSUME DnsInv, NEW r \in removes, RemoveRule(r)
  PROVE  DnsInv'
<1> USE DEF binderVars, bounds
<1>1. CASE r \in rules /\ rules' = rules \ {r} /\ removes' = removes \ {r}
           /\ UNCHANGED <<proc, pc, want, adds, outcome>>
  <2>1. pc = "mutate" /\ UNCHANGED <<served, synced, last, failures, meddles>>
    BY DEF RemoveRule
  <2>2. DnsTypeOK' /\ OursOnly' /\ ClearsAll'
    BY <1>1, <2>1 DEF DnsInv, DnsTypeOK, OursOnly, ClearsAll
  <2>3. TableFits'
    BY <1>1, <2>1 DEF DnsInv, TableFits, MemoryFits, ScriptFits, Undisturbed, list
  <2>4. NothingLeftBehind'
    BY <1>1, <2>1 DEF NothingLeftBehind, DnsInv, ClearsAll
  <2>5. QED
    BY <2>2, <2>3, <2>4 DEF DnsInv
<1>2. CASE r \notin rules /\ Return("error") /\ UNCHANGED rules
  \* The rule was there when the script was made, so somebody else has removed it.
  <2>1. pc = "mutate" /\ UNCHANGED <<served, synced, last, failures, meddles>>
    BY DEF RemoveRule
  <2>2. ~Undisturbed'
    BY <1>2, <2>1 DEF Undisturbed, DnsInv, TableFits, ScriptFits
  <2>3. QED
    BY <1>2, <2>1, <2>2, ReturnSound DEF DnsInv, DnsTypeOK
<1>3. QED
  BY <1>1, <1>2 DEF RemoveRule

LEMMA NewRuleFits ==
  ASSUME NEW n \in Suffix
  PROVE  NewRule(n) \in Rule /\ NewRule(n).ns = n /\ NewRule(n).tag = "ours"
<1> DEFINE k == IF \E r \in list : r.ns = n /\ r.copy = 1 THEN 2 ELSE 1
<1>1. k \in 1 .. 2
  OBVIOUS
<1> HIDE DEF k
<1>2. [ns |-> n, to |-> "us", tag |-> "ours", copy |-> k] \in Rule
  BY <1>1 DEF Rule
<1>3. NewRule(n) = [ns |-> n, to |-> "us", tag |-> "ours", copy |-> k]
  BY DEF NewRule, k
<1>4. QED
  BY <1>2, <1>3

LEMMA AddSound ==
  ASSUME DnsInv, NEW n \in adds, AddRule(n)
  PROVE  DnsInv'
<1> USE DEF binderVars, bounds
<1> DEFINE q == NewRule(n)
<1>1. n \in Suffix
  BY DEF DnsInv, DnsTypeOK
<1>2. q \in Rule /\ q.ns = n /\ q.tag = "ours"
  BY <1>1, NewRuleFits
<1>3. /\ pc = "mutate" /\ rules' = rules \cup {q} /\ adds' = adds \ {n}
      /\ UNCHANGED <<served, proc, pc, synced, last, want, removes, outcome, failures, meddles>>
  BY DEF AddRule
<1> HIDE DEF q
<1>4. DnsTypeOK' /\ OursOnly' /\ ClearsAll'
  BY <1>2, <1>3 DEF DnsInv, DnsTypeOK, OursOnly, ClearsAll
<1>5. TableFits'
  <2>1. SUFFICES ASSUME Undisturbed' PROVE ScriptFits'
    BY <1>3 DEF TableFits, MemoryFits
  <2>2. ScriptFits
    BY <1>3, <2>1 DEF Undisturbed, DnsInv, TableFits
  <2>3. n \in want
    BY <1>3, <2>2 DEF ScriptFits
  <2>4. QED
    BY <1>2, <1>3, <2>2, <2>3 DEF ScriptFits, list
<1>6. NothingLeftBehind'
  BY <1>3 DEF NothingLeftBehind, DnsInv, ClearsAll
<1>7. QED
  BY <1>4, <1>5, <1>6 DEF DnsInv

\* What others make of one of our rules is still one of ours.
LEMMA MeddleRules ==
  ASSUME DnsInv, Meddle
  PROVE  /\ rules' \subseteq Rule
         /\ {r \in rules' : r.tag = "foreign"} = {r \in rules : r.tag = "foreign"}
<1>1. PICK r \in list :
        \/ rules' = rules \ {r}
        \/ rules' = (rules \ {r}) \cup {[r EXCEPT !.to = "other"]}
        \/ rules' = rules \cup {[r EXCEPT !.copy = 2]}
  BY DEF Meddle
<1>2. r \in Rule /\ r.tag = "ours" /\ rules \subseteq Rule
  BY DEF list, DnsInv, DnsTypeOK
<1>3. [r EXCEPT !.to = "other"] \in Rule /\ [r EXCEPT !.to = "other"].tag = "ours"
  BY <1>2 DEF Rule
<1>4. [r EXCEPT !.copy = 2] \in Rule /\ [r EXCEPT !.copy = 2].tag = "ours"
  BY <1>2 DEF Rule
<1>5. "ours" # "foreign"
  OBVIOUS
<1>6. QED
  BY <1>1, <1>2, <1>3, <1>4, <1>5

LEMMA MeddleSound ==
  ASSUME DnsInv, Meddle
  PROVE  DnsInv'
<1> USE DEF binderVars, planVars
<1>1. /\ meddles' = meddles + 1 /\ proc = "up"
      /\ UNCHANGED <<served, proc, pc, synced, last, want, adds, removes, outcome, failures>>
  BY DEF Meddle
<1>2. DnsTypeOK'
  BY <1>1, MeddleRules DEF DnsInv, DnsTypeOK
<1>3. ~Undisturbed'
  BY <1>1 DEF Undisturbed, DnsInv, DnsTypeOK
<1>4. OursOnly' /\ ClearsAll'
  BY <1>1 DEF DnsInv, OursOnly, ClearsAll
<1>5. TableFits' /\ NothingLeftBehind'
  BY <1>3 DEF TableFits, NothingLeftBehind, Undisturbed
<1>6. QED
  BY <1>2, <1>4, <1>5 DEF DnsInv

\* The follower's turns, the life of the process and the zones: no rule changes.
LifeSteps ==
  \/ Start \/ Stop \/ Clear \/ Crash \/ Purge
  \/ \E s \in Suffix : ZoneChange(s)
  \/ FollowRead \/ Tick \/ Resync

LEMMA LifeSound ==
  ASSUME DnsInv, LifeSteps
  PROVE  DnsInv'
<1> USE DEF binderVars, planVars, bounds
<1>1. UNCHANGED <<rules, failures, meddles>> /\ list' = list /\ (Undisturbed' <=> Undisturbed)
  BY DEF LifeSteps, Start, Stop, Clear, Crash, Purge, ZoneChange, FollowRead, Tick, Resync,
         list, Undisturbed
<1>2. DnsTypeOK'
  <2>1. want' \subseteq Suffix /\ served' \subseteq Suffix /\ adds' \subseteq Suffix
    BY SplitDnsConstants
    DEF DnsInv, DnsTypeOK, LifeSteps, Start, Stop, Clear, Crash, Purge, ZoneChange, FollowRead,
        Tick, Resync, namespaces
  <2>2. /\ proc' \in {"down", "up", "stopping", "purging"}
        /\ pc' \in {"off", "read", "apply", "mutate", "wait"}
        /\ outcome' \in {"none", "busy", "ok", "error"} /\ synced' \in BOOLEAN
    BY DEF DnsInv, DnsTypeOK, LifeSteps, Start, Stop, Clear, Crash, Purge, ZoneChange,
           FollowRead, Tick, Resync
  <2>3. QED
    BY <1>1, <2>1, <2>2 DEF DnsInv, DnsTypeOK
<1>3. OursOnly'
  BY DEF DnsInv, OursOnly, LifeSteps, Start, Stop, Clear, Crash, Purge, ZoneChange,
         FollowRead, Tick, Resync
<1>4. ClearsAll'
  BY DEF DnsInv, DnsTypeOK, ClearsAll, LifeSteps, Start, Stop, Clear, Crash, Purge, ZoneChange,
         FollowRead, Tick, Resync
<1>5. TableFits'
  <2>1. SUFFICES ASSUME Undisturbed PROVE MemoryFits' /\ ScriptFits'
    BY <1>1 DEF TableFits
  <2>2. MemoryFits /\ ScriptFits
    BY <2>1 DEF DnsInv, TableFits
  <2>3. \/ synced' = FALSE \/ proc' = "down"
        \/ synced' = synced /\ last' = last /\ proc # "down" /\ (pc = "mutate" => pc' = "mutate")
    BY DEF DnsInv, DnsTypeOK, ClearsAll, LifeSteps, Start, Stop, Clear, Crash, Purge, ZoneChange,
           FollowRead, Tick, Resync
  <2>4. MemoryFits'
    BY <1>1, <2>2, <2>3 DEF MemoryFits
  <2>5. pc' = "mutate" => pc = "mutate" /\ UNCHANGED <<adds, removes, want>>
    BY DEF LifeSteps, Start, Stop, Clear, Crash, Purge, ZoneChange, FollowRead, Tick, Resync
  <2>6. ScriptFits'
    BY <1>1, <2>2, <2>5 DEF ScriptFits
  <2>7. QED
    BY <2>4, <2>6
<1>6. NothingLeftBehind'
  <2>1. proc' = "down" /\ outcome' = "ok" => FALSE
    BY DEF DnsInv, ClearsAll, LifeSteps, Start, Stop, Clear, Crash, Purge, ZoneChange,
           FollowRead, Tick, Resync
  <2>2. QED
    BY <2>1 DEF NothingLeftBehind
<1>7. QED
  BY <1>2, <1>3, <1>4, <1>5, <1>6 DEF DnsInv

LEMMA DnsStutter == DnsInv /\ UNCHANGED vars => DnsInv'
<1> SUFFICES ASSUME DnsInv, UNCHANGED vars PROVE DnsInv'
  OBVIOUS
<1> USE DEF vars, binderVars, planVars, bounds
<1>1. list' = list
  BY DEF list
<1>2. DnsTypeOK' /\ OursOnly' /\ ClearsAll'
  BY DEF DnsInv, DnsTypeOK, OursOnly, ClearsAll
<1>3. TableFits' /\ NothingLeftBehind'
  BY <1>1 DEF DnsInv, TableFits, Undisturbed, MemoryFits, ScriptFits, NothingLeftBehind
<1>4. QED
  BY <1>2, <1>3 DEF DnsInv

(***************************************************************************)
(* The invariant holds through crashes, failing scripts and interference.  *)
(***************************************************************************)
THEOREM DnsSound == Spec => []DnsInv
<1>1. DnsInv /\ [Next]_vars => DnsInv'
  <2> SUFFICES ASSUME DnsInv, Next PROVE DnsInv'
    BY DnsStutter
  <2>1. CASE ApplySteps \/ ApplyFails
    BY <2>1, ApplySound, ListSound, RemoveSound, AddSound DEF ApplySteps
  <2>2. CASE Meddle
    BY <2>2, MeddleSound
  <2>3. CASE LifeSteps
    BY <2>3, LifeSound
  <2>4. QED
    BY <2>1, <2>2, <2>3 DEF Next, LifeSteps
<1>2. QED
  BY <1>1, DnsInit, PTL DEF Spec

(***************************************************************************)
(* A Clear or a Purge that succeeds leaves none of our rules, unless a     *)
(* script failed half-way or others meddled.                               *)
(***************************************************************************)
THEOREM ClearCorrect == Spec => []NothingLeftBehind
<1>1. DnsInv => NothingLeftBehind
  BY DEF DnsInv
<1>2. QED
  BY <1>1, DnsSound, PTL

(***************************************************************************)
(* No step of the binder touches a rule of somebody else, whatever is in   *)
(* the table.                                                              *)
(***************************************************************************)
THEOREM ForeignCorrect == Spec => ForeignKept
<1>1. DnsInv /\ [Next]_vars =>
        [{r \in rules' : r.tag = "foreign"} = {r \in rules : r.tag = "foreign"}]_vars
  <2> DEFINE Foreign == {r \in rules : r.tag = "foreign"}
  <2> SUFFICES ASSUME DnsInv, Next PROVE Foreign' = Foreign
    BY DEF vars
  <2>1. CASE UNCHANGED rules
    BY <2>1
  <2>2. CASE Meddle
    BY <2>2, MeddleRules
  <2>3. ASSUME NEW r \in removes, RemoveRule(r) PROVE Foreign' = Foreign
    BY <2>3 DEF RemoveRule, DnsInv, OursOnly
  <2>4. ASSUME NEW n \in adds, AddRule(n) PROVE Foreign' = Foreign
    <3>1. NewRule(n).tag = "ours"
      BY NewRuleFits DEF DnsInv, DnsTypeOK
    <3>2. rules' = rules \cup {NewRule(n)}
      BY <2>4 DEF AddRule
    <3>3. QED
      BY <3>1, <3>2
  <2>5. QED
    BY <2>1, <2>2, <2>3, <2>4
    DEF Next, ApplySteps, ApplyUnchanged, ApplyList, ApplyDone, ApplyFails, Start, Stop, Clear,
        Crash, Purge, ZoneChange, FollowRead, Tick, Resync
<1>2. QED
  BY <1>1, DnsSound, PTL DEF Spec, ForeignKept

-------------------------------------------------------------------------------
(***************************************************************************)
(* The names of the joined networks.                                       *)
(***************************************************************************)
\* Every set of numbers that is not empty has a least one.
Less == {p \in Nat \X Nat : p[1] < p[2]}

LEMMA LeastNat ==
  ASSUME NEW T \in SUBSET Nat, T # {}
  PROVE  \E x \in T : \A y \in T : x <= y
<1>1. IsWellFoundedOn(Less, Nat)
  BY NatLessThanWellFounded DEF OpToRel, Less
<1>2. \E x \in T : \A y \in T : ~(<<y, x>> \in Less)
  BY <1>1, WFMin
<1>3. PICK x \in T : \A y \in T : ~(<<y, x>> \in Less)
  BY <1>2
<1>4. ASSUME NEW y \in T PROVE x <= y
  <2>1. <<y, x>> \in Nat \X Nat /\ <<y, x>>[1] = y /\ <<y, x>>[2] = x
    OBVIOUS
  <2>2. ~(y < x)
    BY <1>3, <2>1 DEF Less
  <2>3. x \in Nat /\ y \in Nat
    OBVIOUS
  <2>4. QED
    BY <2>2, <2>3
<1>5. QED
  BY <1>4

\* A set of positions of a list has a largest one.
LEMMA MaxIs ==
  ASSUME NEW n \in Nat, NEW S \in SUBSET (1 .. n), S # {}
  PROVE  Max(S) \in S /\ \A i \in S : i <= Max(S)
<1> DEFINE T == {n - i : i \in S}
<1>1. T \in SUBSET Nat /\ T # {}
  OBVIOUS
<1>2. PICK x \in T : \A y \in T : x <= y
  BY <1>1, LeastNat
<1>3. PICK m \in S : x = n - m
  OBVIOUS
<1>4. \E y \in S : \A i \in S : y >= i
  <2>1. ASSUME NEW i \in S PROVE m >= i
    <3>1. n - i \in T /\ i \in Nat /\ m \in Nat
      BY <1>3
    <3>2. n - m <= n - i
      BY <1>2, <1>3, <3>1
    <3>3. QED
      BY <3>1, <3>2
  <2>2. QED
    BY <1>3, <2>1
<1> HIDE DEF T
<1>5. Max(S) \in S /\ \A i \in S : Max(S) >= i
  BY <1>4, Zenon DEF Max
<1>6. QED
  BY <1>5

\* A label in front of a name: taking it apart, and normalizing it.
LEMMA ConsIs ==
  ASSUME NEW l \in Label, NEW s \in Seq(Label)
  PROVE  LET n == <<l>> \o s
         IN /\ n \in Seq(Label) /\ Len(n) = Len(s) + 1 /\ n[1] = l /\ Head(n) = l
            /\ \A i \in 1 .. Len(s) : n[i + 1] = s[i]
  OBVIOUS

\* Label and suffix of a name are determined.
LEMMA ConsSame ==
  ASSUME NEW l \in Label, NEW s \in Seq(Label), NEW k \in Label, NEW t \in Seq(Label),
         <<l>> \o s = <<k>> \o t
  PROVE  l = k /\ s = t
<1>1. l = k /\ Len(s) = Len(t)
  BY ConsIs
<1>2. ASSUME NEW i \in 1 .. Len(s) PROVE s[i] = t[i]
  BY <1>1, ConsIs
<1>3. QED
  BY <1>1, <1>2

\* Normalizing changes labels only.
LEMMA NormalizeIs ==
  ASSUME NEW s \in Seq(Label)
  PROVE  /\ normalizeName(s) \in Seq(Label) /\ Len(normalizeName(s)) = Len(s)
         /\ \A i \in 1 .. Len(s) : normalizeName(s)[i] = lower[s[i]]
         /\ normalizeName(s) = <<>> <=> s = <<>>
  BY ResolverConstants DEF normalizeName

\* The label is normalized, and the rest.
LEMMA NormalizeCons ==
  ASSUME NEW l \in Label, NEW s \in Seq(Label)
  PROVE  normalizeName(<<l>> \o s) = <<lower[l]>> \o normalizeName(s)
<1> DEFINE n == <<l>> \o s
           a == normalizeName(n)
           b == <<lower[l]>> \o normalizeName(s)
<1>0. lower[l] \in Label /\ normalizeName(s) \in Seq(Label) /\ Len(normalizeName(s)) = Len(s)
  BY NormalizeIs, ResolverConstants
<1>1. n \in Seq(Label) /\ Len(n) = Len(s) + 1 /\ n[1] = l /\ \A i \in 1 .. Len(s) : n[i + 1] = s[i]
  BY ConsIs
<1>2. b \in Seq(Label) /\ Len(b) = Len(s) + 1 /\ b[1] = lower[l]
      /\ \A i \in 1 .. Len(s) : b[i + 1] = normalizeName(s)[i]
  BY <1>0, ConsIs
<1> HIDE DEF n, b
<1>3. a \in Seq(Label) /\ Len(a) = Len(n) /\ \A i \in 1 .. Len(n) : a[i] = lower[n[i]]
  BY <1>1, NormalizeIs
<1> HIDE DEF a
<1>4. ASSUME NEW i \in 1 .. Len(b) PROVE a[i] = b[i]
  <2>1. CASE i = 1
    BY <1>1, <1>2, <1>3, <2>1
  <2>2. CASE i # 1
    <3>1. i - 1 \in 1 .. Len(s) /\ (i - 1) + 1 = i
      BY <1>2, <2>2
    <3>2. b[i] = normalizeName(s)[i - 1] /\ n[i] = s[i - 1]
      BY <1>1, <1>2, <3>1
    <3>3. normalizeName(s)[i - 1] = lower[s[i - 1]]
      BY <3>1, NormalizeIs
    <3>4. QED
      BY <1>1, <1>2, <1>3, <3>2, <3>3
  <2>3. QED
    BY <2>1, <2>2
<1>5. a = b
  BY <1>1, <1>2, <1>3, <1>4
<1>6. QED
  BY <1>5 DEF a, b, n

\* The zone of a network is asked for the names under its suffix.
LEMMA SuffixOfCons ==
  ASSUME NEW l \in Label, NEW s \in Seq(Label)
  PROVE  IsSuffix(s, <<l>> \o s)
<1> DEFINE n == <<l>> \o s
           a == Reverse(s)
           b == Reverse(n)
<1>1. n \in Seq(Label) /\ Len(n) = Len(s) + 1 /\ \A i \in 1 .. Len(s) : n[i + 1] = s[i]
  BY ConsIs
<1> HIDE DEF n
<1>2. a \in Seq(Label) /\ Len(a) = Len(s) /\ \A i \in 1 .. Len(s) : a[i] = s[(Len(s) - i) + 1]
  BY DEF Reverse
<1>3. b \in Seq(Label) /\ Len(b) = Len(s) + 1 /\ \A i \in 1 .. Len(s) + 1 : b[i] = n[(Len(n) - i) + 1]
  BY <1>1 DEF Reverse
<1> HIDE DEF a, b
<1>4. ASSUME NEW i \in 1 .. Len(s) PROVE a[i] = b[i]
  <2>1. (Len(s) - i) + 1 \in 1 .. Len(s) /\ ((Len(s) - i) + 1) + 1 = (Len(n) - i) + 1
    BY <1>1
  <2>2. n[(Len(n) - i) + 1] = s[(Len(s) - i) + 1]
    BY <1>1, <2>1
  <2>3. QED
    BY <1>2, <1>3, <2>2
<1>5. SubSeq(a, 1, Len(a)) = SubSeq(b, 1, Len(a))
  <2>1. Len(a) \in Nat /\ Len(a) <= Len(b)
    BY <1>2, <1>3
  <2>2. SubSeq(a, 1, Len(a)) = [i \in 1 .. Len(a) |-> a[i]]
    BY <1>2
  <2>3. SubSeq(b, 1, Len(a)) = [i \in 1 .. Len(a) |-> b[i]]
    BY <1>3, <2>1
  <2>4. QED
    BY <1>2, <1>4, <2>2, <2>3
<1>6. IsPrefix(a, b)
  BY <1>2, <1>3, <1>5 DEF IsPrefix
<1>7. QED
  BY <1>6 DEF IsSuffix, a, b, n

-------------------------------------------------------------------------------
\* The list of writes: members, then services.
LEMMA WritesAre ==
  ASSUME NEW peers \in Seq(DnsPeer), NEW svcs \in Seq(DnsService)
  PROVE  LET w == Writes(peers, svcs)
         IN /\ DOMAIN w = 1 .. (Len(peers) + Len(svcs))
            /\ \A i \in 1 .. Len(peers) : w[i] = OfMember(peers[i])
            /\ \A i \in 1 .. Len(svcs) : w[Len(peers) + i] = OfService(svcs[i])
<1> DEFINE a == [i \in DOMAIN peers |-> OfMember(peers[i])]
           b == [i \in DOMAIN svcs |-> OfService(svcs[i])]
           V == {OfMember(p) : p \in DnsPeer} \cup {OfService(s) : s \in DnsService}
<1>1. a \in Seq(V) /\ Len(a) = Len(peers) /\ \A i \in 1 .. Len(peers) : a[i] = OfMember(peers[i])
  OBVIOUS
<1>2. b \in Seq(V) /\ Len(b) = Len(svcs) /\ \A i \in 1 .. Len(svcs) : b[i] = OfService(svcs[i])
  OBVIOUS
<1>3. Writes(peers, svcs) = a \o b
  BY DEF Writes
<1> HIDE DEF a, b, V
<1>4. DOMAIN (a \o b) = 1 .. (Len(a) + Len(b))
  BY <1>1, <1>2
<1>5. \A i \in 1 .. Len(a) : (a \o b)[i] = a[i]
  BY <1>1, <1>2
<1>6. \A i \in 1 .. Len(b) : (a \o b)[Len(a) + i] = b[i]
  BY <1>1, <1>2
<1>7. QED
  BY <1>1, <1>2, <1>3, <1>4, <1>5, <1>6

\* The zone of a network whose server gave these lists.
ZoneOf(s, t) == normalizeKeys(updateDNS(s, t.peers, t.svcs))

\* What a server says; the writes it leads to, the labels they are for, the last for a label.
Lists == [peers : Seq(DnsPeer), svcs : Seq(DnsService)]
WritesOf(t) == Writes(t.peers, t.svcs)
Written(t) == {l \in Label : WritesFor(WritesOf(t), l) # {}}
LastFor(t, l) == WritesOf(t)[Max(WritesFor(WritesOf(t), l))].ip

\* The same for what a server said.
LEMMA WritesOfAre ==
  ASSUME NEW t \in Lists
  PROVE  /\ t.peers \in Seq(DnsPeer) /\ t.svcs \in Seq(DnsService)
         /\ Len(t.peers) \in Nat /\ Len(t.svcs) \in Nat
         /\ DOMAIN WritesOf(t) = 1 .. (Len(t.peers) + Len(t.svcs))
         /\ DOMAIN t.peers = 1 .. Len(t.peers) /\ DOMAIN t.svcs = 1 .. Len(t.svcs)
         /\ \A i \in 1 .. Len(t.peers) : t.peers[i] \in DnsPeer
         /\ \A i \in 1 .. Len(t.svcs) : t.svcs[i] \in DnsService
         /\ \A i \in 1 .. Len(t.peers) : WritesOf(t)[i] = OfMember(t.peers[i])
         /\ \A i \in 1 .. Len(t.svcs) : WritesOf(t)[Len(t.peers) + i] = OfService(t.svcs[i])
<1> DEFINE p == t.peers
           v == t.svcs
<1>1. p \in Seq(DnsPeer) /\ v \in Seq(DnsService)
  BY DEF Lists
<1>2. WritesOf(t) = Writes(p, v)
  BY DEF WritesOf
<1> HIDE DEF p, v
<1>3. /\ Len(p) \in Nat /\ Len(v) \in Nat
      /\ DOMAIN p = 1 .. Len(p) /\ DOMAIN v = 1 .. Len(v)
      /\ \A i \in 1 .. Len(p) : p[i] \in DnsPeer
      /\ \A i \in 1 .. Len(v) : v[i] \in DnsService
  BY <1>1
<1>4. /\ DOMAIN Writes(p, v) = 1 .. (Len(p) + Len(v))
      /\ \A i \in 1 .. Len(p) : Writes(p, v)[i] = OfMember(p[i])
      /\ \A i \in 1 .. Len(v) : Writes(p, v)[Len(p) + i] = OfService(v[i])
  BY <1>1, WritesAre
<1>5. QED
  BY <1>1, <1>2, <1>3, <1>4 DEF p, v

\* A position behind the first a of a + b.
LEMMA Behind ==
  ASSUME NEW a \in Nat, NEW b \in Nat, NEW i \in 1 .. (a + b)
  PROVE  i \in 1 .. a \/ \E j \in 1 .. b : i = a + j
<1>1. CASE i <= a
  BY <1>1
<1>2. CASE ~(i <= a)
  <2>1. i - a \in 1 .. b /\ i = a + (i - a)
    BY <1>2
  <2>2. QED
    BY <2>1
<1>3. QED
  BY <1>1, <1>2

\* A label that is written is in lower case, and the last of its writes is one of them.
LEMMA WrittenIs ==
  ASSUME NEW t \in Lists, NEW l \in Written(t)
  PROVE  /\ lower[l] = l
         /\ LET w == WritesOf(t)
                m == Max(WritesFor(w, l))
            IN  /\ m \in DOMAIN w /\ w[m].ip # NoIP /\ lower[w[m].label] = l
                /\ \A i \in DOMAIN w : w[i].ip # NoIP /\ lower[w[i].label] = l => i <= m
<1> DEFINE w == WritesOf(t)
           S == WritesFor(w, l)
           a == Len(t.peers)
           b == Len(t.svcs)
<1>1. /\ a \in Nat /\ b \in Nat /\ DOMAIN w = 1 .. (a + b)
      /\ \A i \in 1 .. a : t.peers[i] \in DnsPeer
      /\ \A i \in 1 .. b : t.svcs[i] \in DnsService
      /\ \A i \in 1 .. a : w[i] = OfMember(t.peers[i])
      /\ \A i \in 1 .. b : w[a + i] = OfService(t.svcs[i])
  BY WritesOfAre, Zenon
<1> HIDE DEF w, a, b
<1>2. l \in Label
  BY DEF Written
<1>3. S \in SUBSET (1 .. (a + b)) /\ S # {}
  BY <1>1 DEF WritesFor, Written, w
<1>4. Max(S) \in S /\ \A i \in S : i <= Max(S)
  <2>1. a + b \in Nat
    BY <1>1
  <2>2. QED
    BY <1>3, <2>1, MaxIs
<1>5. ASSUME NEW i \in S PROVE w[i].label \in Label
  <2>1. i \in 1 .. (a + b) /\ w[i].ip # NoIP
    BY <1>1, <1>3 DEF WritesFor
  <2>2. CASE i \in 1 .. a
    <3>1. w[i] = OfMember(t.peers[i]) /\ t.peers[i].hostname \in Label \cup {NoName}
      BY <1>1, <2>2, ResolverConstants
    <3>2. QED
      BY <2>1, <3>1 DEF OfMember
  <2>3. CASE \E j \in 1 .. b : i = a + j
    <3>1. PICK j \in 1 .. b : i = a + j
      BY <2>3
    <3>2. w[i] = OfService(t.svcs[j]) /\ t.svcs[j].name \in Label
      BY <1>1, <3>1, ResolverConstants
    <3>3. QED
      BY <3>2 DEF OfService
  <2>4. QED
    BY <1>1, <2>1, <2>2, <2>3, Behind
<1>6. lower[l] = l
  <2>1. PICK i \in S : TRUE
    BY <1>3
  <2>2. w[i].label \in Label /\ lower[w[i].label] = l
    BY <1>5, <2>1 DEF WritesFor
  <2>3. QED
    BY <2>2, ResolverConstants
<1>7. QED
  BY <1>4, <1>6 DEF WritesFor, w

\* A zone has a record for each label that is written, with the address written last.
LEMMA ZoneIs ==
  ASSUME NEW s \in Seq(Label), NEW t \in Lists
  PROVE  LET z == normalizeName(s)
         IN /\ DOMAIN ZoneOf(s, t) = {<<l>> \o z : l \in Written(t)}
            /\ \A l \in Written(t) : ZoneOf(s, t)[<<l>> \o z] = LastFor(t, l)
<1> DEFINE z == normalizeName(s)
           r == updateDNS(s, t.peers, t.svcs)
<1>1. z \in Seq(Label)
  BY NormalizeIs
<1>2. DOMAIN r = {<<l>> \o s : l \in Written(t)}
  BY DEF updateDNS, Written, WritesOf
<1>3. ASSUME NEW l \in Written(t)
      PROVE  /\ l \in Label /\ <<l>> \o s \in DOMAIN r /\ r[<<l>> \o s] = LastFor(t, l)
             /\ normalizeName(<<l>> \o s) = <<l>> \o z
  <2>1. l \in Label /\ lower[l] = l
    BY WrittenIs DEF Written
  <2>2. Head(<<l>> \o s) = l
    BY <2>1, ConsIs
  <2>3. <<l>> \o s \in DOMAIN r
    BY <1>2
  <2>4. r[<<l>> \o s] = LastFor(t, l)
    BY <2>2, <2>3 DEF updateDNS, LastFor, WritesOf
  <2>5. QED
    BY <2>1, <2>3, <2>4, NormalizeCons
<1> HIDE DEF r
<1>4. {normalizeName(k) : k \in DOMAIN r} = {<<l>> \o z : l \in Written(t)}
  <2> HIDE DEF z
  <2>1. \A k \in DOMAIN r : \E l \in Written(t) : normalizeName(k) = <<l>> \o z
    BY <1>2, <1>3
  <2>2. \A l \in Written(t) : \E k \in DOMAIN r : normalizeName(k) = <<l>> \o z
    BY <1>3
  <2>3. QED
    BY <2>1, <2>2, Zenon
<1>5. ZoneOf(s, t) = [n \in {<<l>> \o z : l \in Written(t)} |->
                        r[CHOOSE k \in DOMAIN r : normalizeName(k) = n]]
  BY <1>4 DEF ZoneOf, normalizeKeys, r
<1>6. ASSUME NEW l \in Written(t) PROVE ZoneOf(s, t)[<<l>> \o z] = LastFor(t, l)
  <2> DEFINE n == <<l>> \o z
             k == CHOOSE x \in DOMAIN r : normalizeName(x) = n
  <2>1. \E x \in DOMAIN r : normalizeName(x) = n
    BY <1>3
  <2>2. k \in DOMAIN r /\ normalizeName(k) = n
    BY <2>1
  <2>3. ZoneOf(s, t)[n] = r[k]
    BY <1>5
  <2> HIDE DEF k
  <2>4. PICK j \in Written(t) : k = <<j>> \o s
    BY <1>2, <2>2
  <2>5. <<j>> \o z = <<l>> \o z
    BY <1>3, <2>2, <2>4
  <2>6. j = l
    BY <1>1, <1>3, <2>5, ConsSame
  <2>7. QED
    BY <1>3, <2>3, <2>4, <2>6
<1>7. QED
  BY <1>5, <1>6

\* The last write of a label is what the server told for it.
LEMMA LastIsTold ==
  ASSUME NEW s \in DOMAIN told, told[s] \in Lists, NEW l \in Label
  PROVE  /\ l \in Written(told[s]) => LastFor(told[s], l) \in ToldFor(s, l)
         /\ l \notin Written(told[s]) => ToldFor(s, l) = {}
<1> DEFINE t == told[s]
           w == WritesOf(t)
           m == Max(WritesFor(w, l))
           a == Len(t.peers)
           b == Len(t.svcs)
<1>1. /\ a \in Nat /\ b \in Nat /\ DOMAIN w = 1 .. (a + b)
      /\ DOMAIN t.peers = 1 .. a /\ DOMAIN t.svcs = 1 .. b
      /\ \A i \in 1 .. a : w[i] = OfMember(t.peers[i])
      /\ \A i \in 1 .. b : w[a + i] = OfService(t.svcs[i])
  <2>1. t \in Lists
    OBVIOUS
  <2> HIDE DEF t
  <2>2. QED
    BY <2>1, WritesOfAre, Zenon
<1> DEFINE ToSvc(i)  == lower[t.svcs[i].name] = l /\ Target(t.svcs[i]) # NoIP
           ToPeer(i) == t.peers[i].hostname # NoName /\ lower[t.peers[i].hostname] = l
                        /\ t.peers[i].ip # NoIP
<1>2. OfferedSvcs(s, l) = {Target(t.svcs[i]) : i \in {j \in 1 .. b : ToSvc(j)}}
  <2>1. Range(t.svcs) = {t.svcs[i] : i \in 1 .. b}
    BY <1>1 DEF Range
  <2>2. \A x : Target(x) = IF x.vip = NoVip THEN x.nodeIP ELSE x.vip
    BY DEF Target
  <2>3. OfferedSvcs(s, l) = {Target(x) : x \in {y \in Range(t.svcs) : lower[y.name] = l}} \ {NoIP}
    BY <2>2 DEF OfferedSvcs
  <2>4. QED
    BY <2>1, <2>3
<1>3. OfferedPeers(s, l) = {t.peers[i].ip : i \in {j \in 1 .. a : ToPeer(j)}}
  <2>1. Range(t.peers) = {t.peers[i] : i \in 1 .. a}
    BY <1>1 DEF Range
  <2>2. QED
    BY <2>1 DEF OfferedPeers
<1> HIDE DEF t, w, a, b
<1>4. ASSUME NEW i \in 1 .. b
      PROVE  /\ a + i \in DOMAIN w /\ w[a + i].ip = Target(t.svcs[i])
             /\ w[a + i].ip # NoIP /\ lower[w[a + i].label] = l <=> ToSvc(i)
  <2>1. a + i \in DOMAIN w
    BY <1>1
  <2>2. w[a + i] = OfService(t.svcs[i])
    BY <1>1
  <2>3. w[a + i].ip = Target(t.svcs[i]) /\ w[a + i].label = t.svcs[i].name
    BY <2>2 DEF OfService
  <2>4. QED
    BY <2>1, <2>3
<1>5. ASSUME NEW i \in 1 .. a
      PROVE  /\ i \in DOMAIN w
             /\ w[i].ip # NoIP /\ lower[w[i].label] = l <=> ToPeer(i)
             /\ ToPeer(i) => w[i].ip = t.peers[i].ip
  <2>1. i \in DOMAIN w
    BY <1>1
  <2>2. w[i] = OfMember(t.peers[i])
    BY <1>1
  <2>3. /\ w[i].label = t.peers[i].hostname
        /\ w[i].ip = IF t.peers[i].hostname = NoName THEN NoIP ELSE t.peers[i].ip
    BY <2>2 DEF OfMember
  <2>4. QED
    BY <2>1, <2>3
<1>6. ASSUME NEW i \in DOMAIN w PROVE i \in 1 .. a \/ \E j \in 1 .. b : i = a + j
  <2>1. i \in 1 .. (a + b)
    BY <1>1
  <2>2. QED
    BY <1>1, <2>1, Behind
<1> HIDE DEF ToSvc, ToPeer
<1>7. ASSUME l \in Written(t) PROVE LastFor(t, l) \in ToldFor(s, l)
  <2>1. /\ m \in DOMAIN w /\ w[m].ip # NoIP /\ lower[w[m].label] = l
        /\ \A i \in DOMAIN w : w[i].ip # NoIP /\ lower[w[i].label] = l => i <= m
    BY <1>7, WrittenIs DEF w, t
  <2>2. LastFor(t, l) = w[m].ip
    BY DEF LastFor, w
  <2> HIDE DEF m
  <2>3. CASE \E j \in 1 .. b : m = a + j
    <3>1. PICK j \in 1 .. b : m = a + j
      BY <2>3
    <3>2. ToSvc(j) /\ w[m].ip = Target(t.svcs[j])
      BY <1>4, <2>1, <3>1
    <3>3. Target(t.svcs[j]) \in OfferedSvcs(s, l)
      BY <1>2, <3>2
    <3>4. QED
      BY <2>2, <3>2, <3>3 DEF ToldFor
  <2>4. CASE m \in 1 .. a
    <3>1. ToPeer(m) /\ w[m].ip = t.peers[m].ip
      BY <1>5, <2>1, <2>4
    <3>2. \A j \in 1 .. b : ~ToSvc(j)
      <4>1. ASSUME NEW j \in 1 .. b, ToSvc(j) PROVE FALSE
        <5>1. a + j <= m
          BY <1>4, <2>1, <4>1
        <5>2. QED
          BY <1>1, <2>4, <5>1
      <4>2. QED
        BY <4>1
    <3>3. OfferedSvcs(s, l) = {}
      BY <1>2, <3>2
    <3>4. w[m].ip \in OfferedPeers(s, l)
      BY <1>3, <2>4, <3>1
    <3>5. QED
      BY <2>2, <3>3, <3>4 DEF ToldFor
  <2>5. QED
    BY <1>6, <2>1, <2>3, <2>4
<1>8. ASSUME l \notin Written(t) PROVE ToldFor(s, l) = {}
  <2>1. \A i \in DOMAIN w : ~(w[i].ip # NoIP /\ lower[w[i].label] = l)
    BY <1>8 DEF Written, WritesFor, w
  <2>2. OfferedSvcs(s, l) = {}
    BY <1>2, <1>4, <2>1
  <2>3. OfferedPeers(s, l) = {}
    BY <1>3, <1>5, <2>1
  <2>4. QED
    BY <2>2, <2>3 DEF ToldFor
<1>9. QED
  BY <1>7, <1>8 DEF t

-------------------------------------------------------------------------------
(***************************************************************************)
(* The inductive invariant: the resolver has a zone for every network that *)
(* is joined, and no other, with the records of what its server said last. *)
(***************************************************************************)
ZonesFit ==
  /\ DOMAIN told \subseteq ZoneSuffix \ {<<>>}
  /\ \A s \in DOMAIN told : told[s] \in Lists
  /\ DOMAIN zones = {normalizeName(s) : s \in DOMAIN told}
  /\ \A s \in DOMAIN told : zones[normalizeName(s)] = ZoneOf(s, told[s])

\* A round replaces the records of its own network only.
LEMMA RefreshKeepsZones == ASSUME ZonesFit, NEW x \in ZoneSuffix, Refresh(x) PROVE ZonesFit'
<1>1. PICK peers \in BoundedSeq(DnsPeer, MaxPeers), svcs \in BoundedSeq(DnsService, MaxSvcs) :
        /\ told' = IF x = <<>> THEN told
                   ELSE [s \in DOMAIN told \cup {x} |->
                           IF s = x THEN [peers |-> peers, svcs |-> svcs] ELSE told[s]]
        /\ SetZone(x, updateDNS(x, peers, svcs))
  BY DEF Refresh
<1>2. CASE x = <<>>
  BY <1>1, <1>2 DEF SetZone, ZonesFit
<1>3. CASE x # <<>>
  <2> DEFINE t == [peers |-> peers, svcs |-> svcs]
             z == normalizeName(x)
  <2>1. t \in Lists /\ t.peers = peers /\ t.svcs = svcs
    <3>1. peers \in Seq(DnsPeer) /\ svcs \in Seq(DnsService)
      BY ResolverConstants DEF BoundedSeq, SeqOf
    <3>2. QED
      BY <3>1 DEF Lists
  <2> HIDE DEF t
  <2>2. told' = [s \in DOMAIN told \cup {x} |-> IF s = x THEN t ELSE told[s]]
    BY <1>1, <1>3 DEF t
  <2>3. zones' = [s \in DOMAIN zones \cup {z} |-> IF s = z THEN ZoneOf(x, t) ELSE zones[s]]
    BY <1>1, <1>3, <2>1 DEF SetZone, ZoneOf
  <2> HIDE DEF z
  <2>4. DOMAIN told' = DOMAIN told \cup {x} /\ DOMAIN zones' = DOMAIN zones \cup {z}
    BY <2>2, <2>3
  <2>5. DOMAIN zones' = {normalizeName(s) : s \in DOMAIN told'}
    BY <2>4 DEF ZonesFit, z
  <2>6. ASSUME NEW s \in DOMAIN told'
        PROVE  told'[s] \in Lists /\ zones'[normalizeName(s)] = ZoneOf(s, told'[s])
    <3>1. normalizeName(s) \in DOMAIN zones'
      BY <2>5
    <3>2. CASE s = x
      BY <2>1, <2>2, <2>3, <2>4, <3>1, <3>2 DEF z
    <3>3. CASE s # x
      <4>1. s \in DOMAIN told /\ told'[s] = told[s] /\ s \in ZoneSuffix
        BY <2>2, <2>4, <3>3 DEF ZonesFit
      <4>2. normalizeName(s) # z
        BY <3>3, <4>1, ResolverConstants DEF z
      <4>3. zones'[normalizeName(s)] = zones[normalizeName(s)]
        BY <2>3, <2>4, <3>1, <4>2
      <4>4. QED
        BY <4>1, <4>3 DEF ZonesFit
    <3>4. QED
      BY <3>2, <3>3
  <2>7. DOMAIN told' \subseteq ZoneSuffix \ {<<>>}
    BY <1>3, <2>4 DEF ZonesFit
  <2>8. QED
    BY <2>5, <2>6, <2>7 DEF ZonesFit
<1>4. QED
  BY <1>2, <1>3

\* A network that is left takes its own zone with it, and no other.
LEMMA ForgetKeepsZones == ASSUME ZonesFit, NEW x \in ZoneSuffix, Forget(x) PROVE ZonesFit'
<1> DEFINE z == normalizeName(x)
<1>1. /\ told' = [s \in DOMAIN told \ {x} |-> told[s]]
      /\ zones' = [s \in DOMAIN zones \ {z} |-> zones[s]]
  BY DEF Forget, RemoveZone
<1>2. DOMAIN told' = DOMAIN told \ {x} /\ DOMAIN zones' = DOMAIN zones \ {z}
  BY <1>1
<1>3. \A s \in DOMAIN told : normalizeName(s) = z <=> s = x
  BY ResolverConstants DEF ZonesFit
<1> HIDE DEF z
<1>4. DOMAIN zones' = {normalizeName(s) : s \in DOMAIN told'}
  BY <1>2, <1>3 DEF ZonesFit
<1>5. ASSUME NEW s \in DOMAIN told'
      PROVE  told'[s] \in Lists /\ zones'[normalizeName(s)] = ZoneOf(s, told'[s])
  <2>1. s \in DOMAIN told /\ told'[s] = told[s]
    BY <1>1, <1>2
  <2>2. zones'[normalizeName(s)] = zones[normalizeName(s)]
    BY <1>1, <1>2, <1>4
  <2>3. QED
    BY <2>1, <2>2 DEF ZonesFit
<1>6. QED
  BY <1>2, <1>4, <1>5 DEF ZonesFit

(***************************************************************************)
(* What the zones answer for a name is what the network it belongs to      *)
(* gave: the name's own zone is one of those that match, and no other zone *)
(* has it.                                                                 *)
(***************************************************************************)
Given(name) ==
  UNION {ToldFor(own[1], own[2]) :
           own \in {x \in Joined \X Label : <<x[2]>> \o normalizeName(x[1]) = name}}

Holders(name) == {s \in Matching(name) : name \in DOMAIN zones[s]}

LEMMA HoldersGive ==
  ASSUME ZonesFit, NEW name \in Seq(Label)
  PROVE  /\ \A z \in Holders(name) : zones[z][name] \in Given(name)
         /\ Holders(name) = {} => Given(name) = {}
<1>1. \A s \in Joined : s \in Seq(Label) /\ told[s] \in Lists /\ normalizeName(s) \in DOMAIN zones
                        /\ zones[normalizeName(s)] = ZoneOf(s, told[s])
  BY ResolverConstants DEF ZonesFit, Joined
<1>2. ASSUME NEW z \in Holders(name) PROVE zones[z][name] \in Given(name)
  <2>1. z \in DOMAIN zones /\ name \in DOMAIN zones[z]
    BY DEF Holders, Matching
  <2>2. PICK s \in Joined : z = normalizeName(s)
    BY <2>1 DEF ZonesFit, Joined
  <2> DEFINE t == told[s]
  <2>3. t \in Lists /\ s \in Seq(Label) /\ zones[z] = ZoneOf(s, t)
    BY <1>1, <2>2
  <2> HIDE DEF t
  <2>4. /\ DOMAIN ZoneOf(s, t) = {<<l>> \o z : l \in Written(t)}
        /\ \A l \in Written(t) : ZoneOf(s, t)[<<l>> \o z] = LastFor(t, l)
    <3>1. /\ DOMAIN ZoneOf(s, t) = {<<l>> \o normalizeName(s) : l \in Written(t)}
          /\ \A l \in Written(t) : ZoneOf(s, t)[<<l>> \o normalizeName(s)] = LastFor(t, l)
      BY <2>3, ZoneIs
    <3>2. QED
      BY <2>2, <3>1
  <2>5. PICK l \in Written(t) : name = <<l>> \o z
    BY <2>1, <2>3, <2>4
  <2>6. l \in Label /\ zones[z][name] = LastFor(t, l)
    BY <2>3, <2>4, <2>5 DEF Written
  <2>7. zones[z][name] \in ToldFor(s, l)
    BY <1>1, <2>5, <2>6, LastIsTold DEF Joined, t
  <2> DEFINE x == <<s, l>>
  <2>8. x \in Joined \X Label /\ x[1] = s /\ x[2] = l
    BY <2>6
  <2> HIDE DEF x
  <2>9. QED
    BY <2>2, <2>5, <2>7, <2>8 DEF Given
<1>3. ASSUME Holders(name) = {} PROVE Given(name) = {}
  <2>1. ASSUME NEW x \in Joined \X Label, <<x[2]>> \o normalizeName(x[1]) = name
        PROVE  ToldFor(x[1], x[2]) = {}
    <3> DEFINE s == x[1]
               l == x[2]
               z == normalizeName(s)
    <3>1. s \in Joined /\ l \in Label /\ name = <<l>> \o z
      BY <2>1
    <3> HIDE DEF s, l
    <3>2. s \in Seq(Label) /\ told[s] \in Lists /\ z \in DOMAIN zones /\ z \in Seq(Label)
          /\ zones[z] = ZoneOf(s, told[s])
      BY <1>1, <3>1, NormalizeIs
    <3>3. IsSuffix(z, name)
      BY <3>1, <3>2, SuffixOfCons
    <3>4. name \notin DOMAIN zones[z]
      BY <1>3, <3>2, <3>3 DEF Holders, Matching
    <3>5. l \notin Written(told[s])
      <4> DEFINE t == told[s]
      <4>1. t \in Lists /\ zones[z] = ZoneOf(s, t)
        BY <3>2
      <4> HIDE DEF t
      <4>2. DOMAIN ZoneOf(s, t) = {<<k>> \o z : k \in Written(t)}
        BY <3>2, <4>1, ZoneIs
      <4> HIDE DEF z
      <4>3. l \notin Written(t)
        BY <3>1, <3>4, <4>1, <4>2
      <4>4. QED
        BY <4>3 DEF t
    <3>6. ToldFor(s, l) = {}
      BY <3>1, <3>2, <3>5, LastIsTold DEF Joined
    <3>7. QED
      BY <3>6 DEF s, l
  <2>2. QED
    BY <2>1 DEF Given
<1>4. QED
  BY <1>2, <1>3

\* A name lies under the suffix of a joined network exactly if a zone matches it.
LEMMA MatchingIsJoined ==
  ASSUME ZonesFit, NEW name
  PROVE  Matching(name) = {} <=> ~\E s \in Joined : IsSuffix(normalizeName(s), name)
  BY DEF ZonesFit, Joined, Matching

\* Every query is answered right if the zones fit.
LEMMA AnswersRight == ASSUME ZonesFit PROVE NamesResolveRight
<1> SUFFICES ASSUME NEW q \in Query, NEW answer \in handle(q, "A")
             PROVE  LET name == normalizeName(q)
                        ips == Given(name)
                    IN  IF ips # {} THEN answer.rcode = "ok" /\ answer.ip \in ips
                        ELSE answer = IF \E s \in Joined : IsSuffix(normalizeName(s), name)
                                      THEN NameError ELSE RefusedAnswer
  BY Zenon DEF NamesResolveRight, Given
<1> DEFINE name == normalizeName(q)
<1>1. name \in Seq(Label)
  BY ResolverConstants, NormalizeIs
<1>2. answer \in lookup(name)
  BY DEF handle
<1> HIDE DEF name
<1>3. CASE Matching(name) = {}
  <2>1. Holders(name) = {}
    BY <1>3 DEF Holders
  <2>2. answer = RefusedAnswer
    BY <1>2, <1>3 DEF lookup
  <2>3. Given(name) = {}
    BY <1>1, <2>1, HoldersGive
  <2>4. QED
    BY <1>3, <2>2, <2>3, MatchingIsJoined DEF name
<1>4. CASE Matching(name) # {} /\ Holders(name) = {}
  <2>1. answer = NameError
    BY <1>2, <1>4 DEF lookup, Holders
  <2>2. Given(name) = {}
    BY <1>1, <1>4, HoldersGive
  <2>3. QED
    BY <1>4, <2>1, <2>2, MatchingIsJoined DEF name
<1>5. CASE Matching(name) # {} /\ Holders(name) # {}
  <2>1. PICK z \in Holders(name) : answer = [rcode |-> "ok", ip |-> zones[z][name]]
    BY <1>2, <1>5 DEF lookup, Holders
  <2>2. answer.rcode = "ok" /\ answer.ip \in Given(name)
    BY <1>1, <2>1, HoldersGive
  <2>3. QED
    BY <2>2 DEF name
<1>6. QED
  BY <1>3, <1>4, <1>5

(***************************************************************************)
(* updateDNS, SetZone and RemoveZone keep the zones in step with the       *)
(* joined networks.                                                        *)
(***************************************************************************)
THEOREM ZonesSound == ResolverSpec => []ZonesFit
<1>1. ResolverInit => ZonesFit
  BY DEF ResolverInit, ZonesFit
<1>2. ZonesFit /\ [ResolverNext]_resolverVars => ZonesFit'
  <2> SUFFICES ASSUME ZonesFit, [ResolverNext]_resolverVars PROVE ZonesFit'
    OBVIOUS
  <2>1. ASSUME NEW x \in ZoneSuffix, Refresh(x) PROVE ZonesFit'
    BY <2>1, RefreshKeepsZones
  <2>2. ASSUME NEW x \in ZoneSuffix, Forget(x) PROVE ZonesFit'
    BY <2>2, ForgetKeepsZones
  <2>3. CASE UNCHANGED resolverVars
    BY <2>3 DEF resolverVars, ZonesFit
  <2>4. QED
    BY <2>1, <2>2, <2>3 DEF ResolverNext
<1>3. QED
  BY <1>1, <1>2, PTL DEF ResolverSpec

(***************************************************************************)
(* For any suffixes, nested or not, lists of any length and any order of   *)
(* the walk: lookup answers a name with what its own network gave for it,  *)
(* and knows the names it lacks from those of other people.                *)
(***************************************************************************)
THEOREM NamesCorrect == ResolverSpec => []NamesResolveRight
<1>1. ZonesFit => NamesResolveRight
  BY AnswersRight
<1>2. QED
  BY <1>1, ZonesSound, PTL
===============================================================================
