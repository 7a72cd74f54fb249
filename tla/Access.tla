--------------------------------- MODULE Access -------------------------------
(***************************************************************************)
(* Who is let through to a hosted service: the control server's lists by   *)
(* group (server/api/api.go), the rounds in which the hosting node's       *)
(* engine turns them into tunnels and an access policy                     *)
(* (client/engine/engine.go), and the policy's word on each connection     *)
(* (client/l4/access.go, l4.go).                                           *)
(*                                                                         *)
(* Members change group by registering again with another join token, the  *)
(* server forgets everything when it restarts and then hands out addresses *)
(* anew, and the node asks for members and for services at different       *)
(* times.  The policy knows members by address, the tunnel by key; a       *)
(* device stands for its key.                                              *)
(***************************************************************************)
EXTENDS Acl, Integers, FiniteSets

CONSTANTS
  Host, HostGroup,   \* the node whose engine this is, and its group
  Client,            \* the other devices
  Name,              \* names of services
  AllowList,         \* allow lists an operator may write
  rules,             \* the server's policy
  None,
  MaxMoves,          \* bound: registrations and publications of others
  MaxRestarts,       \* bound: restarts of the server
  MaxEdits,          \* bound: edits of the services published here
  MaxFailures        \* bound: calls and system operations that fail

VARIABLES
  members,           \* the server's: device -> [ip, group]
  registry,          \* the server's: name -> [node, allow]
  publish,           \* Config.Publish of the host: name -> allow list
  selfIP,            \* the address its engine joined with
  at,                \* where its round is: "idle", "services", "publish", "access"
  peers, svcs, todo, \* locals of apply
  tunnel,            \* the tunnel's peers: device -> [ip : the source address it may use,
                     \* carries : the services at it]
  lastSig,           \* the peers of the last SetPeers that succeeded
  policy,            \* AccessPolicy: [groups : address -> group, allow : name -> list]
  proxies,           \* services a listener of this engine runs for
  left,              \* listeners an earlier engine left open: name -> its last policy
  between,           \* SetPeers has been called since the policy was set
  basis,             \* what the policy in force is made of: what the server held
                     \* when it was asked, [group : device -> , list : name -> ]
  moves, restarts, edits, failures

serverVars == <<members, registry>>
roundVars  == <<at, peers, svcs, todo>>
hostVars   == <<tunnel, lastSig, policy, proxies, left, between, basis>>
bounds     == <<moves, restarts, edits, failures>>
vars == <<serverVars, publish, selfIP, roundVars, hostVars, bounds>>

ASSUME AccessConstants ==
  /\ Host \notin Client /\ HostGroup \in Group
  /\ \A l \in AllowList : l \subseteq Spelling
  /\ rules \subseteq Rule
  /\ MaxMoves \in Nat /\ MaxRestarts \in Nat /\ MaxEdits \in Nat /\ MaxFailures \in Nat

Nothing  == [x \in {} |-> None]
Put(m, k, v) == [x \in DOMAIN m \cup {k} |-> IF x = k THEN v ELSE m[x]]
NoPolicy == [groups |-> Nothing, allow |-> Nothing]

Init ==
  /\ members = Put(Nothing, Host, [ip |-> 1, group |-> HostGroup]) /\ registry = Nothing
  /\ \E n \in Name, l \in AllowList : publish = Put(Nothing, n, l)
  /\ selfIP = 1
  /\ at = "idle" /\ peers = {} /\ svcs = {} /\ todo = {}
  /\ tunnel = Nothing /\ lastSig = Nothing
  /\ policy = NoPolicy /\ proxies = {} /\ left = Nothing /\ between = FALSE
  /\ basis = [group |-> Nothing, list |-> Nothing]
  /\ moves = 0 /\ restarts = 0 /\ edits = 0 /\ failures = 0

-------------------------------------------------------------------------------
(* The control server *)

(***************************************************************************)
(* register: a device keeps its address, a new one gets the next.          *)
(***************************************************************************)
registered(d, g) ==
  Put(members, d,
      [ip    |-> IF d \in DOMAIN members THEN members[d].ip ELSE Cardinality(DOMAIN members) + 1,
       group |-> g])

\* The join client registers again when its token is not known (any more).
Known == IF Host \in DOMAIN members THEN members ELSE registered(Host, HostGroup)

\* Slip: members are listed whether the policy connects them or not.
listEveryone(ms) == {[dev |-> d, ip |-> ms[d].ip, group |-> ms[d].group] : d \in DOMAIN ms}

listPeers(ms) ==
  {[dev |-> d, ip |-> ms[d].ip, group |-> ms[d].group] :
     d \in {m \in DOMAIN ms : m = Host \/ Connected(rules, HostGroup, ms[m].group)}}

visibleService(ms, caller, sv) ==
  \/ sv.node = ms[caller].ip
  \/ /\ \E h \in DOMAIN ms : ms[h].ip = sv.node /\ Connected(rules, ms[caller].group, ms[h].group)
     /\ AllowsGroup(sv.allow, ms[caller].group)

listServices(ms) ==
  {[name |-> n, node |-> registry[n].node, allow |-> registry[n].allow] :
     n \in {m \in DOMAIN registry : visibleService(ms, Host, registry[m])}}

(***************************************************************************)
(* Another device joins, or joins again with the token of another group.   *)
(***************************************************************************)
Register(d, g) ==
  /\ moves < MaxMoves /\ moves' = moves + 1
  /\ members' = registered(d, g)
  /\ UNCHANGED <<registry, publish, selfIP, roundVars, hostVars, restarts, edits, failures>>

(***************************************************************************)
(* Another device publishes a service, maybe under a name that is taken.   *)
(***************************************************************************)
PublishElsewhere(d, n, list) ==
  /\ d \in DOMAIN members
  /\ moves < MaxMoves /\ moves' = moves + 1
  /\ registry' = Put(registry, n, [node |-> members[d].ip, allow |-> cleanGroups(list)])
  /\ UNCHANGED <<members, publish, selfIP, roundVars, hostVars, restarts, edits, failures>>

Restart ==
  /\ restarts < MaxRestarts /\ restarts' = restarts + 1
  /\ members' = Nothing /\ registry' = Nothing
  /\ UNCHANGED <<publish, selfIP, roundVars, hostVars, moves, edits, failures>>

-------------------------------------------------------------------------------
(* A round of the host's engine *)

(***************************************************************************)
(* A call of a member the server has forgotten registers it again, and     *)
(* fails, that once, if it is given another address than before (join.go). *)
(***************************************************************************)
CallSucceeds == Host \in DOMAIN members \/ Known[Host].ip = selfIP

AskPeers ==
  /\ at = "idle"
  /\ members' = Known
  /\ \/ CallSucceeds /\ peers' = listPeers(members') /\ at' = "services"
     \/ ~CallSucceeds /\ UNCHANGED <<peers, at>>
  /\ UNCHANGED <<registry, publish, selfIP, svcs, todo, hostVars, bounds>>

\* An answer that fails is taken for an empty list.
AskServices ==
  /\ at = "services"
  /\ \/ /\ members' = Known /\ UNCHANGED failures
        /\ svcs' = IF CallSucceeds THEN listServices(members') ELSE {}
     \/ failures < MaxFailures /\ failures' = failures + 1 /\ svcs' = {} /\ UNCHANGED members
  /\ todo' = DOMAIN publish \ {s.name : s \in svcs'}
  /\ at' = "publish"
  /\ UNCHANGED <<registry, publish, selfIP, peers, hostVars, moves, restarts, edits>>

(***************************************************************************)
(* republish, for one service the server does not list.  It is refused if  *)
(* this node's address is not the one the engine joined with.              *)
(***************************************************************************)
Republish(n) ==
  /\ at = "publish" /\ n \in todo
  /\ todo' = todo \ {n}
  /\ members' = Known
  /\ LET allow == cleanGroups(publish[n])
     IN IF members'[Host].ip = selfIP
        THEN /\ registry' = Put(registry, n, [node |-> selfIP, allow |-> allow])
             /\ svcs' = svcs \cup {[name |-> n, node |-> selfIP, allow |-> allow]}
        ELSE UNCHANGED <<registry, svcs>>
  /\ UNCHANGED <<publish, selfIP, at, peers, hostVars, bounds>>

(***************************************************************************)
(* The peers of the tunnel: each with the source address it may use and    *)
(* the services hosted there, whose addresses the tunnel carries.          *)
(***************************************************************************)
PeersFor(ps, ss) ==
  [d \in {p.dev : p \in {q \in ps : q.ip # selfIP}} |->
     LET ip == (CHOOSE p \in ps : p.dev = d).ip
     IN [ip |-> ip, carries |-> {s.name : s \in {v \in ss : v.node = ip}}]]

(***************************************************************************)
(* SetPeers is called only for other peers than it last succeeded with,    *)
(* and replaces them all.  When it fails, the round is over and some of    *)
(* the new peers are in place.                                             *)
(***************************************************************************)
SetPeers ==
  /\ at = "publish" /\ todo = {}
  /\ LET wanted == PeersFor(peers, svcs)
     IN /\ tunnel' = IF wanted = lastSig THEN tunnel ELSE wanted
        /\ between' = (between \/ wanted # lastSig)
        /\ lastSig' = wanted
  /\ at' = "access"
  /\ UNCHANGED <<serverVars, publish, selfIP, peers, svcs, todo, policy, proxies, left, basis,
                 bounds>>

SetPeersFails ==
  /\ at = "publish" /\ todo = {} /\ PeersFor(peers, svcs) # lastSig
  /\ failures < MaxFailures /\ failures' = failures + 1
  /\ \E ds \in SUBSET DOMAIN PeersFor(peers, svcs) :
       tunnel' = [d \in ds |-> PeersFor(peers, svcs)[d]]
  /\ between' = TRUE
  /\ at' = "idle" /\ peers' = {} /\ svcs' = {}
  /\ UNCHANGED <<serverVars, publish, selfIP, todo, lastSig, policy, proxies, left, basis, moves,
                 restarts, edits>>

(***************************************************************************)
(* AccessPolicy.Set, then a listener for each service hosted here that has *)
(* none yet.  One may fail, and is tried again in the next round; one for  *)
(* a service whose listener an earlier engine left open fails always, the  *)
(* address being in use.                                                   *)
(***************************************************************************)
PolicyFor(ps, ss) ==
  [groups |-> [a \in {p.ip : p \in ps} |-> (CHOOSE p \in ps : p.ip = a).group],
   allow  |-> [n \in {s.name : s \in ss} |-> (CHOOSE s \in ss : s.name = n).allow]]

BasisFor(ps, ss) ==
  [group |-> [d \in {p.dev : p \in ps} |-> (CHOOSE p \in ps : p.dev = d).group],
   list  |-> [n \in {s.name : s \in ss} |-> (CHOOSE s \in ss : s.name = n).allow]]

\* The services this engine may listen for.
HostedIn(ss) == {s.name : s \in {v \in ss : v.node = selfIP}} \ DOMAIN left

\* Slip: the policy is only replaced when the tunnel was.
SetAccessWithPeers ==
  /\ at = "access"
  /\ IF between THEN policy' = PolicyFor(peers, svcs) /\ basis' = BasisFor(peers, svcs)
     ELSE UNCHANGED <<policy, basis>>
  /\ between' = FALSE
  /\ proxies' = proxies \cup HostedIn(svcs)
  /\ at' = "idle" /\ peers' = {} /\ svcs' = {}
  /\ UNCHANGED <<serverVars, publish, selfIP, todo, tunnel, lastSig, left, bounds>>

SetAccess ==
  /\ at = "access"
  /\ policy' = PolicyFor(peers, svcs)
  /\ basis' = BasisFor(peers, svcs)
  /\ between' = FALSE
  /\ \/ proxies' = proxies \cup HostedIn(svcs) /\ UNCHANGED failures
     \/ /\ \E n \in HostedIn(svcs) \ proxies : proxies' = proxies \cup (HostedIn(svcs) \ {n})
        /\ failures < MaxFailures /\ failures' = failures + 1
  /\ at' = "idle" /\ peers' = {} /\ svcs' = {}
  /\ UNCHANGED <<serverVars, publish, selfIP, todo, tunnel, lastSig, left, moves, restarts, edits>>

(***************************************************************************)
(* The operator edits what this node publishes: the manager saves it and   *)
(* reconnects the network.  Stop waits for the round to end; the new       *)
(* engine joins again and starts with nothing.  Nobody closes the          *)
(* listeners of the old one, which go on asking the old one's policy.      *)
(***************************************************************************)
Edit ==
  /\ at = "idle"
  /\ edits < MaxEdits /\ edits' = edits + 1
  /\ publish' \in {Put(Nothing, n, l) : n \in Name, l \in AllowList} \cup {Nothing}
  /\ publish' # publish
  /\ members' = Known
  /\ selfIP' = members'[Host].ip
  /\ tunnel' = Nothing /\ lastSig' = Nothing
  /\ policy' = NoPolicy /\ proxies' = {} /\ between' = FALSE
  /\ left' = [n \in DOMAIN left \cup proxies |-> IF n \in DOMAIN left THEN left[n] ELSE policy]
  /\ basis' = [group |-> Nothing, list |-> Nothing]
  /\ UNCHANGED <<registry, roundVars, moves, restarts, failures>>

RoundStep ==
  \/ AskPeers \/ AskServices \/ SetPeers \/ SetAccess
  \/ \E n \in Name : Republish(n)

Next ==
  \/ \E d \in Client : \/ \E g \in Group : Register(d, g)
                       \/ \E n \in Name, l \in AllowList : PublishElsewhere(d, n, l)
  \/ Restart \/ Edit
  \/ RoundStep \/ SetPeersFails

Spec == Init /\ [][Next]_vars

\* The engine's ticker goes on.
FairSpec == Spec /\ WF_vars(RoundStep)

-------------------------------------------------------------------------------
(* A connection *)

(***************************************************************************)
(* AccessPolicy.Permits: an empty list lets everyone in who gets here.     *)
(***************************************************************************)
Permits(pol, service, src) ==
  /\ service \in DOMAIN pol.allow
  /\ \/ pol.allow[service] = {}
     \/ src \in DOMAIN pol.groups /\ AllowsGroup(pol.allow[service], pol.groups[src])

(***************************************************************************)
(* A connection of d gets to the backend: the tunnel carries it, from the  *)
(* one address it lets d use, a listener accepts it and permit, which asks *)
(* the policy the listener was made with, does not close it.               *)
(***************************************************************************)
Admits(d, n) ==
  /\ d \in DOMAIN tunnel
  /\ \/ n \in proxies /\ Permits(policy, n, tunnel[d].ip)
     \/ n \in DOMAIN left /\ Permits(left[n], n, tunnel[d].ip)

-------------------------------------------------------------------------------
(* Properties *)

\* The tunnel has the peers SetPeers last succeeded with: no failed call since, or
\* none that made a difference.
TunnelAsSet == tunnel = lastSig

(***************************************************************************)
(* "checking the source here is what makes an access list a boundary       *)
(* rather than a hint" (l4.go:8): whoever is let through was a member in a *)
(* group the policy connects with this node and the list of the service    *)
(* names, by what the server held when it was asked, although the policy   *)
(* goes by addresses, which pass to other members when the server          *)
(* restarts.  There are three exceptions: between SetPeers and             *)
(* AccessPolicy.Set; after a SetPeers that failed, until one succeeds,     *)
(* which the comparison with lastSig may put off for good (engine.go:400); *)
(* and a listener an earlier engine left open (engine.go:332).             *)
(***************************************************************************)
AdmittedWasAllowed ==
  \A d \in Client, n \in Name :
    Admits(d, n) /\ n \notin DOMAIN left /\ ~between /\ TunnelAsSet =>
      /\ d \in DOMAIN basis.group /\ Connected(rules, HostGroup, basis.group[d])
      /\ n \in DOMAIN basis.list /\ AllowsGroup(basis.list[n], basis.group[d])

\* The host is a member under the address its engine joined with.
Rejoined == Host \in DOMAIN members /\ members[Host].ip = selfIP

Hosted(n) == n \in proxies /\ n \in DOMAIN registry /\ registry[n].node = selfIP

(***************************************************************************)
(* "a membership change or an edited access list then applies to the next  *)
(* connection" (access.go:18): in the end the host lets through exactly    *)
(* those to whom the server shows the service, "and therefore [...] be let *)
(* through by the node hosting it" (api.go:169), after changes of group, a *)
(* restart, failed calls and publications by others; given that this       *)
(* engine has the listener, and that no failed SetPeers is left unrepaired *)
(* (engine.go:400).                                                        *)
(***************************************************************************)
PolicyTakesHold ==
  <>[](Rejoined /\ TunnelAsSet) =>
    <>[](\A d \in Client, n \in Name : Hosted(n) =>
           (Admits(d, n) <=> d \in DOMAIN members /\ visibleService(members, d, registry[n])))

(***************************************************************************)
(* "Saving reconnects this network so the changes take effect."            *)
(* (gui/frontend/src/lib/i18n.ts:109): in the end the server lists what    *)
(* the operator saved, with its allow list, and nothing else of this node. *)
(***************************************************************************)
EditsTakeEffect ==
  <>[]Rejoined =>
    <>[](/\ \A n \in DOMAIN publish :
              n \in DOMAIN registry /\ registry[n].allow = cleanGroups(publish[n])
         /\ \A n \in DOMAIN registry : registry[n].node = selfIP => n \in DOMAIN publish)
===============================================================================
