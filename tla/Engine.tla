--------------------------------- MODULE Engine -------------------------------
(***************************************************************************)
(* One network's engine (client/engine/engine.go and translate.go): it     *)
(* joins, then keeps the tunnel, the routes, the DNS zone, the access      *)
(* policy and the proxies of the services hosted here in step with the     *)
(* control server, which it asks for members and for services in separate  *)
(* calls every three seconds.                                              *)
(*                                                                         *)
(* The server appears as its directory: who holds which node address and   *)
(* which service has which address, both handed out in order (Ipam) and    *)
(* both forgotten when it restarts (ControlServer).  A device stands for   *)
(* its node key and its hostname.  An address stands for its local         *)
(* counterpart too, since the translation table is a bijection (VipTable); *)
(* what is kept of translation is which addresses have a counterpart.      *)
(***************************************************************************)
EXTENDS Integers, FiniteSets, Functions

CONSTANTS
  Me, Other,        \* this device; the others
  Mine,             \* names of the services hosted here (Config.Publish)
  Theirs,           \* name of a service -> the other device that hosts it
  None,
  VipBase,          \* addresses up to this one are members', those above it services' (Split)
  Room,             \* addresses the local range has room for
  MaxRestarts,      \* bound: restarts of the control server
  MaxFailures,      \* bound: calls and system operations that fail
  MaxStops,         \* bound: times the engine is stopped
  MaxTrouble        \* bound: restarts, failures and stops together, a stop counting twice

VARIABLES
  members, services,      \* the directory: device -> address, name -> [node, vip]
  before,                 \* what the last restart wiped: [members, services]
  phase,                  \* where run is: "off", "idle", "services", "publish", "finish"
  stopping,               \* stop is closed
  selfIP,                 \* the address the engine joined with
  peers, svcs, toPublish, \* locals of apply
  tunnel,                 \* the device's peers: device -> allowed addresses
  lastSig,
  mapped, routed,         \* addresses with a local counterpart; with a route
  zone,                   \* the DNS zone: device or service -> address
  access,                 \* the access policy: [groups, allow]
  running,                \* hostProxies: service -> the address it listens on
  sockets,                \* open listeners: <<service, address>>
  cuts,                   \* how often SetPeers has failed
  restarts, failures, stops

serverVars == <<members, services, before, restarts>>
applyVars  == <<peers, svcs, toPublish>>
hostVars   == <<zone, access, running, sockets>>
vars == <<serverVars, phase, stopping, selfIP, applyVars, tunnel, lastSig, mapped, routed,
          hostVars, cuts, failures, stops>>

Device == {Me} \cup Other
Name   == Mine \cup DOMAIN Theirs

ASSUME EngineConstants ==
  /\ Me \notin Other /\ Mine \cap DOMAIN Theirs = {}
  /\ \A n \in DOMAIN Theirs : Theirs[n] \in Other
  /\ IsFiniteSet(Device) /\ IsFiniteSet(Name)
  /\ VipBase \in Nat /\ Cardinality(Device) <= VipBase  \* else Allocate refuses a member (Ipam)
  /\ Room \in Nat \ {0}
  /\ MaxRestarts \in Nat /\ MaxFailures \in Nat /\ MaxStops \in Nat
  /\ MaxTrouble \in Nat

Empty == [x \in {} |-> None]
Put(f, x, v) == [y \in DOMAIN f \cup {x} |-> IF y = x THEN v ELSE f[y]]

Init ==
  /\ members = Empty /\ services = Empty
  /\ before = [members |-> Empty, services |-> Empty]
  /\ phase = "off" /\ stopping = FALSE /\ selfIP = None
  /\ peers = Empty /\ svcs = Empty /\ toPublish = {}
  /\ tunnel = Empty /\ lastSig = Empty
  /\ mapped = {} /\ routed = {}
  /\ zone = Empty
  /\ access = [groups |-> Empty, allow |-> {}]
  /\ running = Empty /\ sockets = {}
  /\ cuts = 0
  /\ restarts = 0 /\ failures = 0 /\ stops = 0

Trouble == restarts + failures + 2 * stops
Calm    == Trouble < MaxTrouble

-------------------------------------------------------------------------------
(* The directory *)

(***************************************************************************)
(* Registering d, or publishing n: a known key keeps its address, a new    *)
(* one gets the next.                                                      *)
(***************************************************************************)
NodeLease(d) == IF d \in DOMAIN members THEN members[d] ELSE Cardinality(DOMAIN members) + 1

VipLease(n) ==
  IF n \in DOMAIN services THEN services[n].vip
  ELSE VipBase + Cardinality(DOMAIN services) + 1

Registered(d) == Put(members, d, NodeLease(d))

Join(d) ==
  /\ d \notin DOMAIN members
  /\ members' = Registered(d)
  /\ UNCHANGED <<cuts, services, before, restarts, phase, stopping, selfIP, applyVars, tunnel,
                 lastSig, mapped, routed, hostVars, failures, stops>>

PublishOther(n) ==
  /\ n \notin DOMAIN services
  /\ Theirs[n] \in DOMAIN members
  /\ services' = Put(services, n, [node |-> members[Theirs[n]], vip |-> VipLease(n)])
  /\ UNCHANGED <<cuts, members, before, restarts, phase, stopping, selfIP, applyVars, tunnel, lastSig,
                 mapped, routed, hostVars, failures, stops>>

ServerRestart ==
  /\ restarts < MaxRestarts /\ Calm
  /\ restarts' = restarts + 1
  /\ before' = [members |-> members, services |-> services]
  /\ members' = Empty /\ services' = Empty
  /\ UNCHANGED <<cuts, phase, stopping, selfIP, applyVars, tunnel, lastSig, mapped, routed, hostVars,
                 failures, stops>>

-------------------------------------------------------------------------------
(* Start and Stop *)

(***************************************************************************)
(* Start: join, build the translator, create the adapter, bring WireGuard  *)
(* up.  The self address is the first to be mapped (vip.Wrap).  A failure  *)
(* after the join closes the adapter again and leaves the member behind.   *)
(***************************************************************************)
Start ==
  /\ phase = "off"
  /\ members' = Registered(Me)
  /\ selfIP' = NodeLease(Me)
  /\ phase' = "idle"
  /\ mapped' = {NodeLease(Me)}
  /\ UNCHANGED <<services, before, restarts, stopping, applyVars, tunnel, lastSig, routed, hostVars,
                 cuts, failures, stops>>

StartFails ==
  /\ phase = "off"
  /\ failures < MaxFailures /\ Calm /\ failures' = failures + 1
  /\ members' \in {members, Registered(Me)}
  /\ UNCHANGED <<cuts, services, before, restarts, phase, stopping, selfIP, applyVars, tunnel, lastSig,
                 mapped, routed, hostVars, stops>>

(***************************************************************************)
(* Stop closes the channel and waits; run sees it between two rounds,      *)
(* cleans up and returns, with all it knows of routes, peers and proxies.  *)
(***************************************************************************)
Stop ==
  /\ phase # "off" /\ ~stopping
  /\ stops < MaxStops /\ Trouble + 2 <= MaxTrouble
  /\ stops' = stops + 1
  /\ stopping' = TRUE
  /\ UNCHANGED <<cuts, serverVars, phase, selfIP, applyVars, tunnel, lastSig, mapped, routed, hostVars,
                 failures>>

Cleanup ==
  /\ stopping /\ phase = "idle"
  /\ phase' = "off" /\ stopping' = FALSE
  /\ zone' = Empty /\ tunnel' = Empty
  /\ selfIP' = None /\ mapped' = {} /\ routed' = {}
  /\ lastSig' = Empty /\ running' = Empty
  /\ access' = [groups |-> Empty, allow |-> {}]
  /\ UNCHANGED <<serverVars, applyVars, sockets, cuts, failures, stops>>

-------------------------------------------------------------------------------
(* A round of apply *)

\* apply returns.
EndRound == peers' = Empty /\ svcs' = Empty /\ toPublish' = {}

Fail == failures < MaxFailures /\ Calm /\ failures' = failures + 1

(***************************************************************************)
(* A call to the server: a device it no longer knows is registered again,  *)
(* and that call fails if it is given another address (join.go).           *)
(***************************************************************************)
Call == members' = Registered(Me)
CallSucceeds == Call /\ (Me \in DOMAIN members \/ NodeLease(Me) = selfIP)
CallFails    == \/ Fail /\ UNCHANGED members
                \/ Call /\ ~(Me \in DOMAIN members \/ NodeLease(Me) = selfIP) /\ UNCHANGED failures

AskPeers ==
  /\ phase = "idle"
  /\ \/ /\ CallSucceeds
        /\ peers' = members'
        /\ phase' = "services"
        /\ UNCHANGED failures
     \/ CallFails /\ UNCHANGED <<peers, phase>>
  /\ UNCHANGED <<cuts, services, before, restarts, stopping, selfIP, svcs, toPublish, tunnel, lastSig,
                 mapped, routed, hostVars, stops>>

(***************************************************************************)
(* An error of Services is dropped and leaves an empty list.               *)
(***************************************************************************)
AskServices ==
  /\ phase = "services"
  /\ \/ CallSucceeds /\ svcs' = services /\ UNCHANGED failures
     \/ CallFails /\ svcs' = Empty
  /\ toPublish' = Mine \ DOMAIN svcs'
  /\ phase' = "publish"
  /\ UNCHANGED <<cuts, services, before, restarts, stopping, selfIP, peers, tunnel, lastSig, mapped,
                 routed, hostVars, stops>>

(***************************************************************************)
(* republish: one call for each service of this node that is not listed.   *)
(* The server refuses a service of an address that is not the caller's.    *)
(***************************************************************************)
\* Slip: only what was not published before is published.
RepublishOnce(n) ==
  /\ phase = "publish"
  /\ n \in toPublish /\ toPublish' = toPublish \ {n}
  /\ \/ /\ n \notin DOMAIN running /\ CallSucceeds
        /\ members'[Me] = selfIP
        /\ services' = Put(services, n, [node |-> selfIP, vip |-> VipLease(n)])
        /\ svcs' = Put(svcs, n, services'[n])
        /\ UNCHANGED failures
     \/ n \in DOMAIN running /\ UNCHANGED <<members, services, svcs, failures>>
     \/ n \notin DOMAIN running /\ CallFails /\ UNCHANGED <<services, svcs>>
  /\ UNCHANGED <<cuts, before, restarts, phase, stopping, selfIP, peers, tunnel, lastSig, mapped,
                 routed, hostVars, stops>>

Republish(n) ==
  /\ phase = "publish"
  /\ n \in toPublish /\ toPublish' = toPublish \ {n}
  /\ \/ /\ CallSucceeds
        /\ members'[Me] = selfIP
        /\ services' = Put(services, n, [node |-> selfIP, vip |-> VipLease(n)])
        /\ svcs' = Put(svcs, n, services'[n])
        /\ UNCHANGED failures
     \/ /\ \/ CallFails
           \/ CallSucceeds /\ members'[Me] # selfIP /\ UNCHANGED failures
        /\ UNCHANGED <<services, svcs>>
  /\ UNCHANGED <<cuts, before, restarts, phase, stopping, selfIP, peers, tunnel, lastSig, mapped,
                 routed, hostVars, stops>>

(***************************************************************************)
(* translator.local for a set of addresses: those without a counterpart    *)
(* get one while there is room.                                            *)
(***************************************************************************)
Mapping(want) ==
  LET new == want \ mapped IN
  {mapped \cup got : got \in {g \in SUBSET new :
     Cardinality(mapped \cup g) <= Room /\ (g = new \/ Cardinality(mapped \cup g) = Room)}}

(***************************************************************************)
(* The peers of the tunnel: everyone but the holder of this node's         *)
(* address, each with its own address and those of the services it hosts.  *)
(***************************************************************************)
\* Slip: the addresses a peer hosted before stay with it.
WgPeersAccumulating ==
  [d \in {e \in DOMAIN peers : peers[e] # selfIP} |->
    {peers[d]} \cup {svcs[n].vip : n \in {m \in DOMAIN svcs : svcs[m].node = peers[d]}}
               \cup (IF d \in DOMAIN tunnel THEN tunnel[d] ELSE {})]

WgPeers ==
  [d \in {e \in DOMAIN peers : peers[e] # selfIP} |->
    {peers[d]} \cup {svcs[n].vip : n \in {m \in DOMAIN svcs : svcs[m].node = peers[d]}}]

(***************************************************************************)
(* AddPeerRoute for each address not routed yet; one that fails is tried   *)
(* again in the next round.                                                *)
(***************************************************************************)
AddRoutes(want) ==
  \/ routed' = routed \cup want /\ UNCHANGED failures
  \/ \E lost \in want \ routed : routed' = routed \cup (want \ {lost}) /\ Fail

(***************************************************************************)
(* SetPeers replaces all peers, and only when something changed; one that  *)
(* fails has removed the old peers and added some of the new, and ends the *)
(* round.                                                                  *)
(***************************************************************************)
PeerAddresses == {peers[d] : d \in DOMAIN WgPeers}

SetPeers ==
  /\ tunnel' = IF WgPeers = lastSig THEN tunnel ELSE WgPeers
  /\ lastSig' = WgPeers
  /\ AddRoutes(PeerAddresses \cap mapped')
  /\ phase' = "finish"
  /\ UNCHANGED <<cuts, applyVars>>

\* Slip: the signature is recorded before SetPeers is known to have worked.
SetPeersFailsRecorded ==
  /\ WgPeers # lastSig
  /\ Fail
  /\ cuts' = cuts + 1
  /\ \E some \in SUBSET DOMAIN WgPeers : tunnel' = Restrict(WgPeers, some)
  /\ lastSig' = WgPeers
  /\ routed' = routed \cup (PeerAddresses \cap mapped')
  /\ phase' = "idle" /\ EndRound

SetPeersFails ==
  /\ WgPeers # lastSig
  /\ Fail
  /\ cuts' = cuts + 1
  /\ \E some \in SUBSET DOMAIN WgPeers : tunnel' = Restrict(WgPeers, some)
  /\ UNCHANGED lastSig
  /\ routed' = routed \cup (PeerAddresses \cap mapped')
  /\ phase' = "idle" /\ EndRound

Tunnel ==
  /\ phase = "publish" /\ toPublish = {}
  /\ mapped' \in Mapping(PeerAddresses)
  /\ SetPeers \/ SetPeersFails
  /\ UNCHANGED <<serverVars, stopping, selfIP, hostVars, stops>>

(***************************************************************************)
(* What is shown to the operating system and the user: the peers and the   *)
(* services whose addresses have local counterparts.                       *)
(***************************************************************************)
ShownPeers == {d \in DOMAIN peers : peers[d] \in mapped'}
ShownServices == {n \in DOMAIN svcs : {svcs[n].node, svcs[n].vip} \subseteq mapped'}

\* updateDNS: the names of the zone.
Records ==
  [x \in ShownPeers \cup ShownServices |-> IF x \in DOMAIN svcs THEN svcs[x].vip ELSE peers[x]]

\* AccessPolicy.Set: the device behind each address, and the services offered.
Policy ==
  [groups |-> [ip \in {peers[d] : d \in ShownPeers} |-> CHOOSE d \in ShownPeers : peers[d] = ip],
   allow  |-> ShownServices]

\* routeServices: the addresses of the services hosted elsewhere.
ServiceRoutes == {svcs[n].vip : n \in {m \in ShownServices : svcs[m].node # selfIP}}

(***************************************************************************)
(* manageHostProxies: a service of this node that has no proxy yet gets    *)
(* one, unless something already listens there.  One whose listener fails  *)
(* is tried again in the next round.                                       *)
(***************************************************************************)
Listen(ns) ==
  LET new  == {n \in ns : svcs[n].node = selfIP /\ n \notin DOMAIN running}
      free == {n \in new : <<n, svcs[n].vip>> \notin sockets}
  IN /\ running' = [n \in DOMAIN running \cup free |->
                   IF n \in free THEN svcs[n].vip ELSE running[n]]
     /\ sockets' = sockets \cup {<<n, svcs[n].vip>> : n \in free}

(***************************************************************************)
(* routeServices, updateDNS, access.Set and manageHostProxies.             *)
(***************************************************************************)
Finish ==
  /\ phase = "finish"
  /\ mapped' \in Mapping({peers[d] : d \in DOMAIN peers}
                          \cup UNION {{svcs[n].node, svcs[n].vip} : n \in DOMAIN svcs})
  /\ zone' = Records
  /\ access' = Policy
  /\ \/ /\ AddRoutes(ServiceRoutes)
        /\ Listen(ShownServices)
     \/ /\ Fail
        /\ routed' = routed \cup ServiceRoutes
        /\ \E lost \in ShownServices : Listen(ShownServices \ {lost})
  /\ phase' = "idle" /\ EndRound
  /\ UNCHANGED <<cuts, serverVars, stopping, selfIP, tunnel, lastSig, stops>>

Round ==
  AskPeers \/ AskServices \/ (\E n \in Mine : Republish(n)) \/ Tunnel \/ Finish

Next ==
  \/ \E d \in Other : Join(d)
  \/ \E n \in DOMAIN Theirs : PublishOther(n)
  \/ ServerRestart
  \/ Start \/ StartFails \/ Stop \/ Cleanup
  \/ Round

Spec == Init /\ [][Next]_vars

(***************************************************************************)
(* run's ticker keeps the rounds coming, and the other devices' engines do *)
(* as this one does: they come back after a restart and publish again.     *)
(* Calls and system operations fail only finitely often.                   *)
(***************************************************************************)
FairSpec ==
  /\ Spec
  /\ WF_vars(Round) /\ WF_vars(Cleanup) /\ WF_vars(Start)
  /\ \A d \in Other : WF_vars(Join(d))
  /\ \A n \in DOMAIN Theirs : WF_vars(PublishOther(n))

-------------------------------------------------------------------------------
(* Properties *)

(***************************************************************************)
(* No address is allowed at two peers of the tunnel, whatever happened at  *)
(* the server between asking for members and asking for services:          *)
(* WireGuard would carry its packets to only one of them.                  *)
(***************************************************************************)
AllowedDisjoint ==
  \A d, e \in DOMAIN tunnel : tunnel[d] \cap tunnel[e] # {} => d = e

\* Everything the server lists is carried, routed and named as it lists it.
InStep ==
  /\ Me \in DOMAIN members
  /\ \A d \in DOMAIN members \ {Me} : members[d] \in mapped =>
       /\ d \in DOMAIN tunnel /\ members[d] \in tunnel[d] /\ members[d] \in routed
       /\ d \in DOMAIN zone /\ zone[d] = members[d]
       /\ members[d] \in DOMAIN access.groups /\ access.groups[members[d]] = d
  /\ \A n \in DOMAIN services \cap DOMAIN Theirs :
       {services[n].node, services[n].vip} \subseteq mapped =>
         /\ Theirs[n] \in DOMAIN tunnel /\ services[n].vip \in tunnel[Theirs[n]]
         /\ services[n].vip \in routed
         /\ n \in DOMAIN zone /\ zone[n] = services[n].vip

\* After a restart everyone has, once back, the address of before.
Unmoved ==
  /\ \A d \in DOMAIN members \cap DOMAIN before.members : members[d] = before.members[d]
  /\ \A n \in DOMAIN services \cap DOMAIN before.services :
       services[n].vip = before.services[n].vip

\* No SetPeers has failed, or that was all that happened.
Straight == cuts = 0 \/ (restarts = 0 /\ failures = 1)

(***************************************************************************)
(* "the tunnel to that node has to be willing to carry it, or packets for  *)
(* the service match no peer and go nowhere" (engine.go:364): once the     *)
(* network is quiet, every member and every service that has a local       *)
(* address is carried by the tunnel, routed, named and known to the access *)
(* policy, after a restart of the server and after failures of calls, of   *)
(* routes and of listeners, or after a failed SetPeers.                    *)
(***************************************************************************)
InStepEventually == <>[](phase # "off") /\ [](Unmoved /\ Straight) => <>[]InStep

(***************************************************************************)
(* The same after a failed SetPeers and other failures or a restart        *)
(* (engine.go:364): a later round makes up for what SetPeers missed.       *)
(***************************************************************************)
TunnelRepaired == <>[](phase # "off") /\ []Unmoved => <>[]InStep

(***************************************************************************)
(* republish "is what makes a hosted service survive a control server      *)
(* restart without the operator noticing" (engine.go:438): if addresses    *)
(* are the same afterwards, then in the end every service of this node is  *)
(* listed, and answered at the address it is listed at if that has a local *)
(* counterpart.                                                            *)
(***************************************************************************)
HostedServed ==
  <>[](phase # "off") /\ []Unmoved =>
    <>[](\A n \in Mine :
           /\ n \in DOMAIN services
           /\ {services[n].node, services[n].vip} \subseteq mapped =>
                <<n, services[n].vip>> \in sockets)
===============================================================================
