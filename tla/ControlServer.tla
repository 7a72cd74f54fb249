----------------------------- MODULE ControlServer ----------------------------
(***************************************************************************)
(* The control server of one network: the HTTP handlers of                 *)
(* server/api/api.go over the registry of server/store/store.go and the    *)
(* two address allocators of server/ipam/ipam.go.                          *)
(*                                                                         *)
(* net/http runs every request in its own goroutine.  The store and each   *)
(* allocator lock a mutex per method call and no handler holds one across  *)
(* calls, so a handler is a sequence of atomic calls that interleave with  *)
(* those of other requests: each such call is one action here, together    *)
(* with the local work that follows it.  Rejections that touch no shared   *)
(* state answer in the step that finds them out.                           *)
(*                                                                         *)
(* The registry is in memory only: a restarted server (Restart) knows no   *)
(* member, no service and no lease, and every open request is cut off.     *)
(***************************************************************************)
EXTENDS Acl, Integers

CONSTANTS
  Device,       \* device UUIDs
  NoDevice,     \* a request without device_uuid or public_key
  JoinToken,    \* what devices present to register, valid or not
  JoinGroup,    \* the server's token table: JoinToken -> Group or NoGroup
  NoGroup,
  Rules,        \* the access policy
  Name,         \* service names
  NoName,       \* a publish request without a name or a port
  AllowList,    \* the allow_groups lists devices send
  Token,        \* node tokens: what newNodeToken can mint
  NoTok,        \* no Authorization header
  Handler,      \* request goroutines
  NodeBase,     \* first address of the range, which Split gives to devices
  HalfSize,     \* addresses in each half; the upper half is the services'
  NoAddr,       \* no address, "" on the wire
  None,         \* a missing map entry
  MaxEpoch      \* bound: how often the server is restarted

VARIABLES
  members,      \* Network.members: device -> member
  byToken,      \* Network.byToken: node token -> member
  services,     \* Network.services: name -> service
  nodeNext, nodeUsed, nodeByKey,   \* the allocator of the lower half
  svcNext, svcUsed, svcByKey,      \* the allocator of the upper half
  minted,       \* every node token ever minted (random, so never twice)
  epoch,        \* how often the server has been restarted
  pc,           \* where each request stands, or how it was answered
  who,          \* the member a request acts as, or is about to create
  svc,          \* the service a publish request is about to store
  todo,         \* services a list request has yet to look at
  out           \* what the answer will carry

storeVars == <<members, byToken, services>>
nodeVars  == <<nodeNext, nodeUsed, nodeByKey>>
svcVars   == <<svcNext, svcUsed, svcByKey>>
reqVars   == <<pc, who, svc, todo, out>>
vars      == <<storeVars, nodeVars, svcVars, minted, epoch, reqVars>>

Nodes == INSTANCE Ipam WITH
  Key <- Device, Base <- NodeBase, Size <- HalfSize,
  next <- nodeNext, used <- nodeUsed, byKey <- nodeByKey

ServiceIPs == INSTANCE Ipam WITH
  Key <- Name, Base <- NodeBase + HalfSize, Size <- HalfSize,
  next <- svcNext, used <- svcUsed, byKey <- svcByKey

ASSUME ServerConstants ==
  /\ JoinGroup \in [JoinToken -> Group \cup {NoGroup}]
  /\ NoGroup \notin Group
  /\ Rules \subseteq Rule
  /\ AllowList \subseteq SUBSET Spelling
  /\ NoDevice \notin Device
  /\ NoName \notin Name
  /\ NoTok \notin Token
  /\ NodeBase \in Nat
  /\ HalfSize \in Nat \ {0}
  /\ NoAddr \notin Nat
  /\ MaxEpoch \in Nat

(***************************************************************************)
(* store.Member and store.Service, down to what the handlers tell apart.   *)
(***************************************************************************)
Member == [dev : Device, group : Group, ip : Nodes!Hosts, token : Token \cup {NoTok}]

Service == [name : Name, node : Nodes!Hosts, vip : ServiceIPs!Hosts \cup {NoAddr},
            allow : SUBSET Spelling]

ASSUME NoneIsNoRecord == None \notin Member /\ None \notin Service

Waiting  == {"upsert", "peers", "list", "filter", "lease", "store"}
Answered == {"registered", "peersReply", "listReply", "published"}

-------------------------------------------------------------------------------
(* A fresh server *)

Init ==
  /\ members = [d \in Device |-> None]
  /\ byToken = [t \in Token |-> None]
  /\ services = [n \in Name |-> None]
  /\ Nodes!Init
  /\ ServiceIPs!Init
  /\ minted = {}
  /\ epoch = 0
  /\ pc = [h \in Handler |-> "idle"]
  /\ who = [h \in Handler |-> None]
  /\ svc = [h \in Handler |-> None]
  /\ todo = [h \in Handler |-> {}]
  /\ out = [h \in Handler |-> {}]

(***************************************************************************)
(* The store's lookups.  MemberByIP is read by visibleService; addresses   *)
(* of members are distinct, so the map order it walks cannot matter.       *)
(***************************************************************************)
MemberByToken(t) == IF t = NoTok THEN None ELSE byToken[t]

MembersByIP(ip) == {m \in {members[d] : d \in Device} \ {None} : m.ip = ip}

Members == {members[d] : d \in Device} \ {None}

Services == {services[n] : n \in Name} \ {None}

(***************************************************************************)
(* visibleService: your own services, and those of a connected device that *)
(* allow your group.                                                       *)
(***************************************************************************)
\* Slip: a service open to the group is listed without a tunnel to its node.
visibleUnconnected(caller, sv) == sv.node = caller.ip \/ AllowsGroup(sv.allow, caller.group)

visibleService(caller, sv) ==
  \/ sv.node = caller.ip
  \/ \E host \in MembersByIP(sv.node) :
       /\ Connected(Rules, caller.group, host.group)
       /\ AllowsGroup(sv.allow, caller.group)

(***************************************************************************)
(* The peer list the handler makes of a snapshot of the members.           *)
(***************************************************************************)
visiblePeers(caller, ms) ==
  {m \in ms : m.dev = caller.dev \/ Connected(Rules, caller.group, m.group)}

-------------------------------------------------------------------------------
(* Request bookkeeping *)

Free(h) == pc[h] \in Answered \cup {"idle"}

(***************************************************************************)
(* A request moves on: to at, acting as m, with s to store.                *)
(***************************************************************************)
Step(h, at, m, s, rest, found) ==
  /\ pc'   = [pc EXCEPT ![h] = at]
  /\ who'  = [who EXCEPT ![h] = m]
  /\ svc'  = [svc EXCEPT ![h] = s]
  /\ todo' = [todo EXCEPT ![h] = rest]
  /\ out'  = [out EXCEPT ![h] = found]

(***************************************************************************)
(* writeErr: 401, 400, 403, 500 or 503.  The request is over and has left  *)
(* nothing behind.                                                         *)
(***************************************************************************)
Refuse(h) == Step(h, "idle", None, None, {}, {})

-------------------------------------------------------------------------------
(* POST /v1/register *)

(***************************************************************************)
(* The join token decides the group; then the device is leased its         *)
(* address.  Afterwards the member exists only in this request.            *)
(***************************************************************************)
RegisterLease(h, d, jt, ip) ==
  /\ Free(h)
  /\ JoinGroup[jt] # NoGroup
  /\ d # NoDevice
  /\ Nodes!Allocate(d, ip)
  /\ Step(h, "upsert", [dev |-> d, group |-> JoinGroup[jt], ip |-> ip, token |-> NoTok],
          None, {}, {})
  /\ UNCHANGED <<storeVars, svcVars, minted, epoch>>

RegisterReject(h, d, jt) ==
  /\ Free(h)
  /\ \/ JoinGroup[jt] = NoGroup /\ Refuse(h)
     \/ JoinGroup[jt] # NoGroup /\ d = NoDevice /\ Refuse(h)
  /\ UNCHANGED <<storeVars, nodeVars, svcVars, minted, epoch>>

RegisterExhausted(h, d, jt) ==
  /\ Free(h)
  /\ JoinGroup[jt] # NoGroup
  /\ d # NoDevice
  /\ Nodes!AllocateFails(d)
  /\ Refuse(h)
  /\ UNCHANGED <<storeVars, svcVars, minted, epoch>>

(***************************************************************************)
(* Network.Upsert: the device's previous token leaves the index, the new   *)
(* record takes the device's place and enters the index under its token.   *)
(***************************************************************************)
\* Slip: the previous token stays in the index.
UpsertKeepingToken(m) ==
  /\ members' = [members EXCEPT ![m.dev] = m]
  /\ byToken' = [byToken EXCEPT ![m.token] = m]
  /\ UNCHANGED services

Upsert(m) ==
  LET prev == members[m.dev]
      kept == IF prev = None THEN byToken ELSE [byToken EXCEPT ![prev.token] = None]
  IN  /\ members' = [members EXCEPT ![m.dev] = m]
      /\ byToken' = [kept EXCEPT ![m.token] = m]
      /\ UNCHANGED services

\* Slip: a node token may be minted twice.
RegisterRepeatingToken(h, t) ==
  /\ pc[h] = "upsert"
  /\ LET m == [who[h] EXCEPT !.token = t]
     IN  Upsert(m) /\ Step(h, "registered", m, None, {}, {})
  /\ minted' = minted \cup {t}
  /\ UNCHANGED <<nodeVars, svcVars, epoch>>

RegisterUpsert(h, t) ==
  /\ pc[h] = "upsert"
  /\ t \in Token \ minted
  /\ LET m == [who[h] EXCEPT !.token = t]
     IN  Upsert(m) /\ Step(h, "registered", m, None, {}, {})
  /\ minted' = minted \cup {t}
  /\ UNCHANGED <<nodeVars, svcVars, epoch>>

RegisterNoToken(h) ==
  /\ pc[h] = "upsert"
  /\ Refuse(h)
  /\ UNCHANGED <<storeVars, nodeVars, svcVars, minted, epoch>>

-------------------------------------------------------------------------------
(* Requests authenticated by a node token *)

(***************************************************************************)
(* caller: answers 401 itself when the token is not in the index.          *)
(***************************************************************************)
Unauthorized(h, t) ==
  /\ Free(h)
  /\ MemberByToken(t) = None
  /\ Refuse(h)
  /\ UNCHANGED <<storeVars, nodeVars, svcVars, minted, epoch>>

Authenticate(h, t, at) ==
  /\ Free(h)
  /\ MemberByToken(t) # None
  /\ Step(h, at, MemberByToken(t), None, {}, {})
  /\ UNCHANGED <<storeVars, nodeVars, svcVars, minted, epoch>>

(* GET /v1/peers *)

PeersAuth(h, t) == Authenticate(h, t, "peers")

PeersReply(h) ==
  /\ pc[h] = "peers"
  /\ Step(h, "peersReply", who[h], None, {}, visiblePeers(who[h], Members))
  /\ UNCHANGED <<storeVars, nodeVars, svcVars, minted, epoch>>

(***************************************************************************)
(* GET /v1/services: a snapshot of the services, each of which is then     *)
(* held against the store as it is at that moment.                         *)
(***************************************************************************)
ListAuth(h, t) == Authenticate(h, t, "list")

ListSnapshot(h) ==
  /\ pc[h] = "list"
  /\ Step(h, "filter", who[h], None, Services, {})
  /\ UNCHANGED <<storeVars, nodeVars, svcVars, minted, epoch>>

ListFilter(h, sv) ==
  /\ pc[h] = "filter"
  /\ sv \in todo[h]
  /\ Step(h, "filter", who[h], None, todo[h] \ {sv},
          IF visibleService(who[h], sv) THEN out[h] \cup {sv} ELSE out[h])
  /\ UNCHANGED <<storeVars, nodeVars, svcVars, minted, epoch>>

ListReply(h) ==
  /\ pc[h] = "filter"
  /\ todo[h] = {}
  /\ Step(h, "listReply", who[h], None, {}, out[h])
  /\ UNCHANGED <<storeVars, nodeVars, svcVars, minted, epoch>>

(***************************************************************************)
(* POST /v1/services.  node is the node_ip the device sent, which may be   *)
(* left out and must otherwise be the caller's own address.                *)
(***************************************************************************)
\* Slip: the node_ip of the request is believed.
PublishForOthers(h, t, n, node, allow) ==
  /\ Free(h)
  /\ MemberByToken(t) # None
  /\ n # NoName
  /\ node # NoAddr
  /\ Step(h, "lease", MemberByToken(t),
          [name |-> n, node |-> node, vip |-> NoAddr, allow |-> cleanGroups(allow)], {}, {})
  /\ UNCHANGED <<storeVars, nodeVars, svcVars, minted, epoch>>

PublishAuth(h, t, n, node, allow) ==
  /\ Free(h)
  /\ MemberByToken(t) # None
  /\ LET caller == MemberByToken(t)
     IN  \/ n = NoName /\ Refuse(h)
         \/ n # NoName /\ node \notin {NoAddr, caller.ip} /\ Refuse(h)
         \/ /\ n # NoName
            /\ node \in {NoAddr, caller.ip}
            /\ Step(h, "lease", caller,
                    [name |-> n, node |-> caller.ip, vip |-> NoAddr,
                     allow |-> cleanGroups(allow)], {}, {})
  /\ UNCHANGED <<storeVars, nodeVars, svcVars, minted, epoch>>

PublishLease(h, vip) ==
  /\ pc[h] = "lease"
  /\ ServiceIPs!Allocate(svc[h].name, vip)
  /\ Step(h, "store", who[h], [svc[h] EXCEPT !.vip = vip], {}, {})
  /\ UNCHANGED <<storeVars, nodeVars, minted, epoch>>

PublishExhausted(h) ==
  /\ pc[h] = "lease"
  /\ ServiceIPs!AllocateFails(svc[h].name)
  /\ Refuse(h)
  /\ UNCHANGED <<storeVars, nodeVars, minted, epoch>>

(***************************************************************************)
(* Network.UpsertService: the name is taken over whoever held it.          *)
(***************************************************************************)
PublishStore(h) ==
  /\ pc[h] = "store"
  /\ services' = [services EXCEPT ![svc[h].name] = svc[h]]
  /\ Step(h, "published", who[h], svc[h], {}, {})
  /\ UNCHANGED <<members, byToken, nodeVars, svcVars, minted, epoch>>

-------------------------------------------------------------------------------
(* The server is stopped and started again. *)
Restart ==
  /\ epoch < MaxEpoch
  /\ epoch' = epoch + 1
  /\ members' = [d \in Device |-> None]
  /\ byToken' = [t \in Token |-> None]
  /\ services' = [n \in Name |-> None]
  /\ Nodes!Renew
  /\ ServiceIPs!Renew
  /\ pc' = [h \in Handler |-> "idle"]
  /\ who' = [h \in Handler |-> None]
  /\ svc' = [h \in Handler |-> None]
  /\ todo' = [h \in Handler |-> {}]
  /\ out' = [h \in Handler |-> {}]
  /\ UNCHANGED minted

Register(h) ==
  \/ \E d \in Device \cup {NoDevice}, jt \in JoinToken :
       \/ RegisterReject(h, d, jt)
       \/ d \in Device /\ RegisterExhausted(h, d, jt)
       \/ d \in Device /\ \E ip \in Nodes!Prefix : RegisterLease(h, d, jt, ip)
  \/ \E t \in Token : RegisterUpsert(h, t)
  \/ RegisterNoToken(h)

List(h) ==
  \/ \E t \in Token \cup {NoTok} : Unauthorized(h, t) \/ PeersAuth(h, t) \/ ListAuth(h, t)
  \/ PeersReply(h)
  \/ ListSnapshot(h)
  \/ \E sv \in todo[h] : ListFilter(h, sv)
  \/ ListReply(h)

Publish(h) ==
  \/ \E t \in Token, n \in Name \cup {NoName},
        node \in Nodes!Hosts \cup {NoAddr}, allow \in AllowList :
       PublishAuth(h, t, n, node, allow)
  \/ \E vip \in ServiceIPs!Prefix : PublishLease(h, vip)
  \/ PublishExhausted(h)
  \/ PublishStore(h)

Next == Restart \/ \E h \in Handler : Register(h) \/ List(h) \/ Publish(h)

Spec == Init /\ [][Next]_vars

-------------------------------------------------------------------------------
(* Properties *)

\* The store (store.go), the two allocators (ipam.go) and the locals of the handlers
\* (api.go) have the types the code gives them, the allocators with their invariants.
TypeOK ==
  /\ members \in [Device -> Member \cup {None}]
  /\ byToken \in [Token -> Member \cup {None}]
  /\ services \in [Name -> Service \cup {None}]
  /\ Nodes!IpamTypeOK
  /\ ServiceIPs!IpamTypeOK
  /\ minted \subseteq Token
  /\ epoch \in 0 .. MaxEpoch
  /\ pc \in [Handler -> Waiting \cup Answered \cup {"idle"}]
  /\ who \in [Handler -> Member \cup {None}]
  /\ svc \in [Handler -> Service \cup {None}]
  /\ todo \in [Handler -> SUBSET Service]
  /\ out \in [Handler -> SUBSET (Member \cup Service)]

(***************************************************************************)
(* Upsert keeps "the token index in step" (store.go:65): a device is found *)
(* under its current token and under no other, and the token index holds   *)
(* no record that is not the device's current one.                         *)
(***************************************************************************)
TokenIndexInStep ==
  /\ \A d \in Device : members[d] # None =>
       /\ members[d].dev = d
       /\ members[d].token \in minted
       /\ byToken[members[d].token] = members[d]
  /\ \A t \in Token : byToken[t] # None =>
       byToken[t].token = t /\ members[byToken[t].dev] = byToken[t]

(***************************************************************************)
(* Whoever acts as a device, a stored member, a request that authenticated *)
(* some time ago or a registration not stored yet, has the address that is *)
(* leased to that device; so no two devices are ever told of one address.  *)
(***************************************************************************)
AddressFollowsLease ==
  /\ \A d \in Device : members[d] # None => members[d].ip = nodeByKey[d]
  /\ \A h \in Handler : who[h] # None => who[h].ip = nodeByKey[who[h].dev]

(***************************************************************************)
(* A stored service is hosted by a device that is a member now (only the   *)
(* caller's own address is ever stored, api.go:220-227), carries the       *)
(* address leased to its name, and that address is nobody else's: neither  *)
(* another service's nor a device's.                                       *)
(***************************************************************************)
ServiceIsHosted ==
  \A n \in Name : services[n] # None =>
    /\ \E d \in Device : members[d] # None /\ members[d].ip = services[n].node
    /\ services[n].name = n
    /\ services[n].vip = svcByKey[n]

(***************************************************************************)
(* An overlay address belongs to one member or to one service, although    *)
(* two allocators hand them out, to requests that take them out of order   *)
(* and store them later, if at all (ipam.go:45-68, api.go:114-133,         *)
(* 235-248).                                                               *)
(***************************************************************************)
AddressesUnique ==
  /\ \A d, e \in Device :
       members[d] # None /\ members[e] # None /\ members[d].ip = members[e].ip => d = e
  /\ \A n \in Name : services[n] # None =>
       /\ \A k \in Name \ {n} : services[k] # None => services[k].vip # services[n].vip
       /\ \A d \in Device : members[d] # None => members[d].ip # services[n].vip

(***************************************************************************)
(* The two lists a device polls agree: a service a member may see is on a  *)
(* node it is given as a peer (itself included), so it has a tunnel to     *)
(* send the service's traffic through.                                     *)
(***************************************************************************)
VisibleServiceIsReachable ==
  \A d \in Device, n \in Name :
    members[d] # None /\ services[n] # None /\ visibleService(members[d], services[n]) =>
      \E p \in visiblePeers(members[d], Members) : p.ip = services[n].node

(***************************************************************************)
(* "A member always sees itself" (api.go:153), however stale the record    *)
(* the request authenticated with has become in the meantime: the device   *)
(* is in its own peer list, at the address the request was made from.      *)
(***************************************************************************)
SelfInPeerList ==
  \A h \in Handler : pc[h] = "peersReply" =>
    \E m \in out[h] : m.dev = who[h].dev /\ m.ip = who[h].ip

(***************************************************************************)
(* A list is put together in several steps, while others register and      *)
(* publish, yet every address in an answer is right for as long as the     *)
(* server is up: a listed peer has its device's address, a listed service  *)
(* its name's address and a node that is a member.                         *)
(***************************************************************************)
AnswersStayRoutable ==
  \A h \in Handler :
    /\ pc[h] = "peersReply" => \A m \in out[h] : m.ip = nodeByKey[m.dev]
    /\ pc[h] = "listReply" => \A sv \in out[h] :
         /\ sv.vip = svcByKey[sv.name]
         /\ \E d \in Device : members[d] # None /\ members[d].ip = sv.node

(***************************************************************************)
(* A registration "invalidates the device's previous token" (store.go:66)  *)
(* for good: a minted token that finds no member never finds one again,    *)
(* not even after a restart.                                               *)
(***************************************************************************)
RevokedForGood ==
  [][\A t \in minted : byToken[t] = None => byToken'[t] = None]_vars

(***************************************************************************)
(* "Re-publishing a service - after a restart, or from a different node -  *)
(* keeps the address its clients already resolved" (api.go:232-234), and a *)
(* device that registers again keeps its own: while the server is up no    *)
(* step changes the address of a known device or service, or forgets one.  *)
(***************************************************************************)
AddressesStable ==
  [][epoch' = epoch =>
       /\ \A d \in Device : members[d] # None =>
            members'[d] # None /\ members'[d].ip = members[d].ip
       /\ \A n \in Name : services[n] # None =>
            services'[n] # None /\ services'[n].vip = services[n].vip]_vars

(***************************************************************************)
(* The handlers, interleaved as they please, implement a directory whose   *)
(* entries change in one step: a registration takes effect at its Upsert   *)
(* and a publication at its UpsertService, and a publication that was      *)
(* authenticated with a token revoked since is still that of a member.     *)
(***************************************************************************)
Dir == INSTANCE Directory WITH
  NodeAddr <- Nodes!Hosts, ServiceAddr <- ServiceIPs!Hosts,
  AllowLists <- SUBSET Spelling, spent <- minted

\* See above: register, peers and services (api.go:95-249) implement Directory.
ImplementsDirectory == Dir!Spec
===============================================================================
