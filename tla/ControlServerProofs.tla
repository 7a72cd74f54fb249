-------------------------- MODULE ControlServerProofs -------------------------
(***************************************************************************)
(* Proofs about the control server, for any number of devices, names,      *)
(* tokens and overlapping requests, any policy and any range.              *)
(*                                                                         *)
(* The properties of the store are not inductive by themselves: what a     *)
(* request is about to store must be sound as well, for however long it    *)
(* has been under way.  ServerInv adds that (RequestsSound); it is         *)
(* preserved because, until the server restarts, a device never stops      *)
(* being a member and no leased address changes (lemma RequestsStaySound). *)
(***************************************************************************)
EXTENDS ControlServer, TLAPS

NodesP == INSTANCE IpamProofs WITH
  Key <- Device, Base <- NodeBase, Size <- HalfSize,
  next <- nodeNext, used <- nodeUsed, byKey <- nodeByKey

ServiceIPsP == INSTANCE IpamProofs WITH
  Key <- Name, Base <- NodeBase + HalfSize, Size <- HalfSize,
  next <- svcNext, used <- svcUsed, byKey <- svcByKey

-------------------------------------------------------------------------------
(* The inductive invariant *)

(***************************************************************************)
(* A service record that may be stored or listed, given members ms and the *)
(* service leases sk.                                                      *)
(***************************************************************************)
SoundService(ms, sk, sv) ==
  /\ sv \in Service
  /\ sv.vip # NoAddr
  /\ sv.vip = sk[sv.name]
  /\ \E d \in Device : ms[d] # None /\ ms[d].ip = sv.node

(***************************************************************************)
(* A request at p that acts as w, holds s, has r left and f found, given   *)
(* members ms and the leases nk and sk.                                    *)
(***************************************************************************)
SoundRequest(ms, nk, sk, p, w, s, r, f) ==
  /\ p = "idle" => w = None
  /\ p # "idle" => w \in Member /\ w.ip = nk[w.dev]
  /\ p \notin {"idle", "upsert"} => ms[w.dev] # None
  /\ p \in {"lease", "store"} => s \in Service /\ s.node = w.ip
  /\ p = "store" => s.vip # NoAddr /\ s.vip = sk[s.name]
  /\ \A sv \in r : SoundService(ms, sk, sv)
  /\ p \in {"filter", "listReply"} => \A sv \in f : SoundService(ms, sk, sv)
  /\ p = "peersReply" =>
       /\ \A m \in f : m \in Member /\ m.ip = nk[m.dev]
       /\ \E m \in f : m.dev = w.dev /\ m.ip = w.ip

MembersSound == \A d \in Device : members[d] # None => members[d].ip = nodeByKey[d]

ServicesSound ==
  \A n \in Name : services[n] # None =>
    services[n].name = n /\ SoundService(members, svcByKey, services[n])

RequestsSound ==
  \A h \in Handler :
    SoundRequest(members, nodeByKey, svcByKey, pc[h], who[h], svc[h], todo[h], out[h])

ServerInv ==
  /\ TypeOK
  /\ Nodes!IpamInv
  /\ ServiceIPs!IpamInv
  /\ TokenIndexInStep
  /\ MembersSound
  /\ ServicesSound
  /\ RequestsSound

-------------------------------------------------------------------------------
(* The allocators' lemmas, at the server's two allocators *)

\* The allocator of node addresses starts, at first and after a restart, in its invariant.
LEMMA NodesInit ==
  /\ Nodes!Init => Nodes!IpamInv
  /\ Nodes!Renew => Nodes!IpamInv'
<1> USE DEF Nodes!IpamInv, Nodes!IpamTypeOK, Nodes!AddressesDistinct,
      Nodes!FieldsAgree, Nodes!Hosts, Nodes!Prefix, NodesP!IpamInv,
      NodesP!IpamTypeOK, NodesP!AddressesDistinct, NodesP!FieldsAgree,
      NodesP!Hosts, NodesP!Prefix
<1>1. (NodesP!Init => NodesP!IpamInv) /\ (NodesP!Renew => NodesP!IpamInv')
  BY NodesP!IpamInitInv, NodesP!RenewEstablishesInv, ServerConstants DEF NodesP!IpamConstants
<1>2. QED
  BY <1>1 DEF Nodes!Init, Nodes!Renew, NodesP!Init, NodesP!Renew

\* What Allocate does for a device: an address of the range, nobody else's, kept for good.
LEMMA NodesAllocate ==
  ASSUME Nodes!IpamInv, NEW k \in Device, NEW ip, Nodes!Allocate(k, ip)
  PROVE  /\ Nodes!IpamInv'
         /\ ip \in Nodes!Hosts
         /\ nodeByKey'[k] = ip
         /\ \A l \in Device : nodeByKey[l] # NoAddr => nodeByKey'[l] = nodeByKey[l]
<1> USE DEF Nodes!IpamInv, Nodes!IpamTypeOK, NodesP!IpamInv, NodesP!IpamTypeOK
<1>1. NodesP!IpamInv /\ NodesP!Allocate(k, ip)
  BY DEF Nodes!IpamInv, Nodes!IpamTypeOK, Nodes!AddressesDistinct,
         Nodes!FieldsAgree, Nodes!Hosts, Nodes!Prefix, NodesP!IpamInv,
         NodesP!IpamTypeOK, NodesP!AddressesDistinct, NodesP!FieldsAgree,
         NodesP!Hosts, NodesP!Prefix,
         Nodes!Allocate, Nodes!AllocateKnown, Nodes!AllocateNew,
         Nodes!FirstCandidate, Nodes!Candidates, Nodes!ipamVars,
         NodesP!Allocate, NodesP!AllocateKnown, NodesP!AllocateNew,
         NodesP!FirstCandidate, NodesP!Candidates, NodesP!ipamVars
<1>2. NodesP!IpamInv'
  BY <1>1, NodesP!AllocatePreservesInv, ServerConstants DEF NodesP!IpamConstants
<1>3. Nodes!IpamInv'
  BY <1>2 DEF Nodes!IpamInv, Nodes!IpamTypeOK, Nodes!AddressesDistinct,
              Nodes!FieldsAgree, Nodes!Hosts, Nodes!Prefix, NodesP!IpamInv,
              NodesP!IpamTypeOK, NodesP!AddressesDistinct, NodesP!FieldsAgree,
              NodesP!Hosts, NodesP!Prefix
<1>4. \A l \in Device : nodeByKey[l] # NoAddr => nodeByKey'[l] = nodeByKey[l]
  BY DEF Nodes!Allocate, Nodes!AllocateKnown, Nodes!AllocateNew, Nodes!ipamVars
<1>5. nodeByKey'[k] = ip
  BY DEF Nodes!Allocate, Nodes!AllocateKnown, Nodes!AllocateNew, Nodes!ipamVars
<1>6. ip \in Nodes!Hosts
  <2>1. CASE Nodes!AllocateKnown(k, ip)
    BY <2>1 DEF Nodes!AllocateKnown
  <2>2. CASE Nodes!AllocateNew(k, ip)
    <3>1. NodesP!FirstCandidate(ip)
      BY <2>2 DEF Nodes!AllocateNew, Nodes!FirstCandidate, Nodes!Candidates, Nodes!Prefix,
                  NodesP!FirstCandidate, NodesP!Candidates, NodesP!Prefix
    <3>2. ip \in NodesP!Hosts
      BY <1>1, <3>1, NodesP!FirstCandidateIsNext, ServerConstants DEF NodesP!IpamConstants
    <3>3. QED
      BY <3>2 DEF Nodes!Hosts, NodesP!Hosts, Nodes!Prefix, NodesP!Prefix
  <2>3. QED
    BY <2>1, <2>2 DEF Nodes!Allocate
<1>7. QED
  BY <1>3, <1>4, <1>5, <1>6

\* A failing Allocate keeps the invariant and every lease.
LEMMA NodesAllocateFails ==
  ASSUME Nodes!IpamInv, NEW k \in Device, Nodes!AllocateFails(k)
  PROVE  Nodes!IpamInv' /\ nodeByKey' = nodeByKey
<1> USE DEF Nodes!IpamInv, Nodes!IpamTypeOK, Nodes!AddressesDistinct,
      Nodes!FieldsAgree, Nodes!Hosts, Nodes!Prefix, NodesP!IpamInv,
      NodesP!IpamTypeOK, NodesP!AddressesDistinct, NodesP!FieldsAgree,
      NodesP!Hosts, NodesP!Prefix
<1>1. NodesP!IpamInv /\ NodesP!AllocateFails(k)
  BY DEF Nodes!AllocateFails, NodesP!AllocateFails, Nodes!Candidates, NodesP!Candidates
<1>2. NodesP!IpamInv'
  BY <1>1, NodesP!AllocateFailsPreservesInv, ServerConstants DEF NodesP!IpamConstants
<1>3. QED
  BY <1>2 DEF Nodes!AllocateFails

\* The same three facts of the allocator of service addresses.
LEMMA ServiceIPsInit ==
  /\ ServiceIPs!Init => ServiceIPs!IpamInv
  /\ ServiceIPs!Renew => ServiceIPs!IpamInv'
<1> USE DEF ServiceIPs!IpamInv, ServiceIPs!IpamTypeOK, ServiceIPs!AddressesDistinct,
      ServiceIPs!FieldsAgree, ServiceIPs!Hosts, ServiceIPs!Prefix,
      ServiceIPsP!IpamInv, ServiceIPsP!IpamTypeOK,
      ServiceIPsP!AddressesDistinct, ServiceIPsP!FieldsAgree,
      ServiceIPsP!Hosts, ServiceIPsP!Prefix
<1>1. (ServiceIPsP!Init => ServiceIPsP!IpamInv) /\ (ServiceIPsP!Renew => ServiceIPsP!IpamInv')
  BY ServiceIPsP!IpamInitInv, ServiceIPsP!RenewEstablishesInv, ServerConstants DEF ServiceIPsP!IpamConstants
<1>2. QED
  BY <1>1 DEF ServiceIPs!Init, ServiceIPs!Renew, ServiceIPsP!Init, ServiceIPsP!Renew

\* What Allocate does for a service name.
LEMMA ServiceIPsAllocate ==
  ASSUME ServiceIPs!IpamInv, NEW k \in Name, NEW ip, ServiceIPs!Allocate(k, ip)
  PROVE  /\ ServiceIPs!IpamInv'
         /\ ip \in ServiceIPs!Hosts
         /\ svcByKey'[k] = ip
         /\ \A l \in Name : svcByKey[l] # NoAddr => svcByKey'[l] = svcByKey[l]
<1> USE DEF ServiceIPs!IpamInv, ServiceIPs!IpamTypeOK, ServiceIPsP!IpamInv, ServiceIPsP!IpamTypeOK
<1>1. ServiceIPsP!IpamInv /\ ServiceIPsP!Allocate(k, ip)
  BY DEF ServiceIPs!IpamInv, ServiceIPs!IpamTypeOK,
         ServiceIPs!AddressesDistinct, ServiceIPs!FieldsAgree,
         ServiceIPs!Hosts, ServiceIPs!Prefix, ServiceIPsP!IpamInv,
         ServiceIPsP!IpamTypeOK, ServiceIPsP!AddressesDistinct,
         ServiceIPsP!FieldsAgree, ServiceIPsP!Hosts, ServiceIPsP!Prefix,
         ServiceIPs!Allocate, ServiceIPs!AllocateKnown,
         ServiceIPs!AllocateNew, ServiceIPs!FirstCandidate,
         ServiceIPs!Candidates, ServiceIPs!ipamVars, ServiceIPsP!Allocate,
         ServiceIPsP!AllocateKnown, ServiceIPsP!AllocateNew,
         ServiceIPsP!FirstCandidate, ServiceIPsP!Candidates,
         ServiceIPsP!ipamVars
<1>2. ServiceIPsP!IpamInv'
  BY <1>1, ServiceIPsP!AllocatePreservesInv, ServerConstants DEF ServiceIPsP!IpamConstants
<1>3. ServiceIPs!IpamInv'
  BY <1>2 DEF ServiceIPs!IpamInv, ServiceIPs!IpamTypeOK,
              ServiceIPs!AddressesDistinct, ServiceIPs!FieldsAgree,
              ServiceIPs!Hosts, ServiceIPs!Prefix, ServiceIPsP!IpamInv,
              ServiceIPsP!IpamTypeOK, ServiceIPsP!AddressesDistinct,
              ServiceIPsP!FieldsAgree, ServiceIPsP!Hosts, ServiceIPsP!Prefix
<1>4. \A l \in Name : svcByKey[l] # NoAddr => svcByKey'[l] = svcByKey[l]
  BY DEF ServiceIPs!Allocate, ServiceIPs!AllocateKnown, ServiceIPs!AllocateNew, ServiceIPs!ipamVars
<1>5. svcByKey'[k] = ip
  BY DEF ServiceIPs!Allocate, ServiceIPs!AllocateKnown, ServiceIPs!AllocateNew, ServiceIPs!ipamVars
<1>6. ip \in ServiceIPs!Hosts
  <2>1. CASE ServiceIPs!AllocateKnown(k, ip)
    BY <2>1 DEF ServiceIPs!AllocateKnown
  <2>2. CASE ServiceIPs!AllocateNew(k, ip)
    <3>1. ServiceIPsP!FirstCandidate(ip)
      BY <2>2 DEF ServiceIPs!AllocateNew, ServiceIPs!FirstCandidate, ServiceIPs!Candidates,
                  ServiceIPs!Prefix, ServiceIPsP!FirstCandidate,
                  ServiceIPsP!Candidates, ServiceIPsP!Prefix
    <3>2. ip \in ServiceIPsP!Hosts
      BY <1>1, <3>1, ServiceIPsP!FirstCandidateIsNext, ServerConstants DEF ServiceIPsP!IpamConstants
    <3>3. QED
      BY <3>2 DEF ServiceIPs!Hosts, ServiceIPsP!Hosts, ServiceIPs!Prefix, ServiceIPsP!Prefix
  <2>3. QED
    BY <2>1, <2>2 DEF ServiceIPs!Allocate
<1>7. QED
  BY <1>3, <1>4, <1>5, <1>6

\* A failing Allocate keeps the invariant and every lease.
LEMMA ServiceIPsAllocateFails ==
  ASSUME ServiceIPs!IpamInv, NEW k \in Name, ServiceIPs!AllocateFails(k)
  PROVE  ServiceIPs!IpamInv' /\ svcByKey' = svcByKey
<1> USE DEF ServiceIPs!IpamInv, ServiceIPs!IpamTypeOK, ServiceIPs!AddressesDistinct,
      ServiceIPs!FieldsAgree, ServiceIPs!Hosts, ServiceIPs!Prefix,
      ServiceIPsP!IpamInv, ServiceIPsP!IpamTypeOK,
      ServiceIPsP!AddressesDistinct, ServiceIPsP!FieldsAgree,
      ServiceIPsP!Hosts, ServiceIPsP!Prefix
<1>1. ServiceIPsP!IpamInv /\ ServiceIPsP!AllocateFails(k)
  BY DEF ServiceIPs!AllocateFails, ServiceIPsP!AllocateFails, ServiceIPs!Candidates, ServiceIPsP!Candidates
<1>2. ServiceIPsP!IpamInv'
  BY <1>1, ServiceIPsP!AllocateFailsPreservesInv, ServerConstants DEF ServiceIPsP!IpamConstants
<1>3. QED
  BY <1>2 DEF ServiceIPs!AllocateFails

-------------------------------------------------------------------------------
(* Requests under way *)

(***************************************************************************)
(* What others do to the store and the leases while a request is under way *)
(* leaves it sound: members stay members at their address, leases stay.    *)
(***************************************************************************)
Persist(ms, ms2, nk, nk2, sk, sk2) ==
  /\ \A d \in Device : ms[d] # None => ms2[d] # None /\ ms2[d].ip = ms[d].ip
  /\ \A d \in Device : nk[d] # NoAddr => nk2[d] = nk[d]
  /\ \A n \in Name : sk[n] # NoAddr => sk2[n] = sk[n]

\* A sound service stays sound while members and leases only grow.
LEMMA ServicesStaySound ==
  ASSUME NEW ms, NEW ms2, NEW nk, NEW nk2, NEW sk, NEW sk2,
         Persist(ms, ms2, nk, nk2, sk, sk2),
         NEW sv, SoundService(ms, sk, sv)
  PROVE  SoundService(ms2, sk2, sv)
<1>1. sv.name \in Name /\ sk2[sv.name] = sk[sv.name]
  BY DEF Persist, SoundService, Service
<1>2. \E d \in Device : ms2[d] # None /\ ms2[d].ip = sv.node
  BY DEF Persist, SoundService
<1>3. QED
  BY <1>1, <1>2 DEF SoundService

\* A record that carries its device's lease still does when leases are kept.
LEMMA MemberLease ==
  ASSUME NEW nk, NEW nk2, NEW m \in Member, m.ip = nk[m.dev],
         \A d \in Device : nk[d] # NoAddr => nk2[d] = nk[d]
  PROVE  m.ip = nk2[m.dev]
<1>1. m.dev \in Device /\ m.ip \in Nat
  BY ServerConstants DEF Member, Nodes!Hosts, Nodes!Prefix
<1>2. QED
  BY <1>1, ServerConstants

\* A sound request stays sound while members and leases only grow.
LEMMA RequestsStaySound ==
  ASSUME NEW ms, NEW ms2, NEW nk, NEW nk2, NEW sk, NEW sk2,
         Persist(ms, ms2, nk, nk2, sk, sk2),
         NEW p, NEW w, NEW s, NEW r, NEW f, SoundRequest(ms, nk, sk, p, w, s, r, f)
  PROVE  SoundRequest(ms2, nk2, sk2, p, w, s, r, f)
<1>1. p # "idle" => w \in Member /\ w.ip = nk2[w.dev]
  BY MemberLease DEF SoundRequest, Persist
<1>2. p \notin {"idle", "upsert"} => ms2[w.dev] # None
  BY DEF SoundRequest, Persist, Member
<1>3. p = "store" => s.vip # NoAddr /\ s.vip = sk2[s.name]
  BY DEF SoundRequest, Persist, Service
<1>4. \A sv \in r : SoundService(ms2, sk2, sv)
  BY ServicesStaySound DEF SoundRequest
<1>5. p \in {"filter", "listReply"} => \A sv \in f : SoundService(ms2, sk2, sv)
  BY ServicesStaySound DEF SoundRequest
<1>6. p = "peersReply" => \A m \in f : m \in Member /\ m.ip = nk2[m.dev]
  BY MemberLease DEF SoundRequest, Persist
<1>7. QED
  BY <1>1, <1>2, <1>3, <1>4, <1>5, <1>6 DEF SoundRequest

(***************************************************************************)
(* A step of request h keeps every request sound if the others stay sound  *)
(* and h's new state is.                                                   *)
(***************************************************************************)
LEMMA StepKeepsRequestsSound ==
  ASSUME TypeOK, RequestsSound, NEW h \in Handler,
         Persist(members, members', nodeByKey, nodeByKey', svcByKey, svcByKey'),
         NEW at \in Waiting \cup Answered \cup {"idle"},
         NEW m \in Member \cup {None}, NEW s \in Service \cup {None},
         NEW rest \in SUBSET Service, NEW found \in SUBSET (Member \cup Service),
         Step(h, at, m, s, rest, found),
         SoundRequest(members', nodeByKey', svcByKey', at, m, s, rest, found)
  PROVE  /\ RequestsSound'
         /\ pc' \in [Handler -> Waiting \cup Answered \cup {"idle"}]
         /\ who' \in [Handler -> Member \cup {None}]
         /\ svc' \in [Handler -> Service \cup {None}]
         /\ todo' \in [Handler -> SUBSET Service]
         /\ out' \in [Handler -> SUBSET (Member \cup Service)]
<1>1. /\ pc' \in [Handler -> Waiting \cup Answered \cup {"idle"}]
      /\ who' \in [Handler -> Member \cup {None}]
      /\ svc' \in [Handler -> Service \cup {None}]
      /\ todo' \in [Handler -> SUBSET Service]
      /\ out' \in [Handler -> SUBSET (Member \cup Service)]
  BY DEF TypeOK, Step
<1>2. ASSUME NEW g \in Handler
      PROVE  SoundRequest(members', nodeByKey', svcByKey', pc'[g], who'[g], svc'[g],
                          todo'[g], out'[g])
  <2>1. CASE g = h
    <3>1. /\ pc'[g] = at /\ who'[g] = m /\ svc'[g] = s /\ todo'[g] = rest
          /\ out'[g] = found
      BY <2>1 DEF TypeOK, Step
    <3>2. QED
      BY <3>1
  <2>2. CASE g # h
    <3>1. /\ pc'[g] = pc[g] /\ who'[g] = who[g] /\ svc'[g] = svc[g] /\ todo'[g] = todo[g]
          /\ out'[g] = out[g]
      BY <2>2 DEF TypeOK, Step
    <3>2. SoundRequest(members', nodeByKey', svcByKey', pc[g], who[g], svc[g], todo[g], out[g])
      BY RequestsStaySound DEF RequestsSound
    <3>3. QED
      BY <3>1, <3>2
  <2>3. QED
    BY <2>1, <2>2
<1>3. QED
  BY <1>1, <1>2 DEF RequestsSound

\* A handler that has answered or been refused is sound.
LEMMA RefusedIsSound ==
  ASSUME NEW ms, NEW nk, NEW sk
  PROVE  SoundRequest(ms, nk, sk, "idle", None, None, {}, {})
  BY DEF SoundRequest

-------------------------------------------------------------------------------
(* Steps that leave the store and the leases alone *)

\* A step of one handler that leaves the store and the allocators alone.
LEMMA QuietStep ==
  ASSUME ServerInv, UNCHANGED <<storeVars, nodeVars, svcVars, minted, epoch>>,
         NEW h \in Handler, NEW at \in Waiting \cup Answered \cup {"idle"},
         NEW m \in Member \cup {None}, NEW s \in Service \cup {None},
         NEW rest \in SUBSET Service, NEW found \in SUBSET (Member \cup Service),
         Step(h, at, m, s, rest, found),
         SoundRequest(members, nodeByKey, svcByKey, at, m, s, rest, found)
  PROVE  ServerInv'
<1> USE DEF storeVars, nodeVars, svcVars
<1>1. Persist(members, members', nodeByKey, nodeByKey', svcByKey, svcByKey')
  BY DEF Persist
<1>2. SoundRequest(members', nodeByKey', svcByKey', at, m, s, rest, found)
  OBVIOUS
<1>3. /\ RequestsSound'
      /\ pc' \in [Handler -> Waiting \cup Answered \cup {"idle"}]
      /\ who' \in [Handler -> Member \cup {None}]
      /\ svc' \in [Handler -> Service \cup {None}]
      /\ todo' \in [Handler -> SUBSET Service]
      /\ out' \in [Handler -> SUBSET (Member \cup Service)]
  BY <1>1, <1>2, StepKeepsRequestsSound DEF ServerInv
<1>4. Nodes!IpamInv' /\ ServiceIPs!IpamInv'
  BY DEF ServerInv, Nodes!IpamInv, Nodes!IpamTypeOK, Nodes!AddressesDistinct,
         Nodes!FieldsAgree, ServiceIPs!IpamInv, ServiceIPs!IpamTypeOK,
         ServiceIPs!AddressesDistinct, ServiceIPs!FieldsAgree
<1>5. TypeOK'
  BY <1>3, <1>4 DEF ServerInv, TypeOK, Nodes!IpamInv, ServiceIPs!IpamInv
<1>6. TokenIndexInStep' /\ MembersSound' /\ ServicesSound'
  BY DEF ServerInv, TokenIndexInStep, MembersSound, ServicesSound
<1>7. QED
  BY <1>3, <1>4, <1>5, <1>6 DEF ServerInv

(***************************************************************************)
(* The record a token finds is one of a member, at its leased address.     *)
(***************************************************************************)
LEMMA CallerIsMember ==
  ASSUME ServerInv, NEW t \in Token \cup {NoTok}, MemberByToken(t) # None
  PROVE  /\ MemberByToken(t) \in Member
         /\ members[MemberByToken(t).dev] # None
         /\ MemberByToken(t).ip = nodeByKey[MemberByToken(t).dev]
<1>1. t \in Token /\ MemberByToken(t) = byToken[t] /\ byToken[t] # None
  BY DEF MemberByToken
<1>2. byToken[t] \in Member /\ members[byToken[t].dev] = byToken[t]
  BY <1>1 DEF ServerInv, TypeOK, TokenIndexInStep
<1>3. byToken[t].dev \in Device
  BY <1>2 DEF Member
<1>4. QED
  BY <1>1, <1>2, <1>3 DEF ServerInv, MembersSound

\* ServerInv is preserved by an error answer (writeErr).
LEMMA RefusePreservesInv ==
  ASSUME ServerInv, NEW h \in Handler, Refuse(h),
         UNCHANGED <<storeVars, nodeVars, svcVars, minted, epoch>>
  PROVE  ServerInv'
<1>1. Step(h, "idle", None, None, {}, {})
  BY DEF Refuse
<1>2. QED
  BY <1>1, QuietStep, RefusedIsSound

\* ServerInv is preserved by the lookup of the caller (caller).
LEMMA AuthenticatePreservesInv ==
  ASSUME ServerInv, NEW h \in Handler, NEW t \in Token \cup {NoTok},
         NEW at \in {"peers", "list"}, Authenticate(h, t, at)
  PROVE  ServerInv'
<1> DEFINE m == MemberByToken(t)
<1>1. m \in Member /\ members[m.dev] # None /\ m.ip = nodeByKey[m.dev]
  BY CallerIsMember DEF Authenticate
<1>2. SoundRequest(members, nodeByKey, svcByKey, at, m, None, {}, {})
  BY <1>1 DEF SoundRequest
<1>3. at \in Waiting \cup Answered \cup {"idle"}
  BY DEF Waiting
<1> HIDE DEF m
<1>4. Step(h, at, m, None, {}, {})
  BY DEF Authenticate, m
<1>5. QED
  BY <1>1, <1>2, <1>3, <1>4, QuietStep DEF Authenticate

\* ServerInv is preserved by the peer list.
LEMMA PeersReplyPreservesInv ==
  ASSUME ServerInv, NEW h \in Handler, PeersReply(h)
  PROVE  ServerInv'
<1> DEFINE f == visiblePeers(who[h], Members)
<1>1. /\ who[h] \in Member
      /\ who[h].ip = nodeByKey[who[h].dev]
      /\ members[who[h].dev] # None
  BY DEF PeersReply, ServerInv, RequestsSound, SoundRequest
<1>2. f \subseteq Member /\ \A m \in f : m.ip = nodeByKey[m.dev]
  <2>1. ASSUME NEW m \in f PROVE m \in Member /\ m.ip = nodeByKey[m.dev]
    <3>1. PICK d \in Device : m = members[d] /\ m # None
      BY DEF visiblePeers, Members
    <3>2. m \in Member /\ m.dev = d
      BY <3>1 DEF ServerInv, TypeOK, TokenIndexInStep
    <3>3. QED
      BY <3>1, <3>2 DEF ServerInv, MembersSound
  <2>2. QED
    BY <2>1
<1>3. \E m \in f : m.dev = who[h].dev /\ m.ip = who[h].ip
  <2>1. who[h].dev \in Device
    BY <1>1 DEF Member
  <2>2. members[who[h].dev] \in f /\ members[who[h].dev].dev = who[h].dev
    BY <1>1, <2>1 DEF visiblePeers, Members, ServerInv, TokenIndexInStep
  <2>3. members[who[h].dev].ip = who[h].ip
    BY <1>1, <2>1 DEF ServerInv, MembersSound
  <2>4. QED
    BY <2>2, <2>3
<1> HIDE DEF f
<1>4. SoundRequest(members, nodeByKey, svcByKey, "peersReply", who[h], None, {}, f)
  BY <1>1, <1>2, <1>3 DEF SoundRequest
<1>5. Step(h, "peersReply", who[h], None, {}, f)
  BY DEF PeersReply, f
<1>6. QED
  BY <1>1, <1>2, <1>4, <1>5, QuietStep DEF PeersReply, Answered

\* ServerInv is preserved by the snapshot of the services.
LEMMA ListSnapshotPreservesInv ==
  ASSUME ServerInv, NEW h \in Handler, ListSnapshot(h)
  PROVE  ServerInv'
<1>1. SoundRequest(members, nodeByKey, svcByKey, "list", who[h], svc[h], todo[h], out[h])
  BY DEF ListSnapshot, ServerInv, RequestsSound
<1>2. \A sv \in Services : sv \in Service /\ SoundService(members, svcByKey, sv)
  BY DEF Services, ServerInv, ServicesSound, TypeOK
<1>3. SoundRequest(members, nodeByKey, svcByKey, "filter", who[h], None, Services, {})
  BY <1>1, <1>2 DEF SoundRequest
<1>4. who[h] \in Member
  BY <1>1 DEF SoundRequest
<1>5. Services \in SUBSET Service
  BY <1>2
<1>6. Step(h, "filter", who[h], None, Services, {})
  BY DEF ListSnapshot
<1>7. "filter" \in Waiting \cup Answered \cup {"idle"} /\ {} \in SUBSET (Member \cup Service)
  BY DEF Waiting
<1>8. UNCHANGED <<storeVars, nodeVars, svcVars, minted, epoch>>
  BY DEF ListSnapshot
<1>9. QED
  BY <1>3, <1>4, <1>5, <1>6, <1>7, <1>8, QuietStep

\* ServerInv is preserved by the filtering of one service of the snapshot.
LEMMA ListFilterPreservesInv ==
  ASSUME ServerInv, NEW h \in Handler, NEW sv \in todo[h], ListFilter(h, sv)
  PROVE  ServerInv'
<1> DEFINE f == IF visibleService(who[h], sv) THEN out[h] \cup {sv} ELSE out[h]
<1>1. SoundRequest(members, nodeByKey, svcByKey, "filter", who[h], svc[h], todo[h], out[h])
  BY DEF ListFilter, ServerInv, RequestsSound
<1>2. SoundService(members, svcByKey, sv) /\ sv \in Service
  BY <1>1 DEF SoundRequest, SoundService
<1>3. f \subseteq out[h] \cup {sv}
  OBVIOUS
<1> HIDE DEF f
<1>4. SoundRequest(members, nodeByKey, svcByKey, "filter", who[h], None, todo[h] \ {sv}, f)
  BY <1>1, <1>2, <1>3 DEF SoundRequest
<1>5. /\ who[h] \in Member
      /\ f \in SUBSET (Member \cup Service)
      /\ todo[h] \ {sv} \in SUBSET Service
  BY <1>1, <1>2, <1>3 DEF SoundRequest, ServerInv, TypeOK
<1>6. Step(h, "filter", who[h], None, todo[h] \ {sv}, f)
  BY DEF ListFilter, f
<1>7. QED
  BY <1>4, <1>5, <1>6, QuietStep DEF ListFilter, Waiting

\* ServerInv is preserved by the service list.
LEMMA ListReplyPreservesInv ==
  ASSUME ServerInv, NEW h \in Handler, ListReply(h)
  PROVE  ServerInv'
<1>1. SoundRequest(members, nodeByKey, svcByKey, "filter", who[h], svc[h], todo[h], out[h])
  BY DEF ListReply, ServerInv, RequestsSound
<1>2. SoundRequest(members, nodeByKey, svcByKey, "listReply", who[h], None, {}, out[h])
  BY <1>1 DEF SoundRequest
<1>3. who[h] \in Member /\ out[h] \in SUBSET (Member \cup Service)
  BY <1>1 DEF SoundRequest, ServerInv, TypeOK
<1>4. QED
  BY <1>2, <1>3, QuietStep DEF ListReply, Answered

\* ServerInv is preserved by the checks at the start of a publication.
LEMMA PublishAuthPreservesInv ==
  ASSUME ServerInv, NEW h \in Handler, NEW t \in Token, NEW n \in Name \cup {NoName},
         NEW node, NEW allow \in AllowList, PublishAuth(h, t, n, node, allow)
  PROVE  ServerInv'
<1> DEFINE c == MemberByToken(t)
           s == [name |-> n, node |-> c.ip, vip |-> NoAddr, allow |-> cleanGroups(allow)]
<1>1. CASE Refuse(h)
  BY <1>1, RefusePreservesInv DEF PublishAuth
<1>2. CASE n # NoName /\ Step(h, "lease", c, s, {}, {})
  <2>1. c \in Member /\ members[c.dev] # None /\ c.ip = nodeByKey[c.dev]
    BY CallerIsMember DEF PublishAuth
  <2>2. cleanGroups(allow) \in SUBSET Spelling
    BY ServerConstants DEF cleanGroups
  <2>3. s \in Service /\ s.node = c.ip
    BY <1>2, <2>1, <2>2 DEF Service, Member
  <2> HIDE DEF c, s
  <2>4. SoundRequest(members, nodeByKey, svcByKey, "lease", c, s, {}, {})
    BY <2>1, <2>3 DEF SoundRequest
  <2>5. QED
    BY <1>2, <2>1, <2>3, <2>4, QuietStep DEF PublishAuth, Waiting
<1>3. QED
  BY <1>1, <1>2 DEF PublishAuth

-------------------------------------------------------------------------------
(* Steps that lease an address *)

(***************************************************************************)
(* The store is untouched and every lease persists: what is left to show   *)
(* is that the step's own request is sound.                                *)
(***************************************************************************)
LEMMA LeaseStep ==
  ASSUME ServerInv, UNCHANGED <<storeVars, minted, epoch>>,
         Nodes!IpamInv', ServiceIPs!IpamInv',
         Persist(members, members', nodeByKey, nodeByKey', svcByKey, svcByKey'),
         NEW h \in Handler, NEW at \in Waiting \cup Answered \cup {"idle"},
         NEW m \in Member \cup {None}, NEW s \in Service \cup {None},
         Step(h, at, m, s, {}, {}),
         SoundRequest(members', nodeByKey', svcByKey', at, m, s, {}, {})
  PROVE  ServerInv'
<1> USE DEF storeVars
<1>1. /\ RequestsSound'
      /\ pc' \in [Handler -> Waiting \cup Answered \cup {"idle"}]
      /\ who' \in [Handler -> Member \cup {None}]
      /\ svc' \in [Handler -> Service \cup {None}]
      /\ todo' \in [Handler -> SUBSET Service]
      /\ out' \in [Handler -> SUBSET (Member \cup Service)]
  <2>1. {} \in SUBSET Service /\ {} \in SUBSET (Member \cup Service)
    OBVIOUS
  <2>2. QED
    BY <2>1, StepKeepsRequestsSound DEF ServerInv
<1>2. TypeOK'
  BY <1>1 DEF ServerInv, TypeOK, Nodes!IpamInv, ServiceIPs!IpamInv
<1>3. TokenIndexInStep'
  BY DEF ServerInv, TokenIndexInStep
<1>4. MembersSound'
  <2> SUFFICES ASSUME NEW d \in Device, members[d] # None
               PROVE  members[d].ip = nodeByKey'[d]
    BY DEF MembersSound
  <2>1. members[d] \in Member /\ members[d].dev = d /\ members[d].ip = nodeByKey[d]
    BY DEF ServerInv, TypeOK, MembersSound, TokenIndexInStep
  <2>2. nodeByKey[d] # NoAddr
    BY <2>1, ServerConstants DEF Member, Nodes!Hosts, Nodes!Prefix
  <2>3. nodeByKey'[d] = nodeByKey[d]
    BY <2>2 DEF Persist
  <2>4. QED
    BY <2>1, <2>3
<1>5. ServicesSound'
  BY ServicesStaySound DEF ServerInv, ServicesSound
<1>6. QED
  BY <1>1, <1>2, <1>3, <1>4, <1>5 DEF ServerInv

\* ServerInv is preserved by the lease of a registration.
LEMMA RegisterLeasePreservesInv ==
  ASSUME ServerInv, NEW h \in Handler, NEW d \in Device, NEW jt \in JoinToken, NEW ip,
         RegisterLease(h, d, jt, ip)
  PROVE  ServerInv'
<1> DEFINE m == [dev |-> d, group |-> JoinGroup[jt], ip |-> ip, token |-> NoTok]
<1>1. /\ Nodes!IpamInv'
      /\ ip \in Nodes!Hosts
      /\ nodeByKey'[d] = ip
      /\ \A e \in Device : nodeByKey[e] # NoAddr => nodeByKey'[e] = nodeByKey[e]
  BY NodesAllocate DEF RegisterLease, ServerInv
<1>2. ServiceIPs!IpamInv'
  BY DEF RegisterLease, svcVars, ServerInv, ServiceIPs!IpamInv, ServiceIPs!IpamTypeOK,
         ServiceIPs!AddressesDistinct, ServiceIPs!FieldsAgree
<1>3. Persist(members, members', nodeByKey, nodeByKey', svcByKey, svcByKey')
  BY <1>1 DEF RegisterLease, Persist, storeVars, svcVars
<1>4. m \in Member
  BY <1>1, ServerConstants DEF RegisterLease, Member
<1>5. SoundRequest(members', nodeByKey', svcByKey', "upsert", m, None, {}, {})
  BY <1>1, <1>4 DEF SoundRequest
<1> HIDE DEF m
<1>6. Step(h, "upsert", m, None, {}, {})
  BY DEF RegisterLease, m
<1>7. QED
  BY <1>1, <1>2, <1>3, <1>4, <1>5, <1>6, LeaseStep DEF RegisterLease, Waiting

\* ServerInv is preserved by a registration that finds no address.
LEMMA RegisterExhaustedPreservesInv ==
  ASSUME ServerInv, NEW h \in Handler, NEW d \in Device, NEW jt \in JoinToken,
         RegisterExhausted(h, d, jt)
  PROVE  ServerInv'
<1>1. Nodes!IpamInv' /\ nodeByKey' = nodeByKey
  BY NodesAllocateFails DEF RegisterExhausted, ServerInv
<1>2. ServiceIPs!IpamInv'
  BY DEF RegisterExhausted, svcVars, ServerInv, ServiceIPs!IpamInv, ServiceIPs!IpamTypeOK,
         ServiceIPs!AddressesDistinct, ServiceIPs!FieldsAgree
<1>3. Persist(members, members', nodeByKey, nodeByKey', svcByKey, svcByKey')
  BY <1>1 DEF RegisterExhausted, Persist, storeVars, svcVars
<1>4. Step(h, "idle", None, None, {}, {})
  BY DEF RegisterExhausted, Refuse
<1>5. QED
  BY <1>1, <1>2, <1>3, <1>4, LeaseStep, RefusedIsSound DEF RegisterExhausted

\* ServerInv is preserved by the lease of a publication.
LEMMA PublishLeasePreservesInv ==
  ASSUME ServerInv, NEW h \in Handler, NEW vip, PublishLease(h, vip)
  PROVE  ServerInv'
<1> DEFINE s == [svc[h] EXCEPT !.vip = vip]
<1>1. SoundRequest(members, nodeByKey, svcByKey, "lease", who[h], svc[h], todo[h], out[h])
  BY DEF PublishLease, ServerInv, RequestsSound
<1>2. svc[h] \in Service /\ svc[h].name \in Name
  BY <1>1 DEF SoundRequest, Service
<1>3. /\ ServiceIPs!IpamInv'
      /\ vip \in ServiceIPs!Hosts
      /\ svcByKey'[svc[h].name] = vip
      /\ \A n \in Name : svcByKey[n] # NoAddr => svcByKey'[n] = svcByKey[n]
  BY <1>2, ServiceIPsAllocate DEF PublishLease, ServerInv
<1>4. Nodes!IpamInv'
  BY DEF PublishLease, nodeVars, ServerInv, Nodes!IpamInv, Nodes!IpamTypeOK,
         Nodes!AddressesDistinct, Nodes!FieldsAgree
<1>5. Persist(members, members', nodeByKey, nodeByKey', svcByKey, svcByKey')
  BY <1>3 DEF PublishLease, Persist, storeVars, nodeVars
<1>6. s \in Service /\ s.vip = vip /\ s.name = svc[h].name /\ s.node = svc[h].node
  BY <1>2, <1>3 DEF Service
<1>7. vip # NoAddr
  BY <1>3, ServerConstants DEF ServiceIPs!Hosts, ServiceIPs!Prefix
<1>8. UNCHANGED <<members, nodeByKey>>
  BY DEF PublishLease, storeVars, nodeVars
<1> HIDE DEF s
<1>9. SoundRequest(members', nodeByKey', svcByKey', "store", who[h], s, {}, {})
  BY <1>1, <1>3, <1>6, <1>7, <1>8 DEF SoundRequest
<1>10. Step(h, "store", who[h], s, {}, {})
  BY DEF PublishLease, s
<1>11. who[h] \in Member
  BY <1>1 DEF SoundRequest
<1>12. QED
  BY <1>3, <1>4, <1>5, <1>6, <1>9, <1>10, <1>11, LeaseStep DEF PublishLease, Waiting

\* ServerInv is preserved by a publication that finds no address.
LEMMA PublishExhaustedPreservesInv ==
  ASSUME ServerInv, NEW h \in Handler, PublishExhausted(h)
  PROVE  ServerInv'
<1>1. SoundRequest(members, nodeByKey, svcByKey, "lease", who[h], svc[h], todo[h], out[h])
  BY DEF PublishExhausted, ServerInv, RequestsSound
<1>2. svc[h].name \in Name
  BY <1>1 DEF SoundRequest, Service
<1>3. ServiceIPs!IpamInv' /\ svcByKey' = svcByKey
  BY <1>2, ServiceIPsAllocateFails DEF PublishExhausted, ServerInv
<1>4. Nodes!IpamInv'
  BY DEF PublishExhausted, nodeVars, ServerInv, Nodes!IpamInv, Nodes!IpamTypeOK,
         Nodes!AddressesDistinct, Nodes!FieldsAgree
<1>5. Persist(members, members', nodeByKey, nodeByKey', svcByKey, svcByKey')
  BY <1>3 DEF PublishExhausted, Persist, storeVars, nodeVars
<1>6. Step(h, "idle", None, None, {}, {})
  BY DEF PublishExhausted, Refuse
<1>7. QED
  BY <1>3, <1>4, <1>5, <1>6, LeaseStep, RefusedIsSound DEF PublishExhausted

-------------------------------------------------------------------------------
(* Steps that change the store *)

(***************************************************************************)
(* Upsert of a device's new record under a token minted for it.            *)
(***************************************************************************)
LEMMA UpsertKeepsIndex ==
  ASSUME ServerInv, NEW m \in Member, NEW t \in Token \ minted, m.token = t, Upsert(m),
         minted' = minted \cup {t}
  PROVE  /\ TokenIndexInStep'
         /\ members' \in [Device -> Member \cup {None}]
         /\ byToken' \in [Token -> Member \cup {None}]
<1> DEFINE prev == members[m.dev]
<1>1. m.dev \in Device
  BY DEF Member
<1>2. m # None
  BY NoneIsNoRecord
<1>3. members' = [members EXCEPT ![m.dev] = m] /\ members \in [Device -> Member \cup {None}]
  BY DEF Upsert, ServerInv, TypeOK
<1>4. /\ byToken' \in [Token -> Member \cup {None}]
      /\ byToken'[t] = m
      /\ \A u \in Token \ {t} :
           byToken'[u] = IF prev # None /\ u = prev.token THEN None ELSE byToken[u]
  <2>1. byToken \in [Token -> Member \cup {None}]
    BY DEF ServerInv, TypeOK
  <2>2. CASE prev = None
    BY <2>1, <2>2 DEF Upsert
  <2>3. CASE prev # None
    <3>1. byToken' = [[byToken EXCEPT ![prev.token] = None] EXCEPT ![t] = m]
      BY <2>3 DEF Upsert
    <3>2. QED
      BY <2>1, <2>3, <3>1
  <2>4. QED
    BY <2>2, <2>3
<1>5. ASSUME NEW d \in Device, members'[d] # None
      PROVE  /\ members'[d].dev = d
             /\ members'[d].token \in minted'
             /\ byToken'[members'[d].token] = members'[d]
  <2>1. CASE d = m.dev
    BY <1>3, <1>4, <2>1
  <2>2. CASE d # m.dev
    <3>1. members'[d] = members[d]
      BY <1>3, <2>2
    <3>2. /\ members[d].dev = d
          /\ members[d].token \in minted
          /\ byToken[members[d].token] = members[d]
      BY <1>5, <3>1 DEF ServerInv, TokenIndexInStep
    <3>3. members[d].token # t /\ members[d].token \in Token
      BY <3>2 DEF ServerInv, TypeOK
    <3>4. prev # None => prev.token # members[d].token
      BY <1>1, <2>2, <3>2 DEF ServerInv, TokenIndexInStep
    <3>5. QED
      BY <1>4, <3>1, <3>2, <3>3, <3>4
  <2>3. QED
    BY <2>1, <2>2
<1>6. ASSUME NEW u \in Token, byToken'[u] # None
      PROVE  byToken'[u].token = u /\ members'[byToken'[u].dev] = byToken'[u]
  <2>1. CASE u = t
    BY <1>1, <1>3, <1>4, <2>1
  <2>2. CASE u # t
    <3>1. byToken'[u] = byToken[u] /\ ~(prev # None /\ u = prev.token)
      BY <1>4, <1>6, <2>2
    <3>2. byToken[u].token = u /\ members[byToken[u].dev] = byToken[u] /\ byToken[u] # None
      BY <1>6, <3>1 DEF ServerInv, TokenIndexInStep
    <3>3. byToken[u].dev # m.dev
      BY <3>1, <3>2
    <3>4. byToken[u].dev \in Device
      BY <3>2 DEF ServerInv, TypeOK, Member
    <3>5. QED
      BY <1>3, <3>1, <3>2, <3>3, <3>4
  <2>3. QED
    BY <2>1, <2>2
<1>7. QED
  BY <1>3, <1>4, <1>5, <1>6 DEF TokenIndexInStep

\* ServerInv is preserved by the Upsert of a registration.
LEMMA RegisterUpsertPreservesInv ==
  ASSUME ServerInv, NEW h \in Handler, NEW t \in Token, RegisterUpsert(h, t)
  PROVE  ServerInv'
<1> DEFINE m == [who[h] EXCEPT !.token = t]
<1>1. who[h] \in Member /\ who[h].ip = nodeByKey[who[h].dev]
  BY DEF RegisterUpsert, ServerInv, RequestsSound, SoundRequest
<1>2. m \in Member /\ m.token = t /\ m.dev = who[h].dev /\ m.ip = nodeByKey[m.dev]
  BY <1>1 DEF Member
<1>3. m.dev \in Device /\ m # None
  BY <1>2, NoneIsNoRecord DEF Member
<1> HIDE DEF m
<1>4. Upsert(m) /\ Step(h, "registered", m, None, {}, {})
  BY DEF RegisterUpsert, m
<1>5. /\ TokenIndexInStep'
      /\ members' \in [Device -> Member \cup {None}]
      /\ byToken' \in [Token -> Member \cup {None}]
  BY <1>2, <1>4, UpsertKeepsIndex DEF RegisterUpsert
<1>6. UNCHANGED <<nodeVars, svcVars, epoch, services>> /\ minted' \subseteq Token
  BY <1>4 DEF RegisterUpsert, Upsert, ServerInv, TypeOK
<1>7. members' = [members EXCEPT ![m.dev] = m] /\ members \in [Device -> Member \cup {None}]
  BY <1>4 DEF Upsert, ServerInv, TypeOK
<1>8. Persist(members, members', nodeByKey, nodeByKey', svcByKey, svcByKey')
  BY <1>2, <1>3, <1>6, <1>7 DEF Persist, nodeVars, svcVars, ServerInv, MembersSound
<1>9. Nodes!IpamInv' /\ ServiceIPs!IpamInv'
  BY <1>6 DEF nodeVars, svcVars, ServerInv, Nodes!IpamInv, Nodes!IpamTypeOK,
     Nodes!AddressesDistinct, Nodes!FieldsAgree, ServiceIPs!IpamInv, ServiceIPs!IpamTypeOK,
     ServiceIPs!AddressesDistinct, ServiceIPs!FieldsAgree
<1>10. MembersSound'
  BY <1>2, <1>3, <1>6, <1>7 DEF nodeVars, ServerInv, MembersSound
<1>11. ServicesSound'
  BY <1>6, <1>8, ServicesStaySound DEF ServerInv, ServicesSound
<1>12. SoundRequest(members', nodeByKey', svcByKey', "registered", m, None, {}, {})
  BY <1>2, <1>3, <1>6, <1>7 DEF SoundRequest, nodeVars
<1>13. /\ RequestsSound'
       /\ pc' \in [Handler -> Waiting \cup Answered \cup {"idle"}]
       /\ who' \in [Handler -> Member \cup {None}]
       /\ svc' \in [Handler -> Service \cup {None}]
       /\ todo' \in [Handler -> SUBSET Service]
       /\ out' \in [Handler -> SUBSET (Member \cup Service)]
  <2>1. /\ {} \in SUBSET Service /\ {} \in SUBSET (Member \cup Service)
        /\ "registered" \in Waiting \cup Answered \cup {"idle"}
    BY DEF Answered
  <2>2. QED
    BY <1>2, <1>4, <1>8, <1>12, <2>1, StepKeepsRequestsSound DEF ServerInv
<1>14. TypeOK'
  BY <1>5, <1>6, <1>9, <1>13 DEF ServerInv, TypeOK, Nodes!IpamInv, ServiceIPs!IpamInv
<1>15. QED
  BY <1>5, <1>9, <1>10, <1>11, <1>13, <1>14 DEF ServerInv

\* ServerInv is preserved by the UpsertService of a publication.
LEMMA PublishStorePreservesInv ==
  ASSUME ServerInv, NEW h \in Handler, PublishStore(h)
  PROVE  ServerInv'
<1> DEFINE s == svc[h]
<1> USE DEF nodeVars, svcVars
<1>1. SoundRequest(members, nodeByKey, svcByKey, "store", who[h], s, todo[h], out[h])
  BY DEF PublishStore, ServerInv, RequestsSound
<1>2. who[h] \in Member /\ who[h].dev \in Device /\ s \in Service /\ s.name \in Name
  BY <1>1 DEF SoundRequest, Member, Service
<1>3. SoundService(members, svcByKey, s)
  <2>1. members[who[h].dev] # None /\ members[who[h].dev].ip = s.node
    BY <1>1, <1>2 DEF SoundRequest, ServerInv, MembersSound
  <2>2. QED
    BY <1>1, <1>2, <2>1 DEF SoundRequest, SoundService
<1>4. UNCHANGED <<members, byToken, nodeVars, svcVars, minted, epoch>>
  BY DEF PublishStore
<1>5. services' = [services EXCEPT ![s.name] = s] /\ services \in [Name -> Service \cup {None}]
  BY DEF PublishStore, ServerInv, TypeOK
<1> HIDE DEF s
<1>6. ServicesSound'
  BY <1>2, <1>3, <1>4, <1>5 DEF ServerInv, ServicesSound
<1>7. Persist(members, members', nodeByKey, nodeByKey', svcByKey, svcByKey')
  BY <1>4 DEF Persist
<1>8. SoundRequest(members', nodeByKey', svcByKey', "published", who[h], s, {}, {})
  BY <1>1, <1>4 DEF SoundRequest
<1>9. /\ RequestsSound'
      /\ pc' \in [Handler -> Waiting \cup Answered \cup {"idle"}]
      /\ who' \in [Handler -> Member \cup {None}]
      /\ svc' \in [Handler -> Service \cup {None}]
      /\ todo' \in [Handler -> SUBSET Service]
      /\ out' \in [Handler -> SUBSET (Member \cup Service)]
  <2>1. /\ {} \in SUBSET Service /\ {} \in SUBSET (Member \cup Service)
        /\ "published" \in Waiting \cup Answered \cup {"idle"}
    BY DEF Answered
  <2>2. Step(h, "published", who[h], s, {}, {})
    BY DEF PublishStore, s
  <2>3. QED
    BY <1>2, <1>7, <1>8, <2>1, <2>2, StepKeepsRequestsSound DEF ServerInv
<1>10. Nodes!IpamInv' /\ ServiceIPs!IpamInv'
  BY <1>4 DEF ServerInv, Nodes!IpamInv, Nodes!IpamTypeOK,
     Nodes!AddressesDistinct, Nodes!FieldsAgree, ServiceIPs!IpamInv, ServiceIPs!IpamTypeOK,
     ServiceIPs!AddressesDistinct, ServiceIPs!FieldsAgree
<1>11. TypeOK'
  BY <1>2, <1>4, <1>5, <1>9, <1>10 DEF ServerInv, TypeOK, Nodes!IpamInv, ServiceIPs!IpamInv
<1>12. TokenIndexInStep' /\ MembersSound'
  BY <1>4 DEF ServerInv, TokenIndexInStep, MembersSound
<1>13. QED
  BY <1>6, <1>9, <1>10, <1>11, <1>12 DEF ServerInv

\* A restart, which empties everything, establishes ServerInv.
LEMMA RestartEstablishesInv ==
  ASSUME ServerInv, Restart
  PROVE  ServerInv'
<1>1. Nodes!IpamInv' /\ ServiceIPs!IpamInv'
  BY NodesInit, ServiceIPsInit DEF Restart
<1>2. TypeOK'
  BY <1>1, ServerConstants DEF Restart, ServerInv, TypeOK, Nodes!IpamInv, ServiceIPs!IpamInv
<1>3. TokenIndexInStep' /\ MembersSound' /\ ServicesSound'
  BY DEF Restart, TokenIndexInStep, MembersSound, ServicesSound
<1>4. RequestsSound'
  BY RefusedIsSound DEF Restart, RequestsSound
<1>5. QED
  BY <1>1, <1>2, <1>3, <1>4 DEF ServerInv

-------------------------------------------------------------------------------
(* The theorems *)

\* The initial states satisfy ServerInv.
LEMMA ServerInitInv == Init => ServerInv
<1> SUFFICES ASSUME Init PROVE ServerInv
  OBVIOUS
<1>1. Nodes!IpamInv /\ ServiceIPs!IpamInv
  BY NodesInit, ServiceIPsInit DEF Init
<1>2. TypeOK
  BY <1>1, ServerConstants DEF Init, TypeOK, Nodes!IpamInv, ServiceIPs!IpamInv
<1>3. TokenIndexInStep /\ MembersSound /\ ServicesSound
  BY DEF Init, TokenIndexInStep, MembersSound, ServicesSound
<1>4. RequestsSound
  BY RefusedIsSound DEF Init, RequestsSound
<1>5. QED
  BY <1>1, <1>2, <1>3, <1>4 DEF ServerInv

\* Every step preserves ServerInv: one case for each step of a handler.
LEMMA ServerNextInv == ServerInv /\ [Next]_vars => ServerInv'
<1> SUFFICES ASSUME ServerInv, [Next]_vars PROVE ServerInv'
  OBVIOUS
<1>1. CASE Restart
  BY <1>1, RestartEstablishesInv
<1>2. ASSUME NEW h \in Handler, Register(h) PROVE ServerInv'
  <2>1. ASSUME NEW d \in Device \cup {NoDevice}, NEW jt \in JoinToken,
               RegisterReject(h, d, jt)
        PROVE  ServerInv'
    BY <2>1, RefusePreservesInv DEF RegisterReject
  <2>2. ASSUME NEW d \in Device, NEW jt \in JoinToken, RegisterExhausted(h, d, jt)
        PROVE  ServerInv'
    BY <2>2, RegisterExhaustedPreservesInv
  <2>3. ASSUME NEW d \in Device, NEW jt \in JoinToken, NEW ip \in Nodes!Prefix,
               RegisterLease(h, d, jt, ip)
        PROVE  ServerInv'
    BY <2>3, RegisterLeasePreservesInv
  <2>4. ASSUME NEW t \in Token, RegisterUpsert(h, t) PROVE ServerInv'
    BY <2>4, RegisterUpsertPreservesInv
  <2>5. CASE RegisterNoToken(h)
    BY <2>5, RefusePreservesInv DEF RegisterNoToken
  <2>6. QED
    BY <1>2, <2>1, <2>2, <2>3, <2>4, <2>5 DEF Register
<1>3. ASSUME NEW h \in Handler, List(h) PROVE ServerInv'
  <2>1. ASSUME NEW t \in Token \cup {NoTok}, Unauthorized(h, t) PROVE ServerInv'
    BY <2>1, RefusePreservesInv DEF Unauthorized
  <2>2. ASSUME NEW t \in Token \cup {NoTok}, PeersAuth(h, t) \/ ListAuth(h, t)
        PROVE  ServerInv'
    BY <2>2, AuthenticatePreservesInv DEF PeersAuth, ListAuth
  <2>3. CASE PeersReply(h)
    BY <2>3, PeersReplyPreservesInv
  <2>4. CASE ListSnapshot(h)
    BY <2>4, ListSnapshotPreservesInv
  <2>5. ASSUME NEW sv \in todo[h], ListFilter(h, sv) PROVE ServerInv'
    BY <2>5, ListFilterPreservesInv
  <2>6. CASE ListReply(h)
    BY <2>6, ListReplyPreservesInv
  <2>7. QED
    BY <1>3, <2>1, <2>2, <2>3, <2>4, <2>5, <2>6 DEF List
<1>4. ASSUME NEW h \in Handler, Publish(h) PROVE ServerInv'
  <2>1. ASSUME NEW t \in Token, NEW n \in Name \cup {NoName},
               NEW node \in Nodes!Hosts \cup {NoAddr}, NEW allow \in AllowList,
               PublishAuth(h, t, n, node, allow)
        PROVE  ServerInv'
    BY <2>1, PublishAuthPreservesInv
  <2>2. ASSUME NEW vip \in ServiceIPs!Prefix, PublishLease(h, vip) PROVE ServerInv'
    BY <2>2, PublishLeasePreservesInv
  <2>3. CASE PublishExhausted(h)
    BY <2>3, PublishExhaustedPreservesInv
  <2>4. CASE PublishStore(h)
    BY <2>4, PublishStorePreservesInv
  <2>5. QED
    BY <1>4, <2>1, <2>2, <2>3, <2>4 DEF Publish
<1>5. CASE UNCHANGED vars
  BY <1>5 DEF vars, storeVars, nodeVars, svcVars, reqVars, ServerInv, TypeOK,
     Nodes!IpamInv, Nodes!IpamTypeOK, Nodes!AddressesDistinct, Nodes!FieldsAgree,
     ServiceIPs!IpamInv, ServiceIPs!IpamTypeOK, ServiceIPs!AddressesDistinct,
     ServiceIPs!FieldsAgree, TokenIndexInStep, MembersSound, ServicesSound, RequestsSound
<1>6. QED
  BY <1>1, <1>2, <1>3, <1>4, <1>5 DEF Next

(***************************************************************************)
(* The inductive invariant holds throughout.                               *)
(***************************************************************************)
THEOREM ServerSound == Spec => []ServerInv
  BY ServerInitInv, ServerNextInv, PTL DEF Spec

(***************************************************************************)
(* Every variable of the server keeps its type.                            *)
(***************************************************************************)
THEOREM ServerTypeCorrect == Spec => []TypeOK
<1>1. ServerInv => TypeOK
  BY DEF ServerInv
<1>2. QED
  BY <1>1, ServerSound, PTL

(***************************************************************************)
(* The token index never falls out of step with the members (store.go:65). *)
(***************************************************************************)
THEOREM TokenIndexCorrect == Spec => []TokenIndexInStep
<1>1. ServerInv => TokenIndexInStep
  BY DEF ServerInv
<1>2. QED
  BY <1>1, ServerSound, PTL

(***************************************************************************)
(* Whoever acts as a device has the address leased to it (api.go:95-142).  *)
(***************************************************************************)
THEOREM AddressesCorrect == Spec => []AddressFollowsLease
<1>1. ServerInv => AddressFollowsLease
  BY DEF ServerInv, MembersSound, AddressFollowsLease, RequestsSound, SoundRequest
<1>2. QED
  BY <1>1, ServerSound, PTL

(***************************************************************************)
(* Every stored service is on a member's node at its name's own address    *)
(* (api.go:206-249).                                                       *)
(***************************************************************************)
THEOREM ServicesCorrect == Spec => []ServiceIsHosted
<1>1. ServerInv => ServiceIsHosted
  BY DEF ServerInv, ServicesSound, SoundService, ServiceIsHosted
<1>2. QED
  BY <1>1, ServerSound, PTL

(***************************************************************************)
(* An address belongs to one member or to one service: within one          *)
(* allocator leases are distinct, and the ranges of the two are disjoint.  *)
(***************************************************************************)
THEOREM AddressesNeverShared == Spec => []AddressesUnique
<1>1. ServerInv => \A d, e \in Device :
        members[d] # None /\ members[e] # None /\ members[d].ip = members[e].ip => d = e
  <2> SUFFICES ASSUME ServerInv, NEW d \in Device, NEW e \in Device,
                      members[d] # None, members[e] # None, members[d].ip = members[e].ip
               PROVE  d = e
    OBVIOUS
  <2>1. nodeByKey[d] = nodeByKey[e] /\ nodeByKey[d] \in Nodes!Hosts
    BY DEF ServerInv, MembersSound, TypeOK, Member
  <2>2. nodeByKey[d] # NoAddr
    BY <2>1, ServerConstants DEF Nodes!Hosts, Nodes!Prefix
  <2>3. QED
    BY <2>1, <2>2 DEF ServerInv, Nodes!IpamInv, Nodes!AddressesDistinct
<1>2. ServerInv => \A n \in Name : services[n] # None =>
        /\ \A k \in Name \ {n} : services[k] # None => services[k].vip # services[n].vip
        /\ \A d \in Device : members[d] # None => members[d].ip # services[n].vip
  <2> SUFFICES ASSUME ServerInv, NEW n \in Name, services[n] # None
               PROVE  /\ \A k \in Name \ {n} :
                           services[k] # None => services[k].vip # services[n].vip
                      /\ \A d \in Device :
                           members[d] # None => members[d].ip # services[n].vip
    OBVIOUS
  <2>1. services[n].vip = svcByKey[n] /\ svcByKey[n] # NoAddr
    BY DEF ServerInv, ServicesSound, SoundService
  <2>2. \A k \in Name \ {n} : services[k] # None => services[k].vip # services[n].vip
    BY <2>1 DEF ServerInv, ServicesSound, SoundService, ServiceIPs!IpamInv,
       ServiceIPs!AddressesDistinct
  <2>3. \A d \in Device : members[d] # None => members[d].ip # services[n].vip
    <3>1. svcByKey[n] \in ServiceIPs!Hosts
      BY <2>1 DEF ServerInv, ServiceIPs!IpamInv, ServiceIPs!IpamTypeOK
    <3>2. \A d \in Device : members[d] # None => members[d].ip \in Nodes!Hosts
      BY DEF ServerInv, TypeOK, Member
    <3>3. QED
      BY <2>1, <3>1, <3>2, ServerConstants
         DEF Nodes!Hosts, Nodes!Prefix, ServiceIPs!Hosts, ServiceIPs!Prefix
  <2>4. QED
    BY <2>2, <2>3
<1>3. ServerInv => AddressesUnique
  BY <1>1, <1>2 DEF AddressesUnique
<1>4. QED
  BY <1>3, ServerSound, PTL

(***************************************************************************)
(* A service a member may see is always on a node it is given as a peer.   *)
(***************************************************************************)
THEOREM VisibleServicesReachable == Spec => []VisibleServiceIsReachable
<1>1. ServerInv => VisibleServiceIsReachable
  <2> SUFFICES ASSUME ServerInv, NEW d \in Device, NEW n \in Name,
                      members[d] # None, services[n] # None,
                      visibleService(members[d], services[n])
               PROVE  \E p \in visiblePeers(members[d], Members) : p.ip = services[n].node
    BY DEF VisibleServiceIsReachable
  <2>1. CASE services[n].node = members[d].ip
    BY <2>1 DEF visiblePeers, Members
  <2>2. CASE services[n].node # members[d].ip
    <3>1. PICK host \in MembersByIP(services[n].node) :
            Connected(Rules, members[d].group, host.group)
      BY <2>2 DEF visibleService
    <3>2. host \in Members /\ host.ip = services[n].node
      BY DEF MembersByIP, Members
    <3>3. QED
      BY <3>1, <3>2 DEF visiblePeers
  <2>3. QED
    BY <2>1, <2>2
<1>2. QED
  BY <1>1, ServerSound, PTL

(***************************************************************************)
(* A device is in its own peer list, and the addresses of an answer stay   *)
(* right, whatever happened while the answer was put together and since.   *)
(***************************************************************************)
THEOREM AnswersCorrect == Spec => [](SelfInPeerList /\ AnswersStayRoutable)
<1>1. ServerInv => SelfInPeerList /\ AnswersStayRoutable
  BY DEF ServerInv, RequestsSound, SoundRequest, SoundService, SelfInPeerList,
         AnswersStayRoutable
<1>2. QED
  BY <1>1, ServerSound, PTL

-------------------------------------------------------------------------------
(* What a step may do to the store *)

(***************************************************************************)
(* The store changes in three ways only.                                   *)
(***************************************************************************)
LEMMA StoreSteps ==
  ASSUME [Next]_vars
  PROVE  \/ Restart
         \/ \E h \in Handler, t \in Token : RegisterUpsert(h, t)
         \/ \E h \in Handler : PublishStore(h)
         \/ UNCHANGED <<storeVars, minted, epoch>>
<1> DEFINE Same == UNCHANGED <<storeVars, minted, epoch>>
<1>1. CASE UNCHANGED vars
  BY <1>1 DEF vars
<1>2. ASSUME NEW h \in Handler, Register(h)
      PROVE  Same \/ \E t \in Token : RegisterUpsert(h, t)
  <2>1. ASSUME NEW d, NEW jt, RegisterReject(h, d, jt) PROVE Same
    BY <2>1 DEF RegisterReject
  <2>2. ASSUME NEW d, NEW jt, RegisterExhausted(h, d, jt) PROVE Same
    BY <2>2 DEF RegisterExhausted
  <2>3. ASSUME NEW d, NEW jt, NEW ip, RegisterLease(h, d, jt, ip) PROVE Same
    BY <2>3 DEF RegisterLease
  <2>4. RegisterNoToken(h) => Same
    BY DEF RegisterNoToken
  <2>5. QED
    BY <1>2, <2>1, <2>2, <2>3, <2>4 DEF Register
<1>3. ASSUME NEW h \in Handler, List(h) PROVE Same
  <2>1. ASSUME NEW t PROVE (Unauthorized(h, t) \/ PeersAuth(h, t) \/ ListAuth(h, t)) => Same
    BY DEF Unauthorized, PeersAuth, ListAuth, Authenticate
  <2>2. (PeersReply(h) \/ ListSnapshot(h) \/ ListReply(h)) => Same
    BY DEF PeersReply, ListSnapshot, ListReply
  <2>3. ASSUME NEW sv PROVE ListFilter(h, sv) => Same
    BY DEF ListFilter
  <2>4. QED
    BY <1>3, <2>1, <2>2, <2>3 DEF List
<1>4. ASSUME NEW h \in Handler, Publish(h) PROVE Same \/ PublishStore(h)
  <2>1. ASSUME NEW t, NEW n, NEW node, NEW allow, PublishAuth(h, t, n, node, allow) PROVE Same
    BY <2>1 DEF PublishAuth
  <2>2. ASSUME NEW vip, PublishLease(h, vip) PROVE Same
    BY <2>2 DEF PublishLease
  <2>3. PublishExhausted(h) => Same
    BY DEF PublishExhausted
  <2>4. QED
    BY <1>4, <2>1, <2>2, <2>3 DEF Publish
<1>5. QED
  BY <1>1, <1>2, <1>3, <1>4 DEF Next

(***************************************************************************)
(* The three ways, seen from the directory.                                *)
(***************************************************************************)
LEMMA UpsertIsRegister ==
  ASSUME ServerInv, NEW h \in Handler, NEW t \in Token, RegisterUpsert(h, t)
  PROVE  /\ who[h].dev \in Device /\ who[h].group \in Group /\ who[h].ip \in Nodes!Hosts
         /\ Dir!Register(who[h].dev, who[h].group, who[h].ip, t)
<1> DEFINE d == who[h].dev
           m == [who[h] EXCEPT !.token = t]
<1>1. who[h] \in Member /\ who[h].ip = nodeByKey[d]
  BY DEF RegisterUpsert, ServerInv, RequestsSound, SoundRequest
<1>2. d \in Device /\ who[h].group \in Group /\ who[h].ip \in Nodes!Hosts
  BY <1>1 DEF Member
<1>3. m = [dev |-> d, group |-> who[h].group, ip |-> who[h].ip, token |-> t] /\ m.dev = d
  BY <1>1 DEF Member
<1>4. members' = [members EXCEPT ![d] = m] /\ UNCHANGED services /\ minted' = minted \cup {t}
  BY <1>3 DEF RegisterUpsert, Upsert
<1>5. members[d] # None => who[h].ip = members[d].ip
  BY <1>1, <1>2 DEF ServerInv, MembersSound
<1>6. \A e \in Device \ {d} : members[e] # None => members[e].ip # who[h].ip
  <2>1. nodeByKey[d] # NoAddr
    BY <1>1, <1>2, ServerConstants DEF Nodes!Hosts, Nodes!Prefix
  <2>2. QED
    BY <1>1, <1>2, <2>1 DEF ServerInv, MembersSound, Nodes!IpamInv, Nodes!AddressesDistinct
<1>7. t \notin minted
  BY DEF RegisterUpsert
<1>8. QED
  BY <1>2, <1>3, <1>4, <1>5, <1>6, <1>7 DEF Dir!Register

\* UpsertService is the directory's Publish.
LEMMA StoreIsPublish ==
  ASSUME ServerInv, NEW h \in Handler, PublishStore(h)
  PROVE  /\ who[h].dev \in Device /\ svc[h].name \in Name /\ svc[h].vip \in ServiceIPs!Hosts
         /\ svc[h].allow \in SUBSET Spelling
         /\ Dir!Publish(who[h].dev, svc[h].name, svc[h].vip, svc[h].allow)
<1> DEFINE d == who[h].dev
           s == svc[h]
<1>1. SoundRequest(members, nodeByKey, svcByKey, "store", who[h], s, todo[h], out[h])
  BY DEF PublishStore, ServerInv, RequestsSound
<1>2. d \in Device /\ s \in Service /\ s.name \in Name /\ s.allow \in SUBSET Spelling
  BY <1>1 DEF SoundRequest, Member, Service
<1>3. s.vip = svcByKey[s.name] /\ s.vip # NoAddr /\ s.vip \in ServiceIPs!Hosts
  BY <1>1, <1>2 DEF SoundRequest, Service
<1>4. members[d] # None /\ s.node = members[d].ip
  BY <1>1, <1>2 DEF SoundRequest, ServerInv, MembersSound
<1>5. s = [name |-> s.name, node |-> members[d].ip, vip |-> s.vip, allow |-> s.allow]
  BY <1>2, <1>4 DEF Service
<1>6. services[s.name] # None => s.vip = services[s.name].vip
  BY <1>2, <1>3 DEF ServerInv, ServicesSound, SoundService
<1>7. \A k \in Name \ {s.name} : services[k] # None => services[k].vip # s.vip
  BY <1>2, <1>3 DEF ServerInv, ServicesSound, SoundService, ServiceIPs!IpamInv,
     ServiceIPs!AddressesDistinct
<1>8. services' = [services EXCEPT ![s.name] = s] /\ UNCHANGED <<members, minted>>
  BY DEF PublishStore
<1>9. QED
  BY <1>2, <1>3, <1>4, <1>5, <1>6, <1>7, <1>8 DEF Dir!Publish

(***************************************************************************)
(* The control server implements the directory: its handlers behave as if  *)
(* each registration and each publication happened in one step.            *)
(***************************************************************************)
THEOREM DirectoryImplemented == Spec => ImplementsDirectory
<1>1. Init => Dir!Init
  BY DEF Init, Dir!Init
<1>2. ServerInv /\ [Next]_vars => [Dir!Next]_(Dir!vars)
  <2> SUFFICES ASSUME ServerInv, [Next]_vars PROVE [Dir!Next]_(Dir!vars)
    OBVIOUS
  <2>1. CASE Restart
    BY <2>1 DEF Restart, Dir!Next, Dir!Forget
  <2>2. ASSUME NEW h \in Handler, NEW t \in Token, RegisterUpsert(h, t) PROVE Dir!Next
    BY <2>2, UpsertIsRegister DEF Dir!Next
  <2>3. ASSUME NEW h \in Handler, PublishStore(h) PROVE Dir!Next
    BY <2>3, StoreIsPublish DEF Dir!Next
  <2>4. CASE UNCHANGED <<storeVars, minted, epoch>>
    BY <2>4 DEF storeVars, Dir!vars
  <2>5. QED
    BY <2>1, <2>2, <2>3, <2>4, StoreSteps
<1>3. QED
  BY <1>1, <1>2, ServerSound, PTL DEF Spec, Dir!Spec, ImplementsDirectory

(***************************************************************************)
(* A node token that no longer finds a member never does again.            *)
(***************************************************************************)
THEOREM RevocationIsFinal == Spec => RevokedForGood
<1>1. ServerInv /\ [Next]_vars =>
        [\A t \in minted : byToken[t] = None => byToken'[t] = None]_vars
  <2> SUFFICES ASSUME ServerInv, [Next]_vars, NEW u \in minted, byToken[u] = None
               PROVE  byToken'[u] = None
    OBVIOUS
  <2>1. u \in Token /\ byToken \in [Token -> Member \cup {None}]
    BY DEF ServerInv, TypeOK
  <2>2. CASE Restart
    BY <2>1, <2>2 DEF Restart
  <2>3. ASSUME NEW h \in Handler, NEW t \in Token, RegisterUpsert(h, t)
        PROVE  byToken'[u] = None
    <3>1. t # u
      BY <2>3 DEF RegisterUpsert
    <3>2. [who[h] EXCEPT !.token = t].token = t
      BY <2>3 DEF RegisterUpsert, ServerInv, RequestsSound, SoundRequest, Member
    <3>3. QED
      BY <2>1, <2>3, <3>1, <3>2 DEF RegisterUpsert, Upsert
  <2>4. ASSUME NEW h \in Handler, PublishStore(h) PROVE byToken'[u] = None
    BY <2>4 DEF PublishStore
  <2>5. CASE UNCHANGED <<storeVars, minted, epoch>>
    BY <2>5 DEF storeVars
  <2>6. QED
    BY <2>2, <2>3, <2>4, <2>5, StoreSteps
<1>2. QED
  BY <1>1, ServerSound, PTL DEF Spec, RevokedForGood

(***************************************************************************)
(* While the server is up, members and services keep their addresses.      *)
(***************************************************************************)
THEOREM AddressesAreStable == Spec => AddressesStable
<1> DEFINE Kept == epoch' = epoch =>
             /\ \A d \in Device : members[d] # None =>
                  members'[d] # None /\ members'[d].ip = members[d].ip
             /\ \A n \in Name : services[n] # None =>
                  services'[n] # None /\ services'[n].vip = services[n].vip
<1>1. ServerInv /\ [Next]_vars => [Kept]_vars
  <2> SUFFICES ASSUME ServerInv, [Next]_vars PROVE Kept
    OBVIOUS
  <2>1. CASE Restart
    BY <2>1 DEF Restart, ServerInv, TypeOK
  <2>2. ASSUME NEW h \in Handler, NEW t \in Token, RegisterUpsert(h, t) PROVE Kept
    <3>1. Dir!Register(who[h].dev, who[h].group, who[h].ip, t)
      BY <2>2, UpsertIsRegister
    <3>2. QED
      BY <3>1, NoneIsNoRecord, <2>2, UpsertIsRegister
         DEF Dir!Register, ServerInv, TypeOK, Member
  <2>3. ASSUME NEW h \in Handler, PublishStore(h) PROVE Kept
    <3>1. Dir!Publish(who[h].dev, svc[h].name, svc[h].vip, svc[h].allow)
      BY <2>3, StoreIsPublish
    <3>2. svc[h] \in Service
      BY <2>3 DEF PublishStore, ServerInv, RequestsSound, SoundRequest
    <3>3. services' = [services EXCEPT ![svc[h].name] = svc[h]] /\ UNCHANGED members
      BY <2>3 DEF PublishStore
    <3>4. QED
      BY <3>1, <3>2, <3>3, NoneIsNoRecord DEF Dir!Publish, ServerInv, TypeOK
  <2>4. CASE UNCHANGED <<storeVars, minted, epoch>>
    BY <2>4 DEF storeVars
  <2>5. QED
    BY <2>1, <2>2, <2>3, <2>4, StoreSteps
<1>2. QED
  BY <1>1, ServerSound, PTL DEF Spec, AddressesStable
===============================================================================
