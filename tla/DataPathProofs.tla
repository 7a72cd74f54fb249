----------------------------- MODULE DataPathProofs ---------------------------
(***************************************************************************)
(* What happens to the packets of a device: the translation table, the     *)
(* access check of the services hosted here, the rewriting of packets, and *)
(* the division of the range their addresses come from.                    *)
(***************************************************************************)
EXTENDS VipTable, Access, Rewrite, Split, FiniteSetTheorems, NaturalsInduction,
        WellFoundedInduction, TLAPS

-------------------------------------------------------------------------------
(***************************************************************************)
(* The translation table is correct for every local range, every overlay   *)
(* range and any number of concurrent callers.                             *)
(***************************************************************************)
(***************************************************************************)
(* The inductive invariant: the table is a two-way mapping, every answer   *)
(* given so far is still what the table says, and so is the node's own     *)
(* address.                                                                *)
(***************************************************************************)
AnswersKept == \A p \in given : toLocal[p[1]] = p[2]

SelfKept ==
  /\ toLocal[Self] = selfLocal
  /\ \A c \in Caller : asked[c] # NoLocal => selfLocal # NoLocal

TableInv == VipInv /\ AnswersKept /\ SelfKept

-------------------------------------------------------------------------------

(***************************************************************************)
(* allocLocked returns a free index and leaves the cursor in range.        *)
(***************************************************************************)
LEMMA AllocGivesFreeIndex ==
  ASSUME VipTypeOK, NEW real \in Overlay, NEW idx, allocLocked(real, idx)
  PROVE  idx \in FreeIndexes /\ cursor' \in 1 .. (LocalSize - 1)
<1>1. CASE AllocKeepingBits(real, idx)
  BY <1>1 DEF AllocKeepingBits, VipTypeOK
<1>2. CASE AllocScanning(real, idx)
  <2>1. PICK n \in ScanHits : idx = Visit(n)
    BY <1>2 DEF AllocScanning
  <2>2. idx \in FreeIndexes
    BY <2>1 DEF ScanHits
  <2>3. cursor' \in 1 .. (LocalSize - 1)
    BY <1>2, <2>2, VipConstants DEF AllocScanning, FreeIndexes, Succ
  <2>4. QED
    BY <2>2, <2>3
<1>3. QED
  BY <1>1, <1>2 DEF allocLocked

(***************************************************************************)
(* Entering an unmapped address under a free index keeps the mapping       *)
(* two-way and keeps every other entry.                                    *)
(***************************************************************************)
LEMMA EnterKeepsMapping ==
  ASSUME VipInv, NEW real \in Overlay, NEW idx \in FreeIndexes,
         toLocal[real] = NoLocal, Enter(real, idx)
  PROVE  /\ toLocal' \in [Overlay -> LocalRange \cup {NoLocal}]
         /\ toReal' \in [LocalRange -> Overlay \cup {NoLocal}]
         /\ usedIdx' \subseteq {i \in 0 .. (LocalSize - 1) : usable(i)}
         /\ TwoWayMapping'
         /\ \A r \in Overlay : r # real => toLocal'[r] = toLocal[r]
         /\ toLocal'[real] = LocalBase + idx
         /\ LocalBase + idx \in LocalRange
<1>1. idx \in 0 .. (LocalSize - 1) /\ usable(idx) /\ idx \notin usedIdx
  BY DEF FreeIndexes
<1>2. LocalBase + idx \in LocalRange /\ LocalBase + idx \in Nat /\ (LocalBase + idx) - LocalBase = idx
  BY <1>1, VipConstants DEF LocalRange
<1>3. toReal[LocalBase + idx] = NoLocal
  BY <1>1, <1>2 DEF VipInv, TwoWayMapping
<1>4. /\ toLocal' \in [Overlay -> LocalRange \cup {NoLocal}]
      /\ toReal' \in [LocalRange -> Overlay \cup {NoLocal}]
      /\ usedIdx' \subseteq {i \in 0 .. (LocalSize - 1) : usable(i)}
  BY <1>1, <1>2 DEF VipInv, VipTypeOK, Enter
<1>5. /\ \A r \in Overlay : r # real => toLocal'[r] = toLocal[r]
      /\ toLocal'[real] = LocalBase + idx
      /\ \A l \in LocalRange : l # LocalBase + idx => toReal'[l] = toReal[l]
      /\ toReal'[LocalBase + idx] = real
  BY <1>2 DEF Enter, VipInv, VipTypeOK
<1>6. \A r \in Overlay : r # NoLocal
  BY VipConstants
<1>7. \A r \in Overlay : toLocal'[r] # NoLocal => toReal'[toLocal'[r]] = r
  <2> SUFFICES ASSUME NEW r \in Overlay, toLocal'[r] # NoLocal
               PROVE  toReal'[toLocal'[r]] = r
    OBVIOUS
  <2>1. CASE r = real
    BY <2>1, <1>5
  <2>2. CASE r # real
    <3>1. toLocal'[r] = toLocal[r] /\ toReal[toLocal[r]] = r /\ toLocal[r] \in LocalRange
      BY <2>2, <1>5 DEF VipInv, VipTypeOK, TwoWayMapping
    <3>2. toLocal[r] # LocalBase + idx
      BY <3>1, <1>3, <1>6
    <3>3. QED
      BY <3>1, <3>2, <1>5
  <2>3. QED
    BY <2>1, <2>2
<1>8. \A l \in LocalRange : toReal'[l] # NoLocal => toLocal'[toReal'[l]] = l
  <2> SUFFICES ASSUME NEW l \in LocalRange, toReal'[l] # NoLocal
               PROVE  toLocal'[toReal'[l]] = l
    OBVIOUS
  <2>1. CASE l = LocalBase + idx
    BY <2>1, <1>5
  <2>2. CASE l # LocalBase + idx
    <3>1. toReal'[l] = toReal[l] /\ toLocal[toReal[l]] = l /\ toReal[l] \in Overlay
      BY <2>2, <1>5 DEF VipInv, VipTypeOK, TwoWayMapping
    <3>2. l # NoLocal
      BY VipConstants DEF LocalRange
    <3>3. toReal[l] # real
      BY <3>1, <3>2
    <3>4. QED
      BY <3>1, <3>3, <1>5
  <2>3. QED
    BY <2>1, <2>2
<1>9. \A l \in LocalRange : toReal'[l] # NoLocal <=> (l - LocalBase) \in usedIdx'
  <2> SUFFICES ASSUME NEW l \in LocalRange
               PROVE  toReal'[l] # NoLocal <=> (l - LocalBase) \in usedIdx'
    OBVIOUS
  <2>1. CASE l = LocalBase + idx
    BY <2>1, <1>2, <1>5, <1>6 DEF Enter
  <2>2. CASE l # LocalBase + idx
    <3>1. l - LocalBase # idx
      BY <2>2, <1>1, VipConstants DEF LocalRange
    <3>2. QED
      BY <2>2, <3>1, <1>5 DEF Enter, VipInv, TwoWayMapping
  <2>3. QED
    BY <2>1, <2>2
<1>10. TwoWayMapping'
  BY <1>7, <1>8, <1>9 DEF TwoWayMapping, LocalRange
<1>11. QED
  BY <1>2, <1>4, <1>5, <1>10

(***************************************************************************)
(* An allocation followed by an answer, as Wrap and Local make it.         *)
(***************************************************************************)
LEMMA AllocationPreserves ==
  ASSUME TableInv, NEW real \in Overlay, NEW idx \in 0 .. (LocalSize - 1),
         toLocal[real] = NoLocal, allocLocked(real, idx), Enter(real, idx),
         Answer(real, LocalBase + idx)
  PROVE  /\ toLocal' \in [Overlay -> LocalRange \cup {NoLocal}]
         /\ toReal' \in [LocalRange -> Overlay \cup {NoLocal}]
         /\ usedIdx' \subseteq {i \in 0 .. (LocalSize - 1) : usable(i)}
         /\ cursor' \in 1 .. (LocalSize - 1)
         /\ given' \subseteq Overlay \X LocalRange
         /\ TwoWayMapping' /\ AnswersKept'
         /\ \A r \in Overlay : r # real => toLocal'[r] = toLocal[r]
         /\ toLocal'[real] = LocalBase + idx /\ LocalBase + idx \in LocalRange
<1>1. idx \in FreeIndexes /\ cursor' \in 1 .. (LocalSize - 1)
  BY AllocGivesFreeIndex DEF TableInv, VipInv
<1>2. VipInv
  BY DEF TableInv
<1>3. /\ toLocal' \in [Overlay -> LocalRange \cup {NoLocal}]
      /\ toReal' \in [LocalRange -> Overlay \cup {NoLocal}]
      /\ usedIdx' \subseteq {i \in 0 .. (LocalSize - 1) : usable(i)}
      /\ TwoWayMapping'
      /\ \A r \in Overlay : r # real => toLocal'[r] = toLocal[r]
      /\ toLocal'[real] = LocalBase + idx
      /\ LocalBase + idx \in LocalRange
  BY <1>1, <1>2, EnterKeepsMapping
<1>4. given' \subseteq Overlay \X LocalRange
  BY <1>2, <1>3 DEF Answer, VipInv, VipTypeOK
<1>5. AnswersKept'
  <2> SUFFICES ASSUME NEW p \in given' PROVE toLocal'[p[1]] = p[2]
    BY DEF AnswersKept
  <2>1. CASE p = <<real, LocalBase + idx>>
    BY <2>1, <1>3
  <2>2. CASE p \in given
    <3>1. p[1] \in Overlay /\ p[2] \in LocalRange /\ toLocal[p[1]] = p[2]
      BY <2>2 DEF TableInv, VipInv, VipTypeOK, AnswersKept
    <3>2. p[1] # real
      BY <3>1, VipConstants DEF LocalRange
    <3>3. QED
      BY <3>1, <3>2, <1>3
  <2>3. QED
    BY <2>1, <2>2 DEF Answer
<1>6. QED
  BY <1>1, <1>3, <1>4, <1>5

(***************************************************************************)
(* Every operation preserves the invariant.                                *)
(***************************************************************************)
LEMMA TableInductive == TableInv /\ [TableNext]_vipVars => TableInv'
<1> SUFFICES ASSUME TableInv, [TableNext]_vipVars PROVE TableInv'
  OBVIOUS
<1>1. CASE Wrap
  <2>1. Self \in Overlay /\ toLocal[Self] = NoLocal
    BY <1>1, VipConstants DEF Wrap, TableInv, SelfKept
  <2>2. PICK idx \in 0 .. (LocalSize - 1) :
          /\ allocLocked(Self, idx)
          /\ Enter(Self, idx)
          /\ selfLocal' = LocalBase + idx
          /\ Answer(Self, LocalBase + idx)
    BY <1>1 DEF Wrap
  <2>3. /\ toLocal' \in [Overlay -> LocalRange \cup {NoLocal}]
        /\ toReal' \in [LocalRange -> Overlay \cup {NoLocal}]
        /\ usedIdx' \subseteq {i \in 0 .. (LocalSize - 1) : usable(i)}
        /\ cursor' \in 1 .. (LocalSize - 1)
        /\ given' \subseteq Overlay \X LocalRange
        /\ TwoWayMapping' /\ AnswersKept'
        /\ toLocal'[Self] = LocalBase + idx /\ LocalBase + idx \in LocalRange
    BY <2>1, <2>2, AllocationPreserves
  <2>4. SelfKept'
    <3>1. LocalBase + idx # NoLocal
      BY VipConstants
    <3>2. QED
      BY <1>1, <2>2, <2>3, <3>1 DEF Wrap, SelfKept
  <2>5. QED
    BY <1>1, <2>2, <2>3, <2>4 DEF Wrap, TableInv, VipInv, VipTypeOK
<1>2. ASSUME NEW c \in Caller, NEW real \in Overlay \cup Foreign, LocalRefused(c, real)
      PROVE  TableInv'
  BY <1>2 DEF LocalRefused, vipVars, tableVars, TableInv, VipInv, VipTypeOK, TwoWayMapping,
     AnswersKept, SelfKept
<1>3. ASSUME NEW c \in Caller, NEW real \in Overlay \cup Foreign, LocalKnown(c, real)
      PROVE  TableInv'
  <2>1. real \in Overlay /\ toLocal[real] \in LocalRange
    BY <1>3 DEF LocalKnown, TableInv, VipInv, VipTypeOK
  <2>2. given' \subseteq Overlay \X LocalRange /\ AnswersKept'
    BY <1>3, <2>1 DEF LocalKnown, Answer, TableInv, VipInv, VipTypeOK, AnswersKept, tableVars
  <2>3. QED
    BY <1>3, <2>2 DEF LocalKnown, TableInv, VipInv, VipTypeOK, TwoWayMapping, SelfKept, tableVars
<1>4. ASSUME NEW c \in Caller, NEW real \in Overlay \cup Foreign, LocalMissing(c, real)
      PROVE  TableInv'
  BY <1>4 DEF LocalMissing, TableInv, VipInv, VipTypeOK, TwoWayMapping, AnswersKept, SelfKept,
     tableVars
<1>5. ASSUME NEW c \in Caller, LocalWonByOther(c) PROVE TableInv'
  <2>1. asked[c] \in Overlay /\ toLocal[asked[c]] \in LocalRange
    BY <1>5 DEF LocalWonByOther, TableInv, VipInv, VipTypeOK
  <2>2. given' \subseteq Overlay \X LocalRange /\ AnswersKept'
    BY <1>5, <2>1 DEF LocalWonByOther, Answer, TableInv, VipInv, VipTypeOK, AnswersKept, tableVars
  <2>3. QED
    BY <1>5, <2>2 DEF LocalWonByOther, TableInv, VipInv, VipTypeOK, TwoWayMapping, SelfKept,
       tableVars
<1>6. ASSUME NEW c \in Caller, LocalAllocated(c) PROVE TableInv'
  <2>1. asked[c] \in Overlay /\ toLocal[asked[c]] = NoLocal
    BY <1>6 DEF LocalAllocated, TableInv, VipInv, VipTypeOK
  <2>2. PICK idx \in 0 .. (LocalSize - 1) :
          /\ allocLocked(asked[c], idx)
          /\ Enter(asked[c], idx)
          /\ Answer(asked[c], LocalBase + idx)
    BY <1>6 DEF LocalAllocated
  <2>3. /\ toLocal' \in [Overlay -> LocalRange \cup {NoLocal}]
        /\ toReal' \in [LocalRange -> Overlay \cup {NoLocal}]
        /\ usedIdx' \subseteq {i \in 0 .. (LocalSize - 1) : usable(i)}
        /\ cursor' \in 1 .. (LocalSize - 1)
        /\ given' \subseteq Overlay \X LocalRange
        /\ TwoWayMapping' /\ AnswersKept'
        /\ \A r \in Overlay : r # asked[c] => toLocal'[r] = toLocal[r]
    BY <2>1, <2>2, AllocationPreserves
  <2>4. selfLocal' = selfLocal /\ asked' \in [Caller -> Overlay \cup {NoLocal}]
    BY <1>6 DEF LocalAllocated, TableInv, VipInv, VipTypeOK
  <2>5. SelfKept'
    <3>1. selfLocal # NoLocal /\ asked[c] # Self
      BY <1>6, <2>1 DEF LocalAllocated, TableInv, SelfKept
    <3>2. QED
      BY <1>6, <2>3, <2>4, <3>1, VipConstants DEF LocalAllocated, TableInv, SelfKept
  <2>6. QED
    BY <2>3, <2>4, <2>5 DEF TableInv, VipInv, VipTypeOK
<1>7. ASSUME NEW c \in Caller, LocalExhausted(c) PROVE TableInv'
  <2>1. cursor' \in 1 .. (LocalSize - 1)
    BY <1>7, VipConstants DEF LocalExhausted, allocFails, Succ, Visit, TableInv, VipInv, VipTypeOK
  <2>2. QED
    BY <1>7, <2>1 DEF LocalExhausted, TableInv, VipInv, VipTypeOK, TwoWayMapping, AnswersKept,
       SelfKept
<1>8. CASE UNCHANGED vipVars
  BY <1>8 DEF vipVars, tableVars, TableInv, VipInv, VipTypeOK, TwoWayMapping, AnswersKept, SelfKept
<1>9. QED
  BY <1>1, <1>2, <1>3, <1>4, <1>5, <1>6, <1>7, <1>8 DEF TableNext

\* The inductive invariant holds in every reachable state of the table.
LEMMA TableInvariant == TableSpec => []TableInv
<1>1. TableInit => TableInv
  <2> SUFFICES ASSUME TableInit PROVE TableInv
    OBVIOUS
  <2>1. VipTypeOK
    BY VipConstants DEF TableInit, VipTypeOK
  <2>2. TwoWayMapping
    BY DEF TableInit, TwoWayMapping
  <2>3. AnswersKept /\ SelfKept
    BY VipConstants DEF TableInit, AnswersKept, SelfKept
  <2>4. QED
    BY <2>1, <2>2, <2>3 DEF TableInv, VipInv
<1>2. QED
  BY <1>1, TableInductive, PTL DEF TableSpec

-------------------------------------------------------------------------------
(* The theorems *)

(***************************************************************************)
(* The table is a two-way mapping at all times: two callers that miss the  *)
(* same address, or addresses with the same low bits, never make two peers *)
(* share a local address or one peer have two (Table.Local).               *)
(***************************************************************************)
THEOREM MappingIsTwoWay == TableSpec => []VipInv
<1>1. TableInv => VipInv
  BY DEF TableInv
<1>2. QED
  BY <1>1, TableInvariant, PTL

(***************************************************************************)
(* What the operating system answers reaches the peer it was meant for     *)
(* (Device.toReal after Device.toLocal).                                   *)
(***************************************************************************)
THEOREM RepliesCorrect == TableSpec => []RepliesReachTheSender
<1>1. TableInv => RepliesReachTheSender
  <2>0. TableInv => \A p, q \in given : p[1] = q[1] => p[2] = q[2]
    BY DEF TableInv, AnswersKept
  <2> SUFFICES ASSUME TableInv, NEW p \in given PROVE DeviceToReal(p[2]) = p[1]
    BY <2>0 DEF RepliesReachTheSender
  <2>1. p[1] \in Overlay /\ p[2] \in LocalRange /\ toLocal[p[1]] = p[2]
    BY DEF TableInv, VipInv, VipTypeOK, AnswersKept
  <2>2. p[2] # NoLocal
    BY <2>1, VipConstants DEF LocalRange
  <2>3. toReal[p[2]] = p[1]
    BY <2>1, <2>2 DEF TableInv, VipInv, TwoWayMapping
  <2>4. p[2] = selfLocal => p[1] = Self
    <3>1. p[2] = selfLocal => toReal[p[2]] = Self
      BY <2>2, VipConstants DEF TableInv, VipInv, TwoWayMapping, SelfKept
    <3>2. QED
      BY <2>3, <3>1
  <2>5. QED
    BY <2>3, <2>4 DEF DeviceToReal
<1>2. QED
  BY <1>1, TableInvariant, PTL

(***************************************************************************)
(* The scan of allocLocked looks at every usable index, so an address is   *)
(* refused only when the range is full.                                    *)
(***************************************************************************)
THEOREM RefusalIsReal == TableSpec => []RefusedOnlyWhenFull
<1>1. TableInv => RefusedOnlyWhenFull
  <2> SUFFICES ASSUME TableInv, NEW i \in FreeIndexes PROVE ScanHits # {}
    BY DEF RefusedOnlyWhenFull
  <2>1. i \in 1 .. (LocalSize - 2) /\ cursor \in 1 .. (LocalSize - 1) /\ LocalSize \in Nat
    BY VipConstants DEF FreeIndexes, usable, TableInv, VipInv, VipTypeOK
  <2> DEFINE n == IF i >= cursor THEN i - cursor ELSE i - cursor + LocalSize - 1
  <2>2. n \in ScanTurns /\ Visit(n) = i
    BY <2>1 DEF ScanTurns, Visit
  <2>3. n \in ScanHits
    BY <2>2 DEF ScanHits
  <2>4. QED
    BY <2>3
<1>2. QED
  BY <1>1, TableInvariant, PTL

-------------------------------------------------------------------------------
(***************************************************************************)
(* The access check is sound for every set of devices, groups, rules and   *)
(* allow lists, and however often the server restarts.                     *)
(*                                                                         *)
(* The policy goes by addresses, the tunnel by devices.  That both mean    *)
(* the same member rests on two facts: in one answer of the server no two  *)
(* members have the same address (AnswerSound), because its directory      *)
(* never does (DirectorySound); and unless SetPeers has been called since  *)
(* (between) or has failed without being made good (TunnelAsSet), tunnel   *)
(* and policy come from the same answer, or from one with the same peers   *)
(* (PolicyFits): a round that finds its peers equal to lastSig leaves the  *)
(* tunnel alone and still sets the policy.                                 *)
(***************************************************************************)
\* Addresses are handed out in order and never twice.
DirectorySound ==
  /\ IsFiniteSet(DOMAIN members)
  /\ \A d \in DOMAIN members : members[d].ip \in 1 .. Cardinality(DOMAIN members)
  /\ \A d, e \in DOMAIN members : members[d].ip = members[e].ip => d = e

\* An answer names each device and each address once, and only connected ones.
AnswerSound ==
  \A p \in peers :
    /\ p.dev # Host => Connected(rules, HostGroup, p.group)
    /\ \A q \in peers : p.dev = q.dev \/ p.ip = q.ip => p = q

\* What the tunnel and the policy say of a device is what the answer said.
PolicyFits ==
  /\ policy.allow = basis.list
  /\ at = "access" => lastSig = PeersFor(peers, svcs)
  /\ ~between /\ TunnelAsSet => \A d \in DOMAIN tunnel \ {Host} :
       /\ d \in DOMAIN basis.group
       /\ Connected(rules, HostGroup, basis.group[d])
       /\ tunnel[d].ip \in DOMAIN policy.groups => policy.groups[tunnel[d].ip] = basis.group[d]

AccessInv == DirectorySound /\ AnswerSound /\ PolicyFits

-------------------------------------------------------------------------------

(***************************************************************************)
(* Registering a device, known or new, keeps the directory sound: a new    *)
(* one gets an address above all others.                                   *)
(***************************************************************************)
LEMMA RegisteredSound ==
  ASSUME DirectorySound, NEW d, NEW g, members' = registered(d, g)
  PROVE  DirectorySound'
<1> DEFINE D == DOMAIN members
           n == Cardinality(D)
<1>1. n \in Nat
  BY FS_CardinalityType DEF DirectorySound
<1>2. /\ DOMAIN members' = D \cup {d}
      /\ members'[d].ip = IF d \in D THEN members[d].ip ELSE n + 1
      /\ \A e \in D : e # d => members'[e] = members[e]
  BY DEF registered, Put
<1>3. CASE d \in D
  <2>1. DOMAIN members' = D /\ \A e \in D : members'[e].ip = members[e].ip
    BY <1>2, <1>3
  <2>2. QED
    BY <2>1 DEF DirectorySound
<1>4. CASE d \notin D
  <2>1. IsFiniteSet(D \cup {d}) /\ Cardinality(D \cup {d}) = n + 1
    BY <1>4, FS_AddElement DEF DirectorySound
  <2>2. /\ DOMAIN members' = D \cup {d}
        /\ members'[d].ip = n + 1
        /\ \A e \in D : members'[e].ip = members[e].ip /\ members[e].ip \in 1 .. n
        /\ \A e, f \in D : members[e].ip = members[f].ip => e = f
    BY <1>2, <1>4 DEF DirectorySound
  <2> HIDE DEF n, D
  <2>3. \A e \in D \cup {d} : members'[e].ip \in 1 .. (n + 1)
    BY <1>1, <2>2
  <2>4. \A e, f \in D \cup {d} : members'[e].ip = members'[f].ip => e = f
    BY <1>1, <2>2
  <2>5. QED
    BY <2>1, <2>2, <2>3, <2>4 DEF DirectorySound
<1>5. QED
  BY <1>3, <1>4

\* Nor does a call of the host, which may register it again.
LEMMA KnownSound ==
  ASSUME DirectorySound, members' = Known
  PROVE  DirectorySound'
<1>1. CASE Host \in DOMAIN members
  BY <1>1 DEF Known, DirectorySound
<1>2. CASE Host \notin DOMAIN members
  BY <1>2, RegisteredSound DEF Known
<1>3. QED
  BY <1>1, <1>2

(***************************************************************************)
(* AskPeers: the answer of a sound directory is sound.                     *)
(***************************************************************************)
LEMMA AskPeersPreservesInv ==
  ASSUME AccessInv, AskPeers
  PROVE  AccessInv'
<1>1. DirectorySound'
  BY KnownSound DEF AccessInv, AskPeers
<1>2. AnswerSound'
  <2>1. CASE CallSucceeds
    BY <1>1, <2>1 DEF AskPeers, listPeers, DirectorySound, AnswerSound
  <2>2. CASE ~CallSucceeds
    BY <2>2 DEF AskPeers, AccessInv, AnswerSound
  <2>3. QED
    BY <2>1, <2>2
<1>3. PolicyFits'
  BY DEF AccessInv, AskPeers, PolicyFits, TunnelAsSet, hostVars
<1>4. QED
  BY <1>1, <1>2, <1>3 DEF AccessInv

(***************************************************************************)
(* SetPeers leaves the policy alone.  If it was called, between says so;   *)
(* if not, tunnel and lastSig are what they were.                          *)
(***************************************************************************)
LEMMA SetPeersPreservesInv ==
  ASSUME AccessInv, SetPeers \/ SetPeersFails
  PROVE  AccessInv'
<1>1. CASE SetPeers
  <2>1. DirectorySound' /\ AnswerSound'
    BY <1>1 DEF SetPeers, AccessInv, DirectorySound, AnswerSound, serverVars
  <2>2. PeersFor(peers, svcs)' = PeersFor(peers, svcs)
    BY <1>1 DEF SetPeers, PeersFor
  <2>3. ~between' => ~between /\ tunnel' = tunnel /\ lastSig' = lastSig
    BY <1>1 DEF SetPeers
  <2>4. PolicyFits'
    BY <1>1, <2>2, <2>3 DEF SetPeers, AccessInv, PolicyFits, TunnelAsSet
  <2>5. QED
    BY <2>1, <2>4 DEF AccessInv
<1>2. CASE SetPeersFails
  BY <1>2 DEF SetPeersFails, AccessInv, DirectorySound, AnswerSound, PolicyFits, serverVars
<1>3. QED
  BY <1>1, <1>2

(***************************************************************************)
(* SetAccess: the address of a device in the tunnel belongs, in the same   *)
(* answer, to that device and no other, so the group the policy finds by   *)
(* the address is the device's.                                            *)
(***************************************************************************)
LEMMA SetAccessPreservesInv ==
  ASSUME AccessInv, SetAccess
  PROVE  AccessInv'
<1>1. /\ lastSig' = PeersFor(peers, svcs) /\ tunnel' = tunnel /\ members' = members
      /\ policy' = PolicyFor(peers, svcs) /\ basis' = BasisFor(peers, svcs)
      /\ at' = "idle" /\ peers' = {} /\ AnswerSound
  BY DEF SetAccess, AccessInv, PolicyFits, serverVars
<1>2. ASSUME NEW d \in DOMAIN PeersFor(peers, svcs) \ {Host}
      PROVE  /\ d \in DOMAIN basis'.group
             /\ Connected(rules, HostGroup, basis'.group[d])
             /\ policy'.groups[PeersFor(peers, svcs)[d].ip] = basis'.group[d]
  <2>1. PICK p \in peers : p.dev = d
    BY DEF PeersFor
  <2>2. \A q \in peers : q.dev = d \/ q.ip = p.ip => q = p
    BY <1>1, <2>1 DEF AnswerSound
  <2>3. (CHOOSE q \in peers : q.dev = d) = p
    BY <2>1, <2>2
  <2>4. (CHOOSE q \in peers : q.ip = p.ip) = p
    BY <2>2
  <2>5. PeersFor(peers, svcs)[d].ip = p.ip
    BY <2>3 DEF PeersFor
  <2>6. d \in DOMAIN basis'.group /\ basis'.group[d] = p.group
    BY <1>1, <2>1, <2>3 DEF BasisFor
  <2>7. policy'.groups[p.ip] = p.group
    BY <1>1, <2>4 DEF PolicyFor
  <2>8. QED
    BY <1>1, <2>1, <2>5, <2>6, <2>7 DEF AnswerSound
<1>3. PolicyFits'
  <2>1. policy'.allow = basis'.list
    BY <1>1 DEF PolicyFor, BasisFor
  <2>2. QED
    BY <1>1, <1>2, <2>1 DEF PolicyFits, TunnelAsSet
<1>4. QED
  BY <1>1, <1>3 DEF AccessInv, AnswerSound, DirectorySound

(***************************************************************************)
(* The other steps of the round and those of the rest of the world do not  *)
(* touch tunnel and policy, or, for Edit, empty both.                      *)
(***************************************************************************)
LEMMA OthersPreserveInv ==
  ASSUME AccessInv,
         \/ \E d \in Client, g \in Group : Register(d, g)
         \/ \E d \in Client, n \in Name, l \in AllowList : PublishElsewhere(d, n, l)
         \/ Restart \/ Edit \/ AskServices
         \/ \E n \in Name : Republish(n)
  PROVE  AccessInv'
<1> USE DEF AccessInv
<1>1. ASSUME NEW d, NEW g, Register(d, g) PROVE AccessInv'
  <2>1. DirectorySound'
    BY <1>1, RegisteredSound DEF Register
  <2>2. QED
    BY <1>1, <2>1 DEF Register, AnswerSound, PolicyFits, TunnelAsSet, PeersFor, roundVars, hostVars
<1>2. ASSUME NEW d, NEW n, NEW l, PublishElsewhere(d, n, l) PROVE AccessInv'
  BY <1>2 DEF PublishElsewhere, DirectorySound, AnswerSound, PolicyFits, TunnelAsSet, PeersFor, roundVars,
              hostVars
<1>3. CASE Restart
  <2>1. DirectorySound'
    BY <1>3, FS_EmptySet DEF Restart, DirectorySound, Nothing
  <2>2. QED
    BY <1>3, <2>1 DEF Restart, AnswerSound, PolicyFits, TunnelAsSet, PeersFor, roundVars, hostVars
<1>4. CASE Edit
  <2>1. DirectorySound'
    BY <1>4, KnownSound DEF Edit
  <2>2. QED
    BY <1>4, <2>1 DEF Edit, AnswerSound, PolicyFits, NoPolicy, Nothing, roundVars
<1>5. CASE AskServices
  <2>1. DirectorySound'
    BY <1>5, KnownSound DEF AskServices, DirectorySound
  <2>2. QED
    BY <1>5, <2>1 DEF AskServices, AnswerSound, PolicyFits, TunnelAsSet, hostVars
<1>6. ASSUME NEW n, Republish(n) PROVE AccessInv'
  <2>1. DirectorySound'
    BY <1>6, KnownSound DEF Republish
  <2>2. QED
    BY <1>6, <2>1 DEF Republish, AnswerSound, PolicyFits, TunnelAsSet, hostVars
<1>7. QED
  BY <1>1, <1>2, <1>3, <1>4, <1>5, <1>6

(***************************************************************************)
(* Tunnel and policy agree about who is who, except between the two and    *)
(* while a failed SetPeers is not made good.                               *)
(***************************************************************************)
THEOREM AccessSound == Spec => []AccessInv
<1>1. Init => AccessInv
  <2> SUFFICES ASSUME Init PROVE AccessInv
    OBVIOUS
  <2>1. DOMAIN members = {Host} /\ members[Host].ip = 1 /\ tunnel = Nothing /\ peers = {}
    BY DEF Init, Put, Nothing
  <2>2. DirectorySound
    <3>1. IsFiniteSet({Host}) /\ Cardinality({Host}) = 1
      BY FS_Singleton
    <3>2. QED
      BY <2>1, <3>1 DEF DirectorySound
  <2>3. AnswerSound /\ PolicyFits
    <3>1. DOMAIN tunnel = {} /\ at = "idle" /\ policy.allow = Nothing /\ basis.list = Nothing
      BY DEF Init, NoPolicy, Nothing
    <3>2. QED
      BY <2>1, <3>1 DEF AnswerSound, PolicyFits
  <2>4. QED
    BY <2>2, <2>3 DEF AccessInv
<1>2. AccessInv /\ [Next]_vars => AccessInv'
  <2> SUFFICES ASSUME AccessInv, [Next]_vars PROVE AccessInv'
    OBVIOUS
  <2>1. CASE UNCHANGED vars
    BY <2>1 DEF vars, serverVars, roundVars, hostVars, AccessInv, DirectorySound, AnswerSound,
                PolicyFits, TunnelAsSet, PeersFor
  <2>2. QED
    BY <2>1, AskPeersPreservesInv, SetPeersPreservesInv, SetAccessPreservesInv,
       OthersPreserveInv DEF Next, RoundStep
<1>3. QED
  BY <1>1, <1>2, PTL DEF Spec

(***************************************************************************)
(* For any devices, groups, rules and lists: whoever the host lets through *)
(* was connected with it, and named by the service's list, by what the     *)
(* server held when it was asked (access.go, l4.go:8), with the three      *)
(* exceptions the property names.                                          *)
(***************************************************************************)
THEOREM AdmissionCorrect == Spec => []AdmittedWasAllowed
<1>1. AccessInv => AdmittedWasAllowed
  BY AccessConstants
     DEF AccessInv, PolicyFits, AdmittedWasAllowed, Admits, Permits, AllowsGroup
<1>2. QED
  BY <1>1, AccessSound, PTL

-------------------------------------------------------------------------------
(***************************************************************************)
(* Rewriting a packet keeps its checksums right, whatever the number of    *)
(* values of a word.  Sums are compared up to multiples of all ones: Fold  *)
(* changes a sum by such a multiple and leaves zero only of zero, so that  *)
(* a sum folds to all ones exactly if it is a multiple and not zero;       *)
(* csumUpdate changes the checksum by what the addresses changed, up to a  *)
(* multiple; and the rest, which is not zero, keeps the sum from zero.     *)
(***************************************************************************)
Less == {p \in Nat \X Nat : p[1] < p[2]}

\* Every set of numbers that is not empty has a least one.
LEMMA LeastNat ==
  ASSUME NEW T \in SUBSET Nat, T # {}
  PROVE  \E x \in T : \A y \in T : x <= y
<1>1. IsWellFoundedOn(Less, Nat)
  BY NatLessThanWellFounded DEF OpToRel, Less
<1>2. \E x \in T : \A y \in T : ~(<<y, x>> \in Less)
  BY <1>1, WFMin
<1>3. PICK x \in T : \A y \in T : ~(<<y, x>> \in Less)
  BY <1>2
<1>4. ASSUME NEW y \in T PROVE x <= y
  <2>1. <<y, x>> \in Nat \X Nat /\ <<y, x>>[1] = y /\ <<y, x>>[2] = x
    OBVIOUS
  <2>2. ~(y < x)
    BY <1>3, <2>1 DEF Less
  <2>3. x \in Nat /\ y \in Nat
    OBVIOUS
  <2>4. QED
    BY <2>2, <2>3
<1>5. QED
  BY <1>4

\* The only multiple of m between -m and m is zero.
LEMMA Multiples ==
  ASSUME NEW m \in Nat \ {0}, NEW z \in Int, m * z < m, -m < m * z
  PROVE  z = 0
<1>1. CASE z >= 1
  <2>1. m * z >= m
    BY <1>1
  <2>2. QED
    BY <2>1
<1>2. CASE z <= -1
  <2>1. m * z <= -m
    BY <1>2
  <2>2. QED
    BY <2>1
<1>3. QED
  BY <1>1, <1>2

\* Quotient and remainder.
LEMMA DivMod ==
  ASSUME NEW n \in Nat \ {0}, NEW a \in Nat
  PROVE  a \div n \in Int /\ a % n \in 0 .. (n - 1) /\ a = n * (a \div n) + (a % n)
  OBVIOUS

\* A multiple of m does not change the remainder by m.
LEMMA ModShift ==
  ASSUME NEW m \in Nat \ {0}, NEW a \in Nat, NEW q \in Nat
  PROVE  (a + m * q) % m = a % m
<1> DEFINE d == a \div m  r == a % m  b == a + m * q  e == b \div m  s == b % m
<1>0. m * q \in Nat /\ b \in Nat
  OBVIOUS
<1>1. d \in Int /\ r \in 0..(m-1) /\ a = m * d + r
  OBVIOUS
<1>2. e \in Int /\ s \in 0..(m-1) /\ b = m * e + s
  BY <1>0
<1> HIDE DEF d, r, e, s
<1>3. m * e + s = m * d + r + m * q
  BY <1>1, <1>2
<1> HIDE DEF b
<1>4. m * (d + q - e) = m * d + m * q - m * e
  BY <1>1, <1>2
<1>5. m * d \in Int /\ m * q \in Int /\ m * e \in Int
  BY <1>1, <1>2
<1>6. m * (d + q - e) = s - r
  BY <1>1, <1>2, <1>3, <1>4, <1>5
<1>7. d + q - e = 0
  <2>1. d + q - e \in Int
    BY <1>1, <1>2
  <2>2. m * (d + q - e) < m /\ -m < m * (d + q - e)
    BY <1>1, <1>2, <1>6
  <2>3. QED
    BY <2>1, <2>2, Multiples
<1>8. m * (d+q-e) = 0
  BY <1>7
<1>9. QED
  BY <1>1, <1>2, <1>6, <1>8 DEF r, s, b

(***************************************************************************)
(* Fold satisfies the equation that defines it: there is a function that   *)
(* does (0 for 0, otherwise the remainder by all ones, in 1 .. Ones).      *)
(***************************************************************************)
LEMMA FoldIs ==
  \A x \in Nat : Fold[x] = IF x < B THEN x ELSE Fold[(x % B) + (x \div B)]
<1> DEFINE m == B - 1
           g == [s \in Nat |-> IF s = 0 THEN 0 ELSE 1 + ((s - 1) % m)]
           Is(f) == f = [s \in Nat |-> IF s < B THEN s ELSE f[(s % B) + (s \div B)]]
<1>1. m \in Nat \ {0} /\ B = m + 1
  BY RewriteConstants
<1>2. ASSUME NEW s \in Nat PROVE g[s] = IF s < B THEN s ELSE g[(s % B) + (s \div B)]
  <2>1. CASE s < B
    <3>1. CASE s = 0
      BY <2>1, <3>1
    <3>2. CASE s # 0
      <4>1. s - 1 \in 0 .. (m - 1)
        BY <1>1, <2>1, <3>2
      <4>2. (s - 1) % m = s - 1
        BY <1>1, <4>1
      <4>3. QED
        BY <2>1, <3>2, <4>2
    <3>3. QED
      BY <3>1, <3>2
  <2>2. CASE s >= B
    <3> DEFINE q == s \div B  r == s % B
    <3>1. q \in Int /\ r \in 0..m /\ s = B * q + r
      <4>1. B \in Nat \ {0}
        BY RewriteConstants
      <4>2. q \in Int /\ r \in 0..(B-1) /\ s = B * q + r
        BY <4>1, DivMod
      <4>3. QED
        BY <4>2
    <3> HIDE DEF q, r
    <3>2. q >= 1
      <4>1. CASE q <= 0
        <5>1. B * q <= 0
          BY <1>1, <3>1, <4>1
        <5>2. B * q \in Int
          BY <1>1, <3>1
        <5>3. QED
          BY <1>1, <2>2, <3>1, <5>1, <5>2
      <4>2. QED
        BY <3>1, <4>1
    <3>3. B * q = m * q + q
      BY <1>1, <3>1
    <3>4. m * q \in Nat
      BY <1>1, <3>1, <3>2
    <3>5. s - 1 = (r + q - 1) + m * q
      BY <1>1, <3>1, <3>3, <3>4
    <3>6. r + q - 1 \in Nat /\ q \in Nat
      BY <1>1, <3>1, <3>2
    <3> HIDE DEF m
    <3>7. (s - 1) % m = (r + q - 1) % m
      BY <1>1, <3>5, <3>6, ModShift
    <3>8. g[s] = 1 + ((s - 1) % m)
      BY <1>1, <2>2
    <3>9. g[r + q] = 1 + ((r + q - 1) % m)
      BY <3>1, <3>2, <3>6
    <3>10. g[s] = g[r + q]
      BY <3>7, <3>8, <3>9
    <3>11. ~(s < B)
      BY <1>1, <2>2
    <3>12. QED
      BY <3>10, <3>11 DEF q, r
  <2>3. QED
    BY <1>1, <2>1, <2>2
<1>3. Is(g)
  <2> HIDE DEF g
  <2>1. g = [s \in Nat |-> g[s]]
    BY DEF g
  <2>2. QED
    BY <1>2, <2>1
<1>4. Fold = CHOOSE f : Is(f)
  BY DEF Fold
<1>5. Is(Fold)
  <2> HIDE DEF g, Is
  <2>1. QED
    BY <1>3, <1>4
<1>6. QED
  BY <1>5

\* What a fold leaves: a word, the same up to multiples of all ones, and zero only of zero.
FoldFits(x) ==
  /\ Fold[x] \in Word
  /\ \E k \in Nat : x = Fold[x] + Ones * k
  /\ x # 0 => Fold[x] # 0

\* By the least number of which it is false: one fold leaves a smaller one.
LEMMA FoldValue == \A x \in Nat : FoldFits(x)
<1>1. SUFFICES ASSUME NEW T \in SUBSET Nat, T = {x \in Nat : ~FoldFits(x)}, T # {} PROVE FALSE
  OBVIOUS
<1>2. PICK x \in T : \A y \in T : x <= y
  BY <1>1, LeastNat
<1>3. x \in Nat /\ ~FoldFits(x) /\ \A y \in Nat : y < x => FoldFits(y)
  BY <1>1, <1>2
<1>4. Ones \in Nat \ {0} /\ B \in Nat \ {0} /\ B = Ones + 1
  BY RewriteConstants DEF Ones
<1>5. CASE x < B
  <2>1. Fold[x] = x
    BY <1>3, <1>5, FoldIs
  <2>2. x = x + Ones * 0 /\ x \in 0 .. B - 1
    BY <1>3, <1>4, <1>5
  <2>3. QED
    BY <1>3, <2>1, <2>2 DEF FoldFits, Word
<1>6. CASE x >= B
  <2> DEFINE q == x \div B
             t == (x % B) + q
  <2>1. q \in Int /\ x % B \in 0 .. (B - 1) /\ x = B * q + (x % B)
    BY <1>3, <1>4, DivMod
  <2>2. Fold[x] = Fold[t]
    BY <1>3, <1>4, <1>6, FoldIs
  <2> HIDE DEF q
  <2>3. q >= 1
    <3>1. CASE q <= 0
      <4>1. B * q <= 0 /\ B * q \in Int
        BY <1>4, <2>1, <3>1
      <4>2. QED
        BY <1>3, <1>4, <1>6, <2>1, <4>1
    <3>2. QED
      BY <2>1, <3>1
  <2>4. B * q = Ones * q + q /\ Ones * q \in Nat /\ Ones * q > 0
    BY <1>4, <2>1, <2>3
  <2>5. t \in Nat /\ t # 0 /\ x = t + Ones * q /\ t < x
    BY <1>3, <1>4, <2>1, <2>3, <2>4
  <2> HIDE DEF t
  <2>6. FoldFits(t)
    BY <1>3, <2>5
  <2>7. PICK k \in Nat : t = Fold[t] + Ones * k
    BY <2>6 DEF FoldFits
  <2>8. Ones * (k + q) = Ones * k + Ones * q /\ Ones * k \in Nat /\ k + q \in Nat
    BY <1>4, <2>1, <2>3
  <2>9. Fold[t] \in Int
    BY <2>6, <1>4 DEF FoldFits, Word
  <2>10. x = Fold[x] + Ones * (k + q)
    BY <2>2, <2>4, <2>5, <2>7, <2>8, <2>9
  <2>11. QED
    BY <1>3, <2>2, <2>5, <2>6, <2>8, <2>10 DEF FoldFits
<1>7. QED
  BY <1>3, <1>4, <1>5, <1>6

\* Zero in ones' complement: a multiple of all ones.
Multiple(x) == \E k \in Int : x = Ones * k

\* All ones is the largest word, and not zero.
LEMMA OnesType ==
  Ones \in Nat \ {0} /\ Ones \in Word /\ Word \subseteq Nat /\ \A x \in Word : x <= Ones
  BY RewriteConstants DEF Ones, Word

\* A sum is right when it is a multiple of all ones, and not zero.
LEMMA FoldOnes ==
  ASSUME NEW x \in Nat
  PROVE  Fold[x] = Ones <=> x # 0 /\ Multiple(x)
<1>1. FoldFits(x) /\ Ones \in Nat \ {0} /\ Fold[x] \in Nat /\ Fold[x] <= Ones
  BY FoldValue, OnesType DEF FoldFits
<1>2. PICK k \in Nat : x = Fold[x] + Ones * k
  BY <1>1 DEF FoldFits
<1>3. Ones * (k + 1) = Ones * k + Ones /\ Ones * k \in Nat
  BY <1>1
<1>4. ASSUME Fold[x] = Ones PROVE x # 0 /\ Multiple(x)
  <2>1. x = Ones * (k + 1)
    BY <1>1, <1>2, <1>3, <1>4
  <2>2. x # 0
    BY <1>1, <1>2, <1>3, <1>4
  <2>3. QED
    BY <2>1, <2>2 DEF Multiple
<1>5. ASSUME x # 0, Multiple(x) PROVE Fold[x] = Ones
  <2>1. PICK j \in Int : x = Ones * j
    BY <1>5 DEF Multiple
  <2>2. Fold[x] # 0
    BY <1>1, <1>5 DEF FoldFits
  <2>3. Ones * (j - k - 1) = Ones * j - Ones * k - Ones /\ Ones * j \in Int
    BY <1>1
  <2>4. Ones * (j - k - 1) = Fold[x] - Ones
    BY <1>1, <1>2, <1>3, <2>1, <2>3
  <2>5. j - k - 1 \in Int /\ Ones * (j - k - 1) < Ones /\ -Ones < Ones * (j - k - 1)
    BY <1>1, <2>2, <2>4
  <2>6. j - k - 1 = 0
    BY <1>1, <2>5, Multiples
  <2>7. Ones * (j - k - 1) = 0
    BY <1>1, <2>6
  <2>8. QED
    BY <1>1, <2>4, <2>7
<1>6. QED
  BY <1>4, <1>5

\* Sums and differences of multiples.
LEMMA MultipleSum ==
  ASSUME NEW x \in Int, NEW y \in Int, Multiple(x), Multiple(y)
  PROVE  Multiple(x + y)
<1>1. PICK j \in Int : x = Ones * j
  BY DEF Multiple
<1>2. PICK k \in Int : y = Ones * k
  BY DEF Multiple
<1>3. x + y = Ones * (j + k)
  BY <1>1, <1>2, OnesType
<1>4. QED
  BY <1>3 DEF Multiple

\* A right sum that changes by a multiple, and not to zero, stays right.
LEMMA StaysRight ==
  ASSUME NEW x \in Nat, NEW y \in Nat, Fold[x] = Ones, y # 0, Multiple(y - x)
  PROVE  Fold[y] = Ones
<1>1. Multiple(x)
  BY FoldOnes
<1>2. Multiple(x + (y - x))
  BY <1>1, MultipleSum
<1>3. x + (y - x) = y
  OBVIOUS
<1>4. Multiple(y)
  BY <1>2, <1>3
<1>5. QED
  BY <1>4, FoldOnes

\* csumUpdate makes up for the words that changed, up to a multiple.
LEMMA UpdateFits ==
  ASSUME NEW cs \in Word, NEW o \in Word, NEW p \in Word, NEW n \in Word, NEW q \in Word
  PROVE  LET c == csumUpdate(cs, <<o, p>>, <<n, q>>)
         IN c \in Word /\ Multiple((n + q + c) - (o + p + cs))
<1> DEFINE s == Complement(cs) + Complement(o) + n + Complement(p) + q
           c == csumUpdate(cs, <<o, p>>, <<n, q>>)
<1>1. c = Ones - Fold[s]
  BY DEF csumUpdate, Complement
<1>2. s = 3 * Ones - cs - o - p + n + q
  BY OnesType DEF Complement
<1>3. s \in Nat
  BY OnesType DEF Complement
<1> HIDE DEF s, c
<1>4. FoldFits(s) /\ Fold[s] \in Nat /\ Fold[s] <= Ones
  BY <1>3, FoldValue, OnesType DEF FoldFits
<1>5. PICK k \in Nat : s = Fold[s] + Ones * k
  BY <1>4 DEF FoldFits
<1>6. Ones * (k - 2) = Ones * k - 2 * Ones /\ Ones * k \in Int
  BY OnesType
<1>7. (n + q + c) - (o + p + cs) = Ones * (k - 2)
  BY <1>1, <1>2, <1>4, <1>5, <1>6, OnesType
<1>8. c \in Word
  BY <1>1, <1>4, OnesType, RewriteConstants DEF Word, Ones
<1>9. QED
  BY <1>7, <1>8 DEF Multiple, c

\* The same for one word.
LEMMA Update1Fits ==
  ASSUME NEW cs \in Word, NEW o \in Word, NEW n \in Word
  PROVE  LET c == csumUpdate1(cs, o, n)
         IN c \in Word /\ Multiple((n + c) - (o + cs))
<1> DEFINE s == Complement(cs) + Complement(o) + n
           c == csumUpdate1(cs, o, n)
<1>1. c = Ones - Fold[s]
  BY DEF csumUpdate1, Complement
<1>2. s = 2 * Ones - cs - o + n
  BY OnesType DEF Complement
<1>3. s \in Nat
  BY OnesType DEF Complement
<1> HIDE DEF s, c
<1>4. FoldFits(s) /\ Fold[s] \in Nat /\ Fold[s] <= Ones
  BY <1>3, FoldValue, OnesType DEF FoldFits
<1>5. PICK k \in Nat : s = Fold[s] + Ones * k
  BY <1>4 DEF FoldFits
<1>6. Ones * (k - 1) = Ones * k - Ones /\ Ones * k \in Int
  BY OnesType
<1>7. (n + c) - (o + cs) = Ones * (k - 1)
  BY <1>1, <1>2, <1>4, <1>5, <1>6, OnesType
<1>8. c \in Word
  BY <1>1, <1>4, OnesType, RewriteConstants DEF Word, Ones
<1>9. QED
  BY <1>7, <1>8 DEF Multiple, c

-------------------------------------------------------------------------------
(* Packets, whatever their words *)

Head == [src : Word, dst : Word, rest : Word, cs : Word]
Shape == [kind : Kind, head : Head, body : Word, cs : Word, quote : Head, whole : BOOLEAN]

\* What is known of a packet a sender made.
WellMade(p) ==
  /\ p \in Shape
  /\ Right(p.head) /\ p.head.rest # 0
  /\ BodyRight(p)
  /\ p.kind # "other" => p.body # 0
  /\ Right(p.quote)
  /\ p.kind = "icmp error" => p.quote.rest # 0

\* The packets of the model are well made.
LEMMA PacketsWellMade == \A p \in Packet : WellMade(p)
<1> SUFFICES ASSUME NEW p \in Packet PROVE WellMade(p)
  OBVIOUS
<1>1. NoQuote \in Head /\ Right(NoQuote)
  <2>1. NoQuote \in Head /\ NoQuote.src = 0 /\ NoQuote.dst = 0 /\ NoQuote.rest = 0 /\ NoQuote.cs = Ones
    BY RewriteConstants, OnesType DEF NoQuote, Head, Word
  <2>2. Sum(NoQuote) = Fold[Ones]
    BY <2>1, OnesType DEF Sum
  <2>3. Fold[Ones] = Ones
    BY FoldIs, RewriteConstants DEF Ones
  <2>4. QED
    BY <2>1, <2>2, <2>3 DEF Right
<1>2. \A h \in Header : h \in Head /\ Right(h)
  BY DEF Header, Head
<1>3. \A x \in Rest : x \in Word /\ x # 0
  BY RewriteConstants
<1>4. CASE /\ p \in [kind : Kind, head : {h \in Header : h.rest \in Rest}, body : Word, cs : Word,
                     quote : {NoQuote}, whole : {TRUE}]
           /\ p.kind # "icmp error" /\ BodyRight(p)
           /\ IF p.kind = "other" THEN p.body = 0 /\ p.cs = 0 ELSE p.body # 0
  <2>1. p \in Shape
    BY <1>1, <1>2, <1>4 DEF Shape
  <2>2. Right(p.head) /\ p.head.rest # 0 /\ Right(p.quote)
    BY <1>1, <1>2, <1>3, <1>4
  <2>3. QED
    BY <1>4, <2>1, <2>2 DEF WellMade
<1>5. CASE /\ p \in [kind : {"icmp error"}, head : {h \in Header : h.rest \in Rest /\ h.dst \in IcmpTo},
                     body : Rest, cs : Word, quote : {h \in Header : h.rest # 0}, whole : BOOLEAN]
           /\ BodyRight(p)
  <2>1. p \in Shape
    BY <1>2, <1>3, <1>5 DEF Shape, Kind
  <2>2. Right(p.head) /\ p.head.rest # 0 /\ Right(p.quote) /\ p.body # 0 /\ p.quote.rest # 0
    BY <1>2, <1>3, <1>5
  <2>3. QED
    BY <1>5, <2>1, <2>2 DEF WellMade
<1>6. QED
  BY <1>4, <1>5 DEF Packet

\* The table need not even be a two-way mapping for the checksums to be right.
Table == translate \in [Word -> Word \cup {NoMap}]

\* The sum of two addresses, a rest and a checksum, and a change that keeps it.
SumRight(a, b, r, c) == Fold[a + b + r + c] = Ones
MadeUp(a, b, c, a2, b2, c2) == Multiple((a2 + b2 + c2) - (a + b + c))

\* Two words change and the checksum makes up for it: the sum stays right.
LEMMA SumRepaired ==
  ASSUME NEW a \in Nat, NEW b \in Nat, NEW r \in Nat, NEW c \in Nat,
         NEW a2 \in Nat, NEW b2 \in Nat, NEW c2 \in Nat,
         r # 0, SumRight(a, b, r, c), MadeUp(a, b, c, a2, b2, c2)
  PROVE  SumRight(a2, b2, r, c2)
<1> DEFINE x == a + b + r + c
           y == a2 + b2 + r + c2
<1>1. x \in Nat /\ y \in Nat /\ y # 0 /\ y - x = (a2 + b2 + c2) - (a + b + c)
  OBVIOUS
<1>2. Fold[x] = Ones
  BY DEF SumRight
<1> HIDE DEF x, y
<1>3. Multiple(y - x)
  BY <1>1 DEF MadeUp
<1>4. Fold[y] = Ones
  BY <1>1, <1>2, <1>3, StaysRight
<1>5. QED
  BY <1>4 DEF y, SumRight

\* A header that is moved stays right.
LEMMA MovedRight ==
  ASSUME Table, NEW h \in Head, Mapped(h)
  PROVE  /\ Moved(h) \in Head
         /\ Moved(h).src = translate[h.src] /\ Moved(h).dst = translate[h.dst]
         /\ Moved(h).rest = h.rest /\ Moved(h).cs = csumUpdate(h.cs, Ends(h), New(h))
         /\ translate[h.src] \in Word /\ translate[h.dst] \in Word
         /\ Right(h) /\ h.rest # 0 => Right(Moved(h))
<1> DEFINE c == csumUpdate(h.cs, Ends(h), New(h))
           s == translate[h.src]
           d == translate[h.dst]
<1>1. h.src \in Word /\ h.dst \in Word /\ h.rest \in Word /\ h.cs \in Word
  BY DEF Head
<1>2. s \in Word /\ d \in Word
  BY <1>1 DEF Table, Mapped
<1>3. c \in Word /\ Multiple((s + d + c) - (h.src + h.dst + h.cs))
  BY <1>1, <1>2, UpdateFits DEF Ends, New
<1>4. Moved(h) = [h EXCEPT !.src = s, !.dst = d, !.cs = c]
  BY DEF Moved
<1> HIDE DEF c, s, d
<1>5. /\ Moved(h) \in Head
      /\ Moved(h).src = s /\ Moved(h).dst = d /\ Moved(h).rest = h.rest /\ Moved(h).cs = c
  BY <1>2, <1>3, <1>4 DEF Head
<1>6. ASSUME Right(h), h.rest # 0 PROVE Right(Moved(h))
  <2>1. SumRight(h.src, h.dst, h.rest, h.cs) /\ MadeUp(h.src, h.dst, h.cs, s, d, c)
    BY <1>3, <1>6 DEF Right, Sum, SumRight, MadeUp
  <2>2. /\ h.src \in Nat /\ h.dst \in Nat /\ h.rest \in Nat /\ h.cs \in Nat
        /\ s \in Nat /\ d \in Nat /\ c \in Nat
    BY <1>1, <1>2, <1>3, OnesType
  <2>3. SumRight(s, d, h.rest, c)
    BY <1>6, <2>1, <2>2, SumRepaired
  <2>4. QED
    BY <1>5, <2>3 DEF Right, Sum, SumRight
<1>7. QED
  BY <1>2, <1>5, <1>6 DEF s, d, c

\* The checksum of a body that is summed with the addresses of the header.
LEMMA L4Repaired ==
  ASSUME Table, NEW p \in Shape, Mapped(p.head), p.body # 0, L4Sum(p) = Ones,
         NEW q \in Shape, q.head = Moved(p.head), q.body = p.body,
         MadeUp(p.head.src, p.head.dst, p.cs, translate[p.head.src], translate[p.head.dst], q.cs)
  PROVE  L4Sum(q) = Ones
<1> DEFINE h  == p.head
           s  == translate[h.src]
           d  == translate[h.dst]
           b  == p.body
           cs == p.cs
           c  == q.cs
           o1 == h.src
           o2 == h.dst
<1>1. h \in Head /\ h.src \in Word /\ h.dst \in Word /\ b \in Word /\ cs \in Word /\ c \in Word
  BY DEF Shape, Head
<1>2. s \in Word /\ d \in Word /\ q.head.src = s /\ q.head.dst = d
  BY <1>1, MovedRight
<1>3. b # 0 /\ SumRight(o1, o2, b, cs)
  BY DEF L4Sum, SumRight
<1>4. MadeUp(o1, o2, cs, s, d, c)
  OBVIOUS
<1>5. /\ o1 \in Nat /\ o2 \in Nat /\ b \in Nat /\ cs \in Nat
      /\ s \in Nat /\ d \in Nat /\ c \in Nat
  BY <1>1, <1>2, OnesType
<1> HIDE DEF h, s, d, b, cs, c, o1, o2
<1>6. SumRight(s, d, b, c)
  BY <1>3, <1>4, <1>5, SumRepaired, Zenon
<1>7. QED
  BY <1>2, <1>6 DEF L4Sum, SumRight, b, c

\* What csumUpdate does to a checksum that is summed with the addresses of a header.
LEMMA AddressesMadeUp ==
  ASSUME Table, NEW h \in Head, Mapped(h), NEW cs \in Word
  PROVE  LET c == csumUpdate(cs, Ends(h), New(h))
         IN c \in Word /\ MadeUp(h.src, h.dst, cs, translate[h.src], translate[h.dst], c)
<1>1. h.src \in Word /\ h.dst \in Word /\ translate[h.src] \in Word /\ translate[h.dst] \in Word
  BY MovedRight DEF Head
<1>2. QED
  BY <1>1, UpdateFits DEF Ends, New, MadeUp

\* The UDP checksum, which is never zero if there was one.
LEMMA UdpMadeUp ==
  ASSUME Table, NEW h \in Head, Mapped(h), NEW cs \in Word, cs # 0
  PROVE  LET c == udpChecksum(cs, Ends(h), New(h))
         IN c \in Word /\ c # 0 /\ MadeUp(h.src, h.dst, cs, translate[h.src], translate[h.dst], c)
<1> DEFINE f == csumUpdate(cs, Ends(h), New(h))
           c == udpChecksum(cs, Ends(h), New(h))
           s == translate[h.src]
           d == translate[h.dst]
           x == (s + d + f) - (h.src + h.dst + cs)
<1>1. f \in Word /\ Multiple(x)
  BY AddressesMadeUp DEF MadeUp
<1>2. c = IF f = 0 THEN Ones ELSE f
  BY DEF udpChecksum
<1>3. h.src \in Nat /\ h.dst \in Nat /\ s \in Nat /\ d \in Nat /\ cs \in Nat /\ f \in Nat /\ Ones \in Nat \ {0}
  BY <1>1, MovedRight, OnesType DEF Head
<1>4. CASE f # 0
  BY <1>1, <1>2, <1>4 DEF MadeUp
<1>5. CASE f = 0
  <2>1. Multiple(Ones)
    <3>1. Ones = Ones * 1
      BY <1>3
    <3>2. QED
      BY <3>1 DEF Multiple
  <2>2. x \in Int
    BY <1>3
  <2>3. Multiple(x + Ones)
    BY <1>1, <1>3, <2>1, <2>2, MultipleSum
  <2>4. x + Ones = (s + d + c) - (h.src + h.dst + cs)
    BY <1>2, <1>3, <1>5
  <2>5. c = Ones
    BY <1>2, <1>5
  <2>6. QED
    BY <1>3, <2>3, <2>4, <2>5, OnesType DEF MadeUp
<1>6. QED
  BY <1>4, <1>5

\* The sum of a quoted header and the message around it, and a change of the quoted
\* checksum that the message's makes up for.
QuoteRight(a, b, r, q, t, c) == Fold[a + b + r + q + t + c] = Ones
Follows(q, c, q2, c2) == Multiple((q2 + c2) - (q + c))

\* The checksum around a quote makes up for its addresses, then for its checksum.
LEMMA QuoteRepaired ==
  ASSUME NEW a \in Nat, NEW b \in Nat, NEW r \in Nat, NEW q \in Nat, NEW t \in Nat, NEW c \in Nat,
         NEW a2 \in Nat, NEW b2 \in Nat, NEW q2 \in Nat, NEW c1 \in Nat, NEW c2 \in Nat,
         t # 0, QuoteRight(a, b, r, q, t, c), MadeUp(a, b, c, a2, b2, c1), Follows(q, c1, q2, c2)
  PROVE  QuoteRight(a2, b2, r, q2, t, c2)
<1> DEFINE x == a + b + r + q + t + c
           y == a2 + b2 + r + q2 + t + c2
           f == (a2 + b2 + c1) - (a + b + c)
           g == (q2 + c2) - (q + c1)
<1>1. x \in Nat /\ y \in Nat /\ y # 0 /\ f \in Int /\ g \in Int /\ y - x = f + g
  OBVIOUS
<1>2. Fold[x] = Ones /\ Multiple(f) /\ Multiple(g)
  BY DEF QuoteRight, MadeUp, Follows
<1> HIDE DEF x, y, f, g
<1>3. Multiple(y - x)
  BY <1>1, <1>2, MultipleSum
<1>4. Fold[y] = Ones
  BY <1>1, <1>2, <1>3, StaysRight
<1>5. QED
  BY <1>4 DEF y, QuoteRight

\* A checksum follows a field that does not change by not changing.
LEMMA FollowsSame ==
  ASSUME NEW q \in Nat, NEW c \in Nat
  PROVE  Follows(q, c, q, c)
<1>1. (q + c) - (q + c) = 0
  OBVIOUS
<1>2. Ones * 0 = 0
  BY OnesType
<1>3. Multiple(0)
  BY <1>2 DEF Multiple
<1>4. QED
  BY <1>1, <1>3 DEF Follows

\* The quote of an ICMP error and the message around it.
LEMMA QuotedRight ==
  ASSUME Table, NEW p \in Shape, p.kind = "icmp error", p.body # 0, QuoteSum(p) = Ones,
         Right(p.quote), p.quote.rest # 0
  PROVE  LET q == rewriteQuoted(p)
         IN /\ q \in Shape /\ q.kind = p.kind /\ q.head = p.head /\ q.whole = p.whole
            /\ QuoteSum(q) = Ones
            /\ q.whole => Right(q.quote)
<1> DEFINE h == p.quote
           a == csumUpdate(p.cs, Ends(h), New(h))
           m == IF p.whole THEN Moved(h) ELSE [Moved(h) EXCEPT !.cs = h.cs]
           c == IF p.whole THEN csumUpdate1(a, h.cs, m.cs) ELSE a
           q == rewriteQuoted(p)
<1>1. CASE ~Mapped(h) \/ New(h) = Ends(h)
  BY <1>1 DEF rewriteQuoted
<1>2. CASE Mapped(h) /\ New(h) # Ends(h)
  <2>1. q = [p EXCEPT !.quote = m, !.cs = c]
    BY <1>2 DEF rewriteQuoted
  <2>2. h \in Head /\ p.cs \in Word /\ p.body \in Word /\ p.whole \in BOOLEAN
    BY DEF Shape
  <2>3. /\ Moved(h) \in Head /\ Moved(h).src = translate[h.src] /\ Moved(h).dst = translate[h.dst]
        /\ Moved(h).rest = h.rest
        /\ translate[h.src] \in Word /\ translate[h.dst] \in Word
        /\ Right(Moved(h))
    BY <1>2, <2>2, MovedRight
  <2>4. a \in Word /\ MadeUp(h.src, h.dst, p.cs, translate[h.src], translate[h.dst], a)
    BY <1>2, <2>2, AddressesMadeUp
  <2> DEFINE s == translate[h.src]
             d == translate[h.dst]
  <2>5. /\ m \in Head /\ m.src = s /\ m.dst = d /\ m.rest = h.rest
        /\ m.cs \in Word /\ h.cs \in Word /\ h.src \in Word /\ h.dst \in Word /\ h.rest \in Word
        /\ p.whole = TRUE => m = Moved(h)
        /\ p.whole = FALSE => m.cs = h.cs
    BY <2>2, <2>3 DEF Head
  <2> HIDE DEF a, m, s, d
  <2>6. c \in Word /\ Follows(h.cs, a, m.cs, c)
    <3> DEFINE o == h.cs
               n == m.cs
    <3>1. o \in Word /\ n \in Word /\ a \in Word
      BY <2>4, <2>5
    <3>2. CASE p.whole = TRUE
      <4>1. c = csumUpdate1(a, o, n)
        BY <3>2
      <4>2. QED
        BY <3>1, <4>1, Update1Fits DEF Follows
    <3>3. CASE p.whole = FALSE
      <4>1. c = a /\ n = o
        BY <2>5, <3>3
      <4>2. o \in Nat /\ a \in Nat
        BY <3>1, OnesType
      <4>3. Follows(o, a, o, a)
        BY <4>2, FollowsSame
      <4>4. QED
        BY <3>1, <4>1, <4>3
    <3>4. QED
      BY <2>2, <3>2, <3>3
  <2>7. /\ q \in Shape /\ q.kind = p.kind /\ q.head = p.head /\ q.whole = p.whole /\ q.body = p.body
        /\ q.quote = m /\ q.cs = c
    BY <2>1, <2>5, <2>6 DEF Shape
  <2>8. q.whole => Right(q.quote)
    BY <2>2, <2>3, <2>5, <2>7
  <2>9. QuoteSum(q) = Ones
    <3> DEFINE o1 == h.src  o2 == h.dst  o3 == h.rest  o4 == h.cs  o5 == p.body  o6 == p.cs
               n4 == m.cs
    <3>1. /\ o1 \in Nat /\ o2 \in Nat /\ o3 \in Nat /\ o4 \in Nat /\ o5 \in Nat /\ o6 \in Nat
          /\ s \in Nat /\ d \in Nat /\ n4 \in Nat /\ c \in Nat /\ a \in Nat
      BY <2>2, <2>3, <2>4, <2>5, <2>6, OnesType DEF s, d
    <3>2. MadeUp(o1, o2, o6, s, d, a) /\ Follows(o4, a, n4, c)
      BY <2>4, <2>6 DEF s, d
    <3>3. o5 # 0 /\ QuoteRight(o1, o2, o3, o4, o5, o6)
      BY DEF QuoteSum, QuoteRight
    <3>4. QuoteSum(q) = Ones <=> QuoteRight(s, d, o3, n4, o5, c)
      BY <2>5, <2>7 DEF QuoteSum, QuoteRight
    <3> HIDE DEF o1, o2, o3, o4, o5, o6, n4, c
    <3>5. QuoteRight(s, d, o3, n4, o5, c)
      BY <3>1, <3>2, <3>3, QuoteRepaired, Zenon
    <3>6. QED
      BY <3>4, <3>5
  <2>10. QED
    BY <2>7, <2>8, <2>9
<1>3. QED
  BY <1>1, <1>2

\* A packet that was right is right after its translation.
LEMMA RewriteRight ==
  ASSUME Table, NEW p, WellMade(p), Mapped(p.head)
  PROVE  LET q == rewrite(p)
         IN /\ Right(q.head) /\ BodyRight(q)
            /\ q.whole => Right(q.quote)
            /\ q.kind = "udp" => (q.cs = 0 <=> p.cs = 0)
<1> DEFINE h == p.head
           r == [p EXCEPT !.head = Moved(h)]
           q == rewrite(p)
<1>1. CASE New(h) = Ends(h)
  BY <1>1 DEF rewrite, WellMade
<1>2. CASE New(h) # Ends(h)
  <2>1. p \in Shape /\ h \in Head /\ p.cs \in Word /\ p.kind \in Kind /\ Right(h) /\ h.rest # 0
    BY DEF WellMade, Shape
  <2>2. Moved(h) \in Head /\ Right(Moved(h))
    BY <2>1, MovedRight
  <2>3. /\ r \in Shape /\ r.head = Moved(h) /\ r.kind = p.kind /\ r.cs = p.cs /\ r.body = p.body
        /\ r.quote = p.quote /\ r.whole = p.whole
    BY <2>1, <2>2 DEF Shape
  <2>4. CASE p.kind = "tcp"
    <3> DEFINE c == csumUpdate(p.cs, Ends(h), New(h))
    <3>1. c \in Word /\ MadeUp(h.src, h.dst, p.cs, translate[h.src], translate[h.dst], c)
      BY <2>1, AddressesMadeUp
    <3>2. q = [r EXCEPT !.cs = c]
      BY <1>2, <2>4 DEF rewrite
    <3> HIDE DEF c, r, q
    <3>3. /\ q \in Shape /\ q.head = Moved(h) /\ q.kind = p.kind /\ q.cs = c /\ q.body = p.body
          /\ q.quote = p.quote
      BY <2>3, <3>1, <3>2 DEF Shape
    <3>4. L4Sum(p) = Ones /\ p.body # 0 /\ Right(p.quote)
      BY <2>4 DEF WellMade, BodyRight
    <3>5. L4Sum(q) = Ones
      BY <2>1, <3>1, <3>3, <3>4, L4Repaired
    <3>6. BodyRight(q)
      BY <2>4, <3>3, <3>5 DEF BodyRight
    <3>7. QED
      BY <2>2, <2>4, <3>3, <3>4, <3>6 DEF q
  <2>5. CASE p.kind = "udp" /\ p.cs # 0
    <3> DEFINE c == udpChecksum(p.cs, Ends(h), New(h))
    <3>1. c \in Word /\ c # 0 /\ MadeUp(h.src, h.dst, p.cs, translate[h.src], translate[h.dst], c)
      BY <2>1, <2>5, UdpMadeUp
    <3>2. q = [r EXCEPT !.cs = c]
      BY <1>2, <2>5 DEF rewrite
    <3> HIDE DEF c, r, q
    <3>3. /\ q \in Shape /\ q.head = Moved(h) /\ q.kind = p.kind /\ q.cs = c /\ q.body = p.body
          /\ q.quote = p.quote
      BY <2>3, <3>1, <3>2 DEF Shape
    <3>4. L4Sum(p) = Ones /\ p.body # 0 /\ Right(p.quote)
      BY <2>5 DEF WellMade, BodyRight
    <3>5. L4Sum(q) = Ones
      BY <2>1, <3>1, <3>3, <3>4, L4Repaired
    <3>6. BodyRight(q)
      BY <2>5, <3>3, <3>5 DEF BodyRight
    <3>7. QED
      BY <2>2, <2>5, <3>1, <3>3, <3>4, <3>6 DEF q
  <2>6. CASE p.kind = "udp" /\ p.cs = 0
    <3>1. q = [r EXCEPT !.cs = 0]
      BY <1>2, <2>6 DEF rewrite, udpChecksum
    <3> HIDE DEF r, q
    <3>2. q.head = Moved(h) /\ q.kind = p.kind /\ q.cs = 0 /\ q.quote = p.quote
      BY <2>3, <3>1 DEF Shape
    <3>3. BodyRight(q)
      BY <2>6, <3>2 DEF BodyRight
    <3>4. Right(p.quote)
      BY DEF WellMade
    <3>5. QED
      BY <2>2, <2>6, <3>2, <3>3, <3>4 DEF q
  <2>7. CASE p.kind = "icmp error"
    <3>1. q = rewriteQuoted(r)
      BY <1>2, <2>7 DEF rewrite
    <3>2. QuoteSum(p) = Ones /\ p.body # 0 /\ Right(p.quote) /\ p.quote.rest # 0
      BY <2>7 DEF WellMade, BodyRight
    <3> HIDE DEF r, q
    <3>3. QuoteSum(r) = Ones
      BY <2>3, <3>2 DEF QuoteSum
    <3>4. /\ q.kind = r.kind /\ q.head = r.head /\ QuoteSum(q) = Ones
          /\ q.whole => Right(q.quote)
      BY <2>3, <2>7, <3>1, <3>2, <3>3, QuotedRight
    <3>5. BodyRight(q)
      BY <2>3, <2>7, <3>4 DEF BodyRight
    <3>6. QED
      BY <2>2, <2>3, <2>7, <3>4, <3>5 DEF q
  <2>8. CASE p.kind = "other"
    <3>1. q = r
      BY <1>2, <2>8 DEF rewrite
    <3> HIDE DEF r, q
    <3>2. BodyRight(q) /\ Right(q.quote)
      BY <2>3, <2>8, <3>1 DEF BodyRight, WellMade
    <3>3. QED
      BY <2>2, <2>3, <2>8, <3>1, <3>2 DEF q
  <2>9. QED
    BY <2>1, <2>4, <2>5, <2>6, <2>7, <2>8 DEF Kind
<1>3. QED
  BY <1>1, <1>2

\* The inductive invariant: the packet came well made and is untouched until it is
\* forwarded, and then its checksums are right.
PacketInv ==
  /\ Table
  /\ WellMade(before)
  /\ fate \in {"new", "forwarded", "dropped"}
  /\ fate = "new" => packet = before
  /\ ChecksumsRepaired

(***************************************************************************)
(* Whatever the size of a word, the table and the packet: every checksum   *)
(* of a packet that is forwarded is right.                                 *)
(***************************************************************************)
THEOREM RewriteSound == PacketSpec => []PacketInv
<1>1. PacketInit => PacketInv
  <2> SUFFICES ASSUME PacketInit PROVE PacketInv
    OBVIOUS
  <2>1. Table
    BY DEF PacketInit, Translation, Table
  <2>2. WellMade(before)
    BY PacketsWellMade DEF PacketInit
  <2>3. QED
    BY <2>1, <2>2 DEF PacketInit, PacketInv, ChecksumsRepaired
<1>2. PacketInv /\ [Translate]_packetVars => PacketInv'
  <2> SUFFICES ASSUME PacketInv, [Translate]_packetVars PROVE PacketInv'
    OBVIOUS
  <2>1. CASE Forward
    <3>1. /\ packet = before /\ WellMade(packet) /\ Mapped(packet.head) /\ Table
          /\ packet' = rewrite(packet) /\ UNCHANGED <<translate, before>> /\ fate' = "forwarded"
      BY <2>1 DEF Forward, PacketInv
    <3>2. /\ Right(packet'.head) /\ BodyRight(packet')
          /\ packet'.whole => Right(packet'.quote)
          /\ packet'.kind = "udp" => (packet'.cs = 0 <=> packet.cs = 0)
      BY <3>1, RewriteRight
    <3>3. ChecksumsRepaired'
      BY <3>1, <3>2 DEF ChecksumsRepaired
    <3>4. Table' /\ WellMade(before')
      BY <3>1 DEF Table
    <3>5. QED
      BY <3>1, <3>3, <3>4 DEF PacketInv
  <2>2. CASE Drop
    BY <2>2 DEF Drop, PacketInv, Table, ChecksumsRepaired
  <2>3. CASE UNCHANGED packetVars
    BY <2>3 DEF packetVars, PacketInv, Table, ChecksumsRepaired
  <2>4. QED
    BY <2>1, <2>2, <2>3 DEF Translate
<1>3. QED
  BY <1>1, <1>2, PTL DEF PacketSpec

\* rewrite repairs every checksum it disturbs, and keeps "no UDP checksum" apart from one.
THEOREM ChecksumsCorrect == PacketSpec => []ChecksumsRepaired
<1>1. PacketInv => ChecksumsRepaired
  BY DEF PacketInv
<1>2. QED
  BY <1>1, RewriteSound, PTL

-------------------------------------------------------------------------------
(***************************************************************************)
(* The division of a range.  A block is a multiple of its size, its upper  *)
(* half is a multiple of half of it, and the whole address space is a      *)
(* multiple of both, so that nothing wraps around.                         *)
(***************************************************************************)
\* The first n powers of two.
Doubles(n, f) ==
  /\ f \in [0 .. n -> Nat]
  /\ f[0] = 1
  /\ \A i \in 1 .. n : f[i] = 2 * f[i - 1]

\* They exist: the least n without them would extend those of n - 1.
LEMMA DoublesExist == \A n \in Nat : \E f : Doubles(n, f)
<1>1. SUFFICES ASSUME NEW T \in SUBSET Nat, T = {n \in Nat : ~\E f : Doubles(n, f)}, T # {}
               PROVE  FALSE
  OBVIOUS
<1>2. PICK n \in T : \A m \in T : n <= m
  BY <1>1, LeastNat
<1>3. n \in Nat /\ ~\E f : Doubles(n, f)
  BY <1>1
<1>4. CASE n = 0
  <2>1. Doubles(0, [i \in 0 .. 0 |-> 1])
    BY DEF Doubles
  <2>2. QED
    BY <1>3, <1>4, <2>1
<1>5. CASE n # 0
  <2>1. n - 1 \in Nat /\ n - 1 \notin T
    BY <1>2, <1>3, <1>5
  <2>2. PICK f : Doubles(n - 1, f)
    BY <1>1, <2>1
  <2> DEFINE g == [i \in 0 .. n |-> IF i = n THEN 2 * f[n - 1] ELSE f[i]]
  <2>3. f \in [0 .. (n - 1) -> Nat] /\ f[0] = 1 /\ \A i \in 1 .. (n - 1) : f[i] = 2 * f[i - 1]
    BY <2>2 DEF Doubles
  <2>4. g \in [0 .. n -> Nat]
    <3>1. ASSUME NEW i \in 0 .. n PROVE (IF i = n THEN 2 * f[n - 1] ELSE f[i]) \in Nat
      <4>1. n - 1 \in 0 .. (n - 1)
        BY <1>3, <1>5
      <4>2. f[n - 1] \in Nat
        BY <2>3, <4>1
      <4>3. CASE i = n
        BY <4>2, <4>3
      <4>4. CASE i # n
        <5>1. i \in 0 .. (n - 1)
          BY <1>3, <4>4
        <5>2. QED
          BY <2>3, <4>4, <5>1
      <4>5. QED
        BY <4>3, <4>4
    <3>2. QED
      BY <3>1
  <2>5. g[0] = 1
    BY <1>3, <1>5, <2>3
  <2>6. ASSUME NEW i \in 1 .. n PROVE g[i] = 2 * g[i - 1]
    <3>1. i - 1 \in 0 .. n /\ i - 1 # n /\ i \in 0 .. n
      BY <1>3
    <3>2. g[i - 1] = f[i - 1]
      BY <3>1
    <3>3. CASE i = n
      BY <3>1, <3>2, <3>3
    <3>4. CASE i # n
      <4>1. i \in 1 .. (n - 1)
        BY <1>3, <3>4
      <4>2. QED
        BY <2>3, <3>1, <3>2, <3>4, <4>1
    <3>5. QED
      BY <3>3, <3>4
  <2> HIDE DEF g
  <2>7. Doubles(n, g)
    BY <2>4, <2>5, <2>6 DEF Doubles
  <2>8. QED
    BY <1>3, <2>7
<1>6. QED
  BY <1>4, <1>5

\* They are unique.
LEMMA DoublesAgree ==
  ASSUME NEW n \in Nat, NEW m \in Nat, NEW f, NEW g, Doubles(n, f), Doubles(m, g)
  PROVE  \A i \in Nat : i <= n /\ i <= m => f[i] = g[i]
<1>1. SUFFICES ASSUME NEW T \in SUBSET Nat,
                      T = {i \in Nat : i <= n /\ i <= m /\ f[i] # g[i]}, T # {}
               PROVE  FALSE
  OBVIOUS
<1>2. PICK i \in T : \A j \in T : i <= j
  BY <1>1, LeastNat
<1>3. i \in Nat /\ i <= n /\ i <= m /\ f[i] # g[i]
  BY <1>1
<1>4. i # 0
  BY <1>3 DEF Doubles
<1>5. i - 1 \in Nat /\ i - 1 <= n /\ i - 1 <= m /\ i - 1 \notin T
  BY <1>2, <1>3, <1>4
<1>6. f[i - 1] = g[i - 1]
  BY <1>1, <1>5
<1>7. i \in 1 .. n /\ i \in 1 .. m
  BY <1>3, <1>4
<1>8. QED
  BY <1>3, <1>6, <1>7 DEF Doubles

(***************************************************************************)
(* Power satisfies the equation that defines it.                           *)
(***************************************************************************)
LEMMA PowerIs == \A n \in Nat : Power[n] = IF n = 0 THEN 1 ELSE 2 * Power[n - 1]
<1> DEFINE F(n) == CHOOSE f : Doubles(n, f)
           g == [n \in Nat |-> F(n)[n]]
           Is(f) == f = [n \in Nat |-> IF n = 0 THEN 1 ELSE 2 * f[n - 1]]
<1>1. \A n \in Nat : Doubles(n, F(n))
  BY DoublesExist
<1> HIDE DEF F
<1>2. ASSUME NEW n \in Nat PROVE g[n] = IF n = 0 THEN 1 ELSE 2 * g[n - 1]
  <2>1. CASE n = 0
    BY <1>1, <2>1 DEF Doubles
  <2>2. CASE n # 0
    <3>1. n - 1 \in Nat /\ n \in 1 .. n
      BY <2>2
    <3>2. F(n)[n] = 2 * F(n)[n - 1]
      BY <1>1, <3>1 DEF Doubles
    <3>3. F(n)[n - 1] = F(n - 1)[n - 1]
      <4>1. Doubles(n, F(n)) /\ Doubles(n - 1, F(n - 1))
        BY <1>1, <3>1
      <4>2. n - 1 <= n /\ n - 1 <= n - 1
        BY <3>1
      <4>3. QED
        BY <3>1, <4>1, <4>2, DoublesAgree
    <3>4. QED
      BY <2>2, <3>1, <3>2, <3>3
  <2>3. QED
    BY <2>1, <2>2
<1>3. Is(g)
  <2>1. g = [n \in Nat |-> g[n]]
    OBVIOUS
  <2> HIDE DEF g
  <2>2. QED
    BY <1>2, <2>1
<1>4. Power = CHOOSE f : Is(f)
  BY DEF Power
<1>5. Is(Power)
  <2> HIDE DEF g, Is
  <2>1. QED
    BY <1>3, <1>4
<1>6. QED
  BY <1>5

\* A power of two is a number, and not zero.
LEMMA PowerType == \A n \in Nat : Power[n] \in Nat \ {0}
<1>1. SUFFICES ASSUME NEW T \in SUBSET Nat, T = {n \in Nat : Power[n] \notin Nat \ {0}}, T # {}
               PROVE  FALSE
  OBVIOUS
<1>2. PICK n \in T : \A m \in T : n <= m
  BY <1>1, LeastNat
<1>3. n \in Nat /\ Power[n] \notin Nat \ {0}
  BY <1>1
<1>4. n # 0
  BY <1>3, PowerIs
<1>5. n - 1 \in Nat /\ n - 1 \notin T
  BY <1>2, <1>3, <1>4
<1>6. Power[n - 1] \in Nat \ {0}
  BY <1>1, <1>5
<1>7. Power[n] = 2 * Power[n - 1]
  BY <1>3, <1>4, PowerIs
<1>8. QED
  BY <1>3, <1>6, <1>7

\* The product of two powers of two.
LEMMA PowerSum == \A a \in Nat, b \in Nat : Power[a + b] = Power[a] * Power[b]
<1>1. SUFFICES ASSUME NEW b \in Nat, NEW T \in SUBSET Nat,
                      T = {a \in Nat : Power[a + b] # Power[a] * Power[b]}, T # {}
               PROVE  FALSE
  OBVIOUS
<1>2. PICK a \in T : \A c \in T : a <= c
  BY <1>1, LeastNat
<1>3. a \in Nat /\ Power[a + b] # Power[a] * Power[b] /\ Power[b] \in Nat
  BY <1>1, PowerType
<1>4. a # 0
  <2>1. Power[0] = 1 /\ 0 + b = b
    BY PowerIs
  <2>2. QED
    BY <1>3, <2>1
<1>5. a - 1 \in Nat /\ a - 1 \notin T /\ (a - 1) + b \in Nat /\ (a + b) - 1 = (a - 1) + b
  BY <1>2, <1>3, <1>4
<1>6. Power[(a - 1) + b] = Power[a - 1] * Power[b]
  BY <1>1, <1>5
<1>7. Power[a] = 2 * Power[a - 1] /\ Power[a + b] = 2 * Power[(a - 1) + b]
  BY <1>3, <1>4, <1>5, PowerIs
<1>8. Power[a - 1] \in Nat
  BY <1>5, PowerType
<1>9. (2 * Power[a - 1]) * Power[b] = 2 * (Power[a - 1] * Power[b])
  BY <1>3, <1>8
<1>10. QED
  BY <1>3, <1>6, <1>7, <1>9

\* Powers of two grow.
LEMMA PowerGrows == \A a \in Nat, b \in Nat : a < b <=> Power[a] < Power[b]
<1>1. ASSUME NEW a \in Nat, NEW b \in Nat, a < b PROVE Power[a] < Power[b]
  <2> DEFINE d == b - a
  <2>1. d \in Nat /\ d # 0 /\ a + d = b /\ d - 1 \in Nat
    BY <1>1
  <2> HIDE DEF d
  <2>2. Power[b] = Power[a] * Power[d] /\ Power[d] = 2 * Power[d - 1]
    BY <2>1, PowerSum, PowerIs
  <2>3. Power[a] \in Nat \ {0} /\ Power[d - 1] \in Nat \ {0} /\ Power[d] \in Nat
    BY <2>1, PowerType
  <2>4. Power[d] >= 2
    BY <2>2, <2>3
  <2> DEFINE x == Power[a]
             y == Power[d]
  <2>5. x \in Nat \ {0} /\ y \in Nat /\ y >= 2
    BY <2>3, <2>4
  <2> HIDE DEF x, y
  <2>6. x < x * y
    BY <2>5
  <2>7. QED
    BY <2>2, <2>6 DEF x, y
<1>2. ASSUME NEW a \in Nat, NEW b \in Nat, ~(a < b) PROVE ~(Power[a] < Power[b])
  <2>1. Power[a] \in Nat /\ Power[b] \in Nat
    BY PowerType
  <2>2. CASE a = b
    BY <2>1, <2>2
  <2>3. CASE b < a
    BY <1>1, <2>1, <2>3
  <2>4. QED
    BY <1>2, <2>2, <2>3
<1>3. QED
  BY <1>1, <1>2

-------------------------------------------------------------------------------
\* The numbers with quotient q.
LEMMA Quotient ==
  ASSUME NEW z \in Nat \ {0}, NEW a \in Nat, NEW q \in Int
  PROVE  a \div z = q <=> z * q <= a /\ a < z * q + z
<1> DEFINE d == a \div z
           r == a % z
<1>1. d \in Int /\ r \in 0 .. (z - 1) /\ a = z * d + r
  OBVIOUS
<1> HIDE DEF d, r
<1>2. z * d \in Int /\ z * q \in Int
  BY <1>1
<1>3. ASSUME z * q <= a, a < z * q + z PROVE d = q
  <2>1. z * (d - q) = z * d - z * q /\ d - q \in Int
    BY <1>1
  <2>2. z * (d - q) < z /\ -z < z * (d - q)
    BY <1>1, <1>2, <1>3, <2>1
  <2>3. d - q = 0
    BY <2>1, <2>2, Multiples
  <2>4. QED
    BY <1>1, <2>3
<1>4. ASSUME d = q PROVE z * q <= a /\ a < z * q + z
  BY <1>1, <1>2, <1>4
<1>5. QED
  BY <1>3, <1>4 DEF d

\* A block of z numbers that starts at a multiple of z.
LEMMA Block ==
  ASSUME NEW z \in Nat \ {0}, NEW j \in Nat, NEW b \in Nat, b = z * j,
         NEW x \in Nat, b <= x, x < b + z, NEW m \in Nat, b + z <= m
  PROVE  {a \in 0 .. (m - 1) : a \div z = x \div z} = b .. (b + z - 1)
<1>1. x \div z = j
  BY Quotient
<1>2. ASSUME NEW a \in 0 .. (m - 1) PROVE a \div z = j <=> b <= a /\ a < b + z
  BY Quotient
<1>3. QED
  BY <1>1, <1>2

\* The start of a multiple of z is itself.
LEMMA NoRemainder ==
  ASSUME NEW z \in Nat \ {0}, NEW j \in Nat
  PROVE  (z * j) % z = 0
<1> DEFINE a == z * j
           d == a \div z
           r == a % z
<1>1. a \in Nat
  OBVIOUS
<1>2. d \in Int /\ r \in 0 .. (z - 1) /\ a = z * d + r
  BY <1>1
<1>3. d = j
  BY <1>1, Quotient
<1> HIDE DEF r, d
<1>4. z * d = z * j
  BY <1>3
<1>5. QED
  BY <1>1, <1>2, <1>4 DEF r

\* x lies in block q of 2z = w numbers, which starts at b and whose upper half is aligned too.
InHalves(x, b, z, w, m, q) ==
  /\ b \in Nat /\ b <= x /\ x < b + w /\ b + w <= m
  /\ b = w * q /\ b = z * (2 * q) /\ b + z = z * (2 * q + 1)
  /\ b % z = 0
  /\ (b + z) % m = b + z
  /\ (b + z) % z = 0

(***************************************************************************)
(* The halves of a block of 2z numbers, out of k such blocks.              *)
(***************************************************************************)
LEMMA Halves ==
  ASSUME NEW z \in Nat \ {0}, NEW w \in Nat, w = 2 * z, NEW k \in Nat, NEW m \in Nat, m = w * k,
         NEW x \in Nat, x < m
  PROVE  \E q \in Nat : InHalves(x, x - (x % w), z, w, m, q)
<1> DEFINE q == x \div w
           r == x % w
           b == x - r
<1>1. w \in Nat \ {0}
  OBVIOUS
<1>2. q \in Int /\ r \in 0 .. (w - 1) /\ x = w * q + r
  BY <1>1
<1> HIDE DEF q, r
<1>3. w * q \in Int
  BY <1>1, <1>2
<1>4. q \in Nat
  <2>1. CASE q <= -1
    <3>1. w * q <= -w
      BY <1>1, <1>2, <2>1
    <3>2. QED
      BY <1>1, <1>2, <1>3, <3>1
  <2>2. QED
    BY <1>2, <2>1
<1>5. q < k
  <2>1. CASE q >= k
    <3>1. w * q >= w * k
      BY <1>1, <1>2, <2>1
    <3>2. QED
      BY <1>1, <1>2, <1>3, <3>1
  <2>2. QED
    BY <1>2, <2>1
<1>6. b = w * q /\ b \in Nat /\ b <= x /\ x < b + w
  BY <1>1, <1>2, <1>3, <1>4
<1>7. b + w <= m
  <2>1. w * (q + 1) <= w * k
    BY <1>1, <1>4, <1>5
  <2>2. w * (q + 1) = w * q + w
    BY <1>1, <1>4
  <2>3. QED
    BY <1>3, <1>6, <2>1, <2>2
<1>8. b = z * (2 * q) /\ b + z = z * (2 * q + 1)
  <2>1. w * q = z * (2 * q) /\ z * (2 * q + 1) = z * (2 * q) + z
    BY <1>4
  <2>2. QED
    BY <1>6, <2>1
<1>9. 2 * q \in Nat /\ 2 * q + 1 \in Nat
  BY <1>4
<1>10. b % z = 0 /\ (b + z) % z = 0
  BY <1>8, <1>9, NoRemainder
<1> HIDE DEF b
<1>11. b + z \in 0 .. (m - 1)
  BY <1>1, <1>6, <1>7
<1>12. (b + z) % m = b + z
  BY <1>11
<1>13. QED
  BY <1>4, <1>6, <1>7, <1>8, <1>10, <1>12 DEF InHalves, b, r

-------------------------------------------------------------------------------
\* What Split makes of a range.
LEMMA SplitRight ==
  ASSUME NEW c \in Cidr, NEW r, r = SplitRange(c)
  PROVE  LET whole == Addresses(c)
             n == Addresses(r.nodes)
             s == Addresses(r.services)
         IN  /\ r.status \in {"refused", "split"}
             /\ r.status = "split" =>
                  /\ n \cup s = whole
                  /\ \A a \in n, b \in s : a < b
                  /\ r.nodes.bits = r.services.bits
                  /\ \A a \in n : r.nodes.addr <= a
                  /\ \A a \in s : r.services.addr <= a
             /\ (r.status = "refused") = (Cardinality(whole) < Power[SmallestHostBits])
<1> DEFINE x == c.addr
           i == c.bits
           m == Power[Width]
           w == BlockSize(i)
           k == Power[i]
           whole == Addresses(c)
<1>1. x \in 0 .. (m - 1) /\ i \in 0 .. Width /\ c = [addr |-> x, bits |-> i]
  BY DEF Cidr
<1>2. Width \in Nat /\ i \in Nat /\ Width - i \in Nat /\ i + (Width - i) = Width
      /\ SmallestHostBits \in Nat /\ SmallestHostBits >= 1
  BY <1>1, SplitConstants
<1>3. m \in Nat \ {0} /\ w \in Nat \ {0} /\ k \in Nat \ {0} /\ m = w * k
  <2>1. m \in Nat \ {0} /\ w \in Nat \ {0} /\ k \in Nat \ {0}
    BY <1>2, PowerType DEF BlockSize
  <2>2. m = k * w
    BY <1>2, PowerSum DEF BlockSize
  <2>3. QED
    BY <2>1, <2>2
<1>4. Masked(c) = [addr |-> x - (x % w), bits |-> i]
  BY <1>1 DEF Masked
<1>5. TooSmall(Masked(c)) <=> i > Width - SmallestHostBits
  BY <1>4 DEF TooSmall
<1>6. x \in Nat /\ x < m
  BY <1>1, <1>3
<1> HIDE DEF m, w, k
<1>7. Cardinality(whole) = w
  <2> DEFINE q == x \div w
             b == w * q
  <2>1. q \in Int /\ x % w \in 0 .. (w - 1) /\ x = w * q + (x % w)
    BY <1>3, <1>6, DivMod
  <2> HIDE DEF q
  <2>2. q \in Nat /\ q < k
    <3>1. CASE q <= -1
      <4>1. w * q <= -w /\ w * q \in Int
        BY <1>3, <2>1, <3>1
      <4>2. QED
        BY <1>3, <1>6, <2>1, <4>1
    <3>2. CASE q >= k
      <4>1. w * q >= w * k /\ w * q \in Int
        BY <1>3, <2>1, <3>2
      <4>2. QED
        BY <1>3, <1>6, <2>1, <4>1
    <3>3. QED
      BY <1>3, <2>1, <3>1, <3>2
  <2>3. b \in Nat /\ b <= x /\ x < b + w
    BY <1>3, <1>6, <2>1, <2>2
  <2>4. b + w <= m
    <3>1. w * (q + 1) <= w * k /\ w * (q + 1) = w * q + w
      BY <1>3, <2>2
    <3>2. QED
      BY <1>3, <3>1
  <2>5. whole = b .. (b + w - 1)
    <3>1. {a \in 0 .. (m - 1) : a \div w = x \div w} = b .. (b + w - 1)
      BY <1>3, <1>6, <2>2, <2>3, <2>4, Block
    <3>2. QED
      BY <1>1, <3>1 DEF Addresses, m, w
  <2> HIDE DEF b, whole
  <2>6. Cardinality(b .. (b + w - 1)) = w
    BY <1>3, <2>3, FS_Interval
  <2>7. QED
    BY <2>5, <2>6
<1>8. (i > Width - SmallestHostBits) = (Cardinality(whole) < Power[SmallestHostBits])
  <2>1. w = Power[Width - i]
    BY DEF w, BlockSize
  <2>2. (Width - i < SmallestHostBits) <=> (Power[Width - i] < Power[SmallestHostBits])
    BY <1>2, PowerGrows
  <2>3. (i > Width - SmallestHostBits) <=> Width - i < SmallestHostBits
    BY <1>2
  <2>4. QED
    BY <1>7, <2>1, <2>2, <2>3
<1>9. CASE i > Width - SmallestHostBits
  <2>1. r = [status |-> "refused"]
    BY <1>5, <1>9 DEF SplitRange
  <2>2. r.status = "refused" /\ r.status # "split"
    BY <2>1
  <2>3. QED
    BY <1>8, <1>9, <2>2
<1>10. CASE ~(i > Width - SmallestHostBits)
  <2> DEFINE z == BlockSize(i + 1)
             b == x - (x % w)
  <2>1. i + 1 \in Nat /\ Width - (i + 1) \in Nat /\ Width - i # 0 /\ (Width - i) - 1 = Width - (i + 1)
    BY <1>2, <1>10
  <2>2. z \in Nat \ {0} /\ w = 2 * z
    BY <1>2, <2>1, PowerType, PowerIs DEF BlockSize, w
  <2>3. PICK q \in Nat : InHalves(x, b, z, w, m, q)
    <3> HIDE DEF x, z
    <3>1. w \in Nat /\ k \in Nat /\ m \in Nat
      BY <1>3
    <3>2. QED
      BY <1>3, <1>6, <2>2, <3>1, Halves, Zenon
  <2> DEFINE low  == [addr |-> b, bits |-> i + 1]
             high == [addr |-> b + z, bits |-> i + 1]
  <2> USE DEF InHalves
  <2>4. UpperAddr(Masked(c)) = b + z
    BY <1>4, <2>3 DEF UpperAddr, m
  <2>5. Masked(low) = low /\ Masked(high) = high
    <3>1. b - 0 = b /\ (b + z) - 0 = b + z
      BY <2>2, <2>3
    <3>2. QED
      BY <2>3, <3>1 DEF Masked
  <2>6. r = [status |-> "split", nodes |-> low, services |-> high]
    BY <1>4, <1>5, <1>10, <2>4, <2>5 DEF SplitRange
  <2> HIDE DEF b, z
  <2>7. Addresses(c) = b .. (b + w - 1)
    <3> HIDE DEF x
    <3> DEFINE e == w * q
    <3>1. e \in Nat /\ e <= x /\ x < e + w /\ e + w <= m /\ b = e
      BY <1>3, <2>3
    <3>2. {a \in 0 .. (m - 1) : a \div w = x \div w} = e .. (e + w - 1)
      BY <1>3, <1>6, <3>1, Block
    <3>3. QED
      BY <1>1, <3>1, <3>2 DEF Addresses, m, w
  <2>8. Addresses(low) = b .. (b + z - 1)
    <3>1. b < b + z /\ b + z <= m /\ 2 * q \in Nat /\ b <= b
      BY <1>3, <2>2, <2>3
    <3>2. {a \in 0 .. (m - 1) : a \div z = b \div z} = b .. (b + z - 1)
      BY <1>3, <2>2, <2>3, <3>1, Block
    <3>3. QED
      BY <3>2 DEF Addresses, m, z
  <2>9. Addresses(high) = (b + z) .. (b + w - 1)
    <3> DEFINE t == b + z
    <3>1. t \in Nat /\ t <= t /\ t < t + z /\ t + z <= m /\ 2 * q + 1 \in Nat /\ t = z * (2 * q + 1)
      BY <1>3, <2>2, <2>3
    <3> HIDE DEF t
    <3>2. {a \in 0 .. (m - 1) : a \div z = t \div z} = t .. (t + z - 1)
      BY <1>3, <2>2, <3>1, Block
    <3>3. t + z - 1 = b + w - 1
      BY <2>2, <2>3 DEF t
    <3>4. Addresses(high) = {a \in 0 .. (m - 1) : a \div z = t \div z}
      BY DEF Addresses, m, z, t
    <3>5. QED
      BY <3>2, <3>3, <3>4 DEF t
  <2>10. r.status = "split" /\ r.nodes = low /\ r.services = high /\ r.status # "refused"
    BY <2>6
  <2>11. (b .. (b + z - 1)) \cup ((b + z) .. (b + w - 1)) = b .. (b + w - 1)
    BY <2>2, <2>3
  <2>12. \A a \in b .. (b + z - 1), d \in (b + z) .. (b + w - 1) : a < d
    BY <2>2, <2>3
  <2>13. /\ \A a \in b .. (b + z - 1) : b <= a
         /\ \A a \in (b + z) .. (b + w - 1) : b + z <= a
    BY <2>2, <2>3
  <2>14. low.bits = high.bits /\ low.addr = b /\ high.addr = b + z
    OBVIOUS
  <2> HIDE DEF low, high
  <2>15. QED
    BY <1>8, <1>10, <2>7, <2>8, <2>9, <2>10, <2>11, <2>12, <2>13, <2>14
<1>11. QED
  BY <1>9, <1>10

\* The inductive invariant: the result is that of the configured range.
SplitInv == cidr \in Cidr /\ (result # Pending => result = SplitRange(cidr))

(***************************************************************************)
(* Whatever the width of an address, the range and the limit: Split gives  *)
(* each address of the range to exactly one half, the halves are equally   *)
(* large and in order, and only ranges below the limit are refused.        *)
(***************************************************************************)
THEOREM SplitCorrect == SplitSpec => []HalvesPartitionRange
<1>1. SplitInit => SplitInv
  BY DEF SplitInit, SplitInv
<1>2. SplitInv /\ [Divide]_splitVars => SplitInv'
  BY DEF SplitInv, Divide, splitVars, Pending
<1>3. SplitInv => HalvesPartitionRange
  <2> SUFFICES ASSUME SplitInv PROVE HalvesPartitionRange
    OBVIOUS
  <2>1. CASE result = Pending
    BY <2>1 DEF Pending, HalvesPartitionRange
  <2>2. CASE result # Pending
    BY <2>2, SplitRight DEF SplitInv, HalvesPartitionRange
  <2>3. QED
    BY <2>1, <2>2
<1>4. QED
  BY <1>1, <1>2, <1>3, PTL DEF SplitSpec
===============================================================================
