------------------------------ MODULE IpamProofs ------------------------------
(***************************************************************************)
(* Proofs about the allocator, for every set of keys and every range.      *)
(*                                                                         *)
(* The inductive invariant is IpamInv: types and distinctness alone are    *)
(* not preserved, because a new address is fresh only if no address at or  *)
(* behind the scan position is unaccounted for (FieldsAgree).              *)
(***************************************************************************)
EXTENDS Ipam, TLAPS

(***************************************************************************)
(* A new allocator satisfies the invariant.                                *)
(***************************************************************************)
LEMMA IpamInitInv == Init => IpamInv
  BY IpamConstants DEF Init, IpamInv, IpamTypeOK, AddressesDistinct, FieldsAgree, Hosts, Prefix

(***************************************************************************)
(* With the invariant, the address Allocate takes for a new key is the one *)
(* it stands on.                                                           *)
(***************************************************************************)
LEMMA FirstCandidateIsNext ==
  ASSUME IpamInv, NEW ip, FirstCandidate(ip)
  PROVE  ip = next /\ ip \in Hosts /\ ip \notin used
<1>1. ip \in Prefix /\ next <= ip /\ ip \notin used
  BY DEF FirstCandidate, Candidates
<1>2. next \in Prefix /\ next \notin used
  BY <1>1, IpamConstants DEF IpamInv, IpamTypeOK, FieldsAgree, Prefix
<1>3. ip <= next
  BY <1>2, IpamConstants DEF FirstCandidate, Candidates, Prefix
<1>4. QED
  BY <1>1, <1>3, IpamConstants DEF IpamInv, IpamTypeOK, Prefix, Hosts

(***************************************************************************)
(* Allocate(k) preserves the invariant, whether it finds the key or takes  *)
(* a new address.                                                          *)
(***************************************************************************)
LEMMA AllocatePreservesInv ==
  ASSUME IpamInv, NEW k \in Key, NEW ip, Allocate(k, ip)
  PROVE  IpamInv'
<1>1. CASE AllocateKnown(k, ip)
  BY <1>1 DEF AllocateKnown, ipamVars, IpamInv, IpamTypeOK, AddressesDistinct, FieldsAgree
<1>2. CASE AllocateNew(k, ip)
  <2> USE <1>2 DEF AllocateNew
  <2>1. ip = next /\ ip \in Hosts /\ ip \notin used
    BY FirstCandidateIsNext
  <2>2. IpamTypeOK'
    BY <2>1, IpamConstants DEF IpamInv, IpamTypeOK, Hosts, Prefix
  <2>3. AddressesDistinct'
    <3>1. \A l \in Key : byKey[l] # NoAddr => byKey[l] # ip
      BY <2>1 DEF IpamInv, FieldsAgree
    <3>2. QED
      BY <3>1 DEF IpamInv, IpamTypeOK, AddressesDistinct
  <2>4. FieldsAgree'
    <3>1. used' = {byKey'[l] : l \in {j \in Key : byKey'[j] # NoAddr}}
      <4>1. ip # NoAddr
        BY <2>1, IpamConstants DEF Hosts, Prefix
      <4>2. \A l \in Key : byKey'[l] = IF l = k THEN ip ELSE byKey[l]
        BY DEF IpamInv, IpamTypeOK
      <4>3. QED
        BY <4>1, <4>2 DEF IpamInv, FieldsAgree
    <3>2. used' = (Base + 1) .. (next' - 1)
      BY <2>1, IpamConstants DEF IpamInv, IpamTypeOK, FieldsAgree, Hosts, Prefix
    <3>3. QED
      BY <3>1, <3>2 DEF FieldsAgree
  <2>5. QED
    BY <2>2, <2>3, <2>4 DEF IpamInv
<1>3. QED
  BY <1>1, <1>2 DEF Allocate

(***************************************************************************)
(* A failed Allocate preserves it too: it only fails when the scan already *)
(* stands at the end of the range.                                         *)
(***************************************************************************)
LEMMA AllocateFailsPreservesInv ==
  ASSUME IpamInv, NEW k \in Key, AllocateFails(k)
  PROVE  IpamInv'
<1>1. next = Base + Size
  <2>1. next \notin used /\ next \in (Base + 1) .. (Base + Size)
    BY IpamConstants DEF IpamInv, IpamTypeOK, FieldsAgree
  <2>2. next \notin Prefix
    BY <2>1, IpamConstants DEF AllocateFails, Candidates
  <2>3. QED
    BY <2>1, <2>2, IpamConstants DEF Prefix
<1>2. QED
  BY <1>1 DEF AllocateFails, IpamInv, IpamTypeOK, AddressesDistinct, FieldsAgree

\* An allocator built anew satisfies the invariant.
LEMMA RenewEstablishesInv == Renew => IpamInv'
  BY IpamConstants DEF Renew, IpamInv, IpamTypeOK, AddressesDistinct, FieldsAgree, Hosts, Prefix

\* Every step of the allocator preserves the invariant.
LEMMA IpamNextInv == IpamInv /\ [Next]_ipamVars => IpamInv'
<1> SUFFICES ASSUME IpamInv, [Next]_ipamVars PROVE IpamInv'
  OBVIOUS
<1>1. ASSUME NEW k \in Key, NEW ip \in Prefix, Allocate(k, ip) PROVE IpamInv'
  BY <1>1, AllocatePreservesInv
<1>2. ASSUME NEW k \in Key, AllocateFails(k) PROVE IpamInv'
  BY <1>2, AllocateFailsPreservesInv
<1>3. CASE UNCHANGED ipamVars
  BY <1>3 DEF ipamVars, IpamInv, IpamTypeOK, AddressesDistinct, FieldsAgree
<1>4. QED
  BY <1>1, <1>2, <1>3 DEF Next

(***************************************************************************)
(* For every set of keys and every range, no two keys ever hold the same   *)
(* address, and the allocator's three fields agree.                        *)
(***************************************************************************)
THEOREM AllocatorCorrect == Spec => []IpamInv
  BY IpamInitInv, IpamNextInv, PTL DEF Spec

(***************************************************************************)
(* "address space exhausted" is only said when every host address of the   *)
(* range has been handed out.                                              *)
(***************************************************************************)
THEOREM ExhaustionIsReal == Spec => []ExhaustedOnlyWhenFull
<1>1. IpamInv => ExhaustedOnlyWhenFull
  BY IpamConstants
     DEF IpamInv, IpamTypeOK, FieldsAgree, ExhaustedOnlyWhenFull, Candidates, Prefix, Hosts
<1>2. QED
  BY <1>1, AllocatorCorrect, PTL

(***************************************************************************)
(* No step takes an address away from a key or changes it.                 *)
(***************************************************************************)
THEOREM KeysKeepTheirAddress == Spec => AddressKept
<1>1. IpamInv /\ [Next]_ipamVars =>
        [\A k \in Key : byKey[k] # NoAddr => byKey'[k] = byKey[k]]_ipamVars
  BY DEF Next, Allocate, AllocateKnown, AllocateNew, AllocateFails, ipamVars,
         IpamInv, IpamTypeOK
<1>2. QED
  BY <1>1, AllocatorCorrect, PTL DEF Spec, AddressKept
===============================================================================
