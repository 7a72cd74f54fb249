--------------------------------- MODULE Ipam ---------------------------------
(***************************************************************************)
(* The overlay address allocator of server/ipam/ipam.go.                   *)
(*                                                                         *)
(* An Allocator hands out addresses of one IPv4 range, the first address   *)
(* (the network address) excepted.  A key (a device UUID, or the name of a *)
(* service) keeps the address it got first: nothing is ever given back.    *)
(* Addresses are natural numbers, the 32-bit value of the dotted form.     *)
(***************************************************************************)
EXTENDS Integers

CONSTANTS
  Key,      \* device UUIDs, or service names
  Base,     \* the first address of the range (a.prefix.Addr())
  Size,     \* how many addresses the range has
  NoAddr    \* "this key has no address yet": a missing map entry

VARIABLES
  next,     \* the next candidate (a.next)
  used,     \* the addresses handed out (a.used)
  byKey     \* key -> address, or NoAddr (a.byKey)

ASSUME IpamConstants ==
  /\ Base \in Nat
  /\ Size \in Nat \ {0}
  /\ NoAddr \notin Nat

ipamVars == <<next, used, byKey>>

(***************************************************************************)
(* prefix.Contains, as a set of addresses.                                 *)
(***************************************************************************)
Prefix == Base .. (Base + Size - 1)

(***************************************************************************)
(* The addresses Allocate can hand out at all: the network address is      *)
(* skipped by starting at prefix.Addr().Next().                            *)
(***************************************************************************)
Hosts == Prefix \ {Base}

(***************************************************************************)
(* New and newFrom: an empty allocator standing on the first host address. *)
(***************************************************************************)
Init ==
  /\ next = Base + 1
  /\ used = {}
  /\ byKey = [k \in Key |-> NoAddr]

(***************************************************************************)
(* The candidates the scan of Allocate still has in front of it.           *)
(***************************************************************************)
Candidates == {ip \in Prefix : next <= ip /\ ip \notin used}

FirstCandidate(ip) == ip \in Candidates /\ \A j \in Candidates : ip <= j

(***************************************************************************)
(* Allocate(key) returns ip.  A known key gets its old address and nothing *)
(* changes; a new one takes the first unused address of the scan.          *)
(***************************************************************************)
AllocateKnown(k, ip) ==
  /\ byKey[k] # NoAddr
  /\ ip = byKey[k]
  /\ UNCHANGED ipamVars

\* Slip: a known key is not looked up and gets a fresh address.
AllocateAfresh(k, ip) ==
  /\ FirstCandidate(ip)
  /\ next' = ip + 1
  /\ used' = used \cup {ip}
  /\ byKey' = [byKey EXCEPT ![k] = ip]

\* Slip: the scan moves on by two.
AllocateSkipping(k, ip) ==
  /\ byKey[k] = NoAddr
  /\ FirstCandidate(ip)
  /\ next' = ip + 2
  /\ used' = used \cup {ip}
  /\ byKey' = [byKey EXCEPT ![k] = ip]

\* Slip: the address is neither marked as used nor passed by the scan.
AllocateUnmarked(k, ip) ==
  /\ byKey[k] = NoAddr
  /\ FirstCandidate(ip)
  /\ byKey' = [byKey EXCEPT ![k] = ip]
  /\ UNCHANGED <<next, used>>

AllocateNew(k, ip) ==
  /\ byKey[k] = NoAddr
  /\ FirstCandidate(ip)
  /\ next' = ip + 1
  /\ used' = used \cup {ip}
  /\ byKey' = [byKey EXCEPT ![k] = ip]

Allocate(k, ip) == AllocateKnown(k, ip) \/ AllocateNew(k, ip)

(***************************************************************************)
(* Allocate(key) returns "address space exhausted": the scan has run off   *)
(* the end of the range.                                                   *)
(***************************************************************************)
AllocateFails(k) ==
  /\ byKey[k] = NoAddr
  /\ Candidates = {}
  /\ next' = Base + Size
  /\ UNCHANGED <<used, byKey>>

(***************************************************************************)
(* A restarted server builds its allocators anew.                          *)
(***************************************************************************)
Renew ==
  /\ next' = Base + 1
  /\ used' = {}
  /\ byKey' = [k \in Key |-> NoAddr]

Next ==
  \E k \in Key : (\E ip \in Prefix : Allocate(k, ip)) \/ AllocateFails(k)

Spec == Init /\ [][Next]_ipamVars

-------------------------------------------------------------------------------
(* Properties *)

IpamTypeOK ==
  /\ next \in (Base + 1) .. (Base + Size)
  /\ used \subseteq Hosts
  /\ byKey \in [Key -> Hosts \cup {NoAddr}]

(***************************************************************************)
(* Two keys never hold the same address, and the three fields of the       *)
(* allocator agree: used is exactly what byKey hands out, and everything   *)
(* behind the scan position, and nothing ahead of it, has been handed out. *)
(* This is what Allocate relies on when it never looks back (ipam.go:90).  *)
(***************************************************************************)
AddressesDistinct ==
  \A k, l \in Key : byKey[k] = byKey[l] /\ byKey[k] # NoAddr => k = l

FieldsAgree ==
  /\ used = {byKey[k] : k \in {l \in Key : byKey[l] # NoAddr}}
  /\ used = (Base + 1) .. (next - 1)

\* What Allocate (ipam.go:83-101) keeps true of the allocator, as one invariant.
IpamInv == IpamTypeOK /\ AddressesDistinct /\ FieldsAgree

(***************************************************************************)
(* "exhausted" is only ever said when every host address really is taken:  *)
(* no address of the range is lost to the scan (ipam.go:90-100).           *)
(***************************************************************************)
ExhaustedOnlyWhenFull == Candidates = {} => used = Hosts

(***************************************************************************)
(* A key keeps its address: no step changes or withdraws an entry.         *)
(***************************************************************************)
AddressKept ==
  [][\A k \in Key : byKey[k] # NoAddr => byKey'[k] = byKey[k]]_ipamVars
===============================================================================
