--------------------------------- MODULE Split --------------------------------
(***************************************************************************)
(* How server/ipam/ipam.go divides a network's range between its devices   *)
(* and its services (func Split), over addresses of Width bits: 32 in the  *)
(* code, fewer in the checks.  A prefix is [addr, bits]; the code's bound  *)
(* "bits > 28" is "fewer than SmallestHostBits host bits".                 *)
(***************************************************************************)
EXTENDS Integers, FiniteSets

CONSTANTS
  Width,              \* bits of an address (32)
  SmallestHostBits    \* a range with fewer host bits is refused (4)

VARIABLES
  cidr,      \* the range the operator configured
  result     \* what Split made of it

ASSUME SplitConstants ==
  /\ Width \in Nat \ {0}
  /\ SmallestHostBits \in 1 .. Width

\* 1 << n
Power[n \in Nat] == IF n = 0 THEN 1 ELSE 2 * Power[n - 1]

Cidr == [addr : 0 .. (Power[Width] - 1), bits : 0 .. Width]

(***************************************************************************)
(* netip's Prefix.Masked: the host bits of the address are cleared.        *)
(***************************************************************************)
BlockSize(bits) == Power[Width - bits]

Masked(p) == [p EXCEPT !.addr = @ - (@ % BlockSize(p.bits))]

(***************************************************************************)
(* netip's Prefix.Contains, as the set of addresses sharing the prefix.    *)
(***************************************************************************)
Addresses(p) ==
  {a \in 0 .. (Power[Width] - 1) : a \div BlockSize(p.bits) = p.addr \div BlockSize(p.bits)}

(***************************************************************************)
(* Split, for an IPv4 range: the prefixes of the two allocators, or an     *)
(* error.  top is computed in uint32 in the code, hence the modulus.       *)
(***************************************************************************)
\* Slip: one bit too generous.
TooSmallByOne(p) == p.bits > Width - SmallestHostBits + 1

TooSmall(p) == p.bits > Width - SmallestHostBits

UpperAddr(p) == (p.addr + BlockSize(p.bits + 1)) % Power[Width]

SplitRange(c) ==
  LET p == Masked(c)
  IN  IF TooSmall(p)
        THEN [status |-> "refused"]
        ELSE [status   |-> "split",
              nodes    |-> Masked([addr |-> p.addr, bits |-> p.bits + 1]),
              services |-> Masked([addr |-> UpperAddr(p), bits |-> p.bits + 1])]

-------------------------------------------------------------------------------
(* One behaviour per configured range: it is read, then divided. *)

Pending == [status |-> "pending"]

splitVars == <<cidr, result>>

SplitInit == cidr \in Cidr /\ result = Pending

Divide ==
  /\ result = Pending
  /\ result' = SplitRange(cidr)
  /\ UNCHANGED cidr

SplitSpec == SplitInit /\ [][Divide]_splitVars

(***************************************************************************)
(* Split partitions the configured range: every address of it belongs to   *)
(* exactly one half, every node address lies below every service address,  *)
(* the halves are equally large and each starts at its own prefix address, *)
(* the one its allocator skips; and only a range of fewer than             *)
(* 2^SmallestHostBits addresses is refused (ipam.go:45-68).  This covers   *)
(* both ends of the address space and the smallest range not refused.      *)
(***************************************************************************)
HalvesPartitionRange ==
  LET whole == Addresses(cidr)
      n == Addresses(result.nodes)
      s == Addresses(result.services)
  IN  /\ result.status = "split" =>
           /\ n \cup s = whole
           /\ \A a \in n, b \in s : a < b
           /\ result.nodes.bits = result.services.bits
           /\ \A a \in n : result.nodes.addr <= a
           /\ \A a \in s : result.services.addr <= a
      /\ result # Pending =>
           (result.status = "refused") = (Cardinality(whole) < Power[SmallestHostBits])
===============================================================================
