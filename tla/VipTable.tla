-------------------------------- MODULE VipTable ------------------------------
(***************************************************************************)
(* The address translation of one joined network: the two-way table of     *)
(* client/vip/table.go and the translation functions of the TUN wrapper    *)
(* (client/vip/device.go).                                                 *)
(*                                                                         *)
(* The engine loop and the tunnel's packet goroutines ask for local        *)
(* addresses concurrently.  Local looks the address up under the read      *)
(* lock, lets go of it, and looks again under the write lock before it     *)
(* allocates: two actions of a caller, between which other callers run.    *)
(* Addresses are natural numbers, the 32-bit value of the dotted form.     *)
(***************************************************************************)
EXTENDS Integers

CONSTANTS
  LocalBase,  \* first address of the local range
  LocalSize,  \* addresses in the local range, a power of two
  Overlay,    \* the network's own addresses
  Foreign,    \* addresses that belong to no peer of this network
  Self,       \* this node's overlay address
  Caller,     \* goroutines that translate
  NoLocal     \* no address

VARIABLES
  toLocal,    \* real address -> local address, or NoLocal
  toReal,     \* local address -> real address, or NoLocal
  usedIdx,    \* host indexes handed out
  cursor,     \* the scan's cursor, Table.next
  selfLocal,  \* Device.selfLocal, NoLocal until Wrap
  asked,      \* caller -> the address it found missing, NoLocal between calls
  given       \* every answer ever used: pairs <<real, local>>

ASSUME VipConstants ==
  /\ LocalBase \in Nat
  /\ LocalSize \in Nat /\ LocalSize >= 4
  /\ Overlay \subseteq Nat
  /\ Foreign \cap Overlay = {}
  /\ Self \in Overlay
  /\ NoLocal \notin Nat

tableVars == <<toLocal, toReal, usedIdx, cursor>>
vipVars == <<tableVars, selfLocal, asked, given>>

LocalRange == LocalBase .. (LocalBase + LocalSize - 1)

(***************************************************************************)
(* usable keeps the network and the broadcast address out of circulation.  *)
(***************************************************************************)
usable(idx) == idx # 0 /\ idx # LocalSize - 1

FreeIndexes == {i \in 0 .. (LocalSize - 1) : usable(i) /\ i \notin usedIdx}

(***************************************************************************)
(* NewTable.                                                               *)
(***************************************************************************)
TableInit ==
  /\ toLocal = [r \in Overlay |-> NoLocal]
  /\ toReal = [l \in LocalRange |-> NoLocal]
  /\ usedIdx = {}
  /\ cursor = 1
  /\ selfLocal = NoLocal
  /\ asked = [c \in Caller |-> NoLocal]
  /\ given = {}

-------------------------------------------------------------------------------
(* allocLocked: the low bits of the real address, or a scan *)

want(real) == real % LocalSize

Succ(i) == IF i + 1 >= LocalSize THEN 1 ELSE i + 1

(***************************************************************************)
(* The index the scan looks at in its n-th turn, counted from 0; the       *)
(* cursor wraps from LocalSize - 1 to 1, at most once in all the turns.    *)
(***************************************************************************)
Visit(n) == IF cursor + n < LocalSize THEN cursor + n ELSE cursor + n - (LocalSize - 1)

\* Slip: the two unusable addresses are taken off the turns twice.
ScanShort == 0 .. (LocalSize - 4)

ScanTurns == 0 .. (LocalSize - 1)

ScanHits == {n \in ScanTurns : Visit(n) \in FreeIndexes}

\* Slip: the low bits are kept without a look whether they are taken.
AllocKeepingBitsAnyway(real, idx) ==
  /\ idx = want(real)
  /\ usable(idx)
  /\ UNCHANGED cursor

AllocKeepingBits(real, idx) ==
  /\ idx = want(real)
  /\ idx \in FreeIndexes
  /\ UNCHANGED cursor

AllocScanning(real, idx) ==
  /\ want(real) \notin FreeIndexes
  /\ \E n \in ScanHits :
       /\ \A m \in ScanHits : n <= m
       /\ idx = Visit(n)
  /\ cursor' = Succ(idx)

allocLocked(real, idx) == AllocKeepingBits(real, idx) \/ AllocScanning(real, idx)

allocFails(real) ==
  /\ want(real) \notin FreeIndexes
  /\ ScanHits = {}
  /\ cursor' = Succ(Visit(LocalSize - 1))

(***************************************************************************)
(* Real gets a new local address.                                          *)
(***************************************************************************)
Enter(real, idx) ==
  /\ usedIdx' = usedIdx \cup {idx}
  /\ toLocal' = [toLocal EXCEPT ![real] = LocalBase + idx]
  /\ toReal' = [toReal EXCEPT ![LocalBase + idx] = real]

Answer(real, local) == given' = given \cup {<<real, local>>}

-------------------------------------------------------------------------------
(* The operations *)

(***************************************************************************)
(* Wrap, before any other use of the table: this node's own address.       *)
(***************************************************************************)
Wrap ==
  /\ selfLocal = NoLocal
  /\ \E idx \in 0 .. (LocalSize - 1) :
       /\ allocLocked(Self, idx)
       /\ Enter(Self, idx)
       /\ selfLocal' = LocalBase + idx
       /\ Answer(Self, LocalBase + idx)
  /\ UNCHANGED asked

(***************************************************************************)
(* Local under the read lock.  An address of another network is refused    *)
(* before the table is looked at.                                          *)
(***************************************************************************)
LocalRefused(c, real) ==
  /\ selfLocal # NoLocal /\ asked[c] = NoLocal
  /\ real \in Foreign
  /\ UNCHANGED vipVars

LocalKnown(c, real) ==
  /\ selfLocal # NoLocal /\ asked[c] = NoLocal
  /\ real \in Overlay
  /\ toLocal[real] # NoLocal
  /\ Answer(real, toLocal[real])
  /\ UNCHANGED <<tableVars, selfLocal, asked>>

LocalMissing(c, real) ==
  /\ selfLocal # NoLocal /\ asked[c] = NoLocal
  /\ real \in Overlay
  /\ toLocal[real] = NoLocal
  /\ asked' = [asked EXCEPT ![c] = real]
  /\ UNCHANGED <<tableVars, selfLocal, given>>

(***************************************************************************)
(* Local under the write lock: another caller may have won.                *)
(***************************************************************************)
LocalWonByOther(c) ==
  /\ asked[c] # NoLocal
  /\ toLocal[asked[c]] # NoLocal
  /\ Answer(asked[c], toLocal[asked[c]])
  /\ asked' = [asked EXCEPT ![c] = NoLocal]
  /\ UNCHANGED <<tableVars, selfLocal>>

\* Slip: the second look under the write lock is left out.
LocalWithoutSecondLook(c) ==
  /\ asked[c] # NoLocal
  /\ \E idx \in 0 .. (LocalSize - 1) :
       /\ allocLocked(asked[c], idx)
       /\ Enter(asked[c], idx)
       /\ Answer(asked[c], LocalBase + idx)
  /\ asked' = [asked EXCEPT ![c] = NoLocal]
  /\ UNCHANGED selfLocal

LocalAllocated(c) ==
  /\ asked[c] # NoLocal
  /\ toLocal[asked[c]] = NoLocal
  /\ \E idx \in 0 .. (LocalSize - 1) :
       /\ allocLocked(asked[c], idx)
       /\ Enter(asked[c], idx)
       /\ Answer(asked[c], LocalBase + idx)
  /\ asked' = [asked EXCEPT ![c] = NoLocal]
  /\ UNCHANGED selfLocal

LocalExhausted(c) ==
  /\ asked[c] # NoLocal
  /\ toLocal[asked[c]] = NoLocal
  /\ allocFails(asked[c])
  /\ asked' = [asked EXCEPT ![c] = NoLocal]
  /\ UNCHANGED <<toLocal, toReal, usedIdx, selfLocal, given>>

TableNext ==
  \/ Wrap
  \/ \E c \in Caller :
       \/ \E real \in Overlay \cup Foreign :
            LocalRefused(c, real) \/ LocalKnown(c, real) \/ LocalMissing(c, real)
       \/ LocalWonByOther(c) \/ LocalAllocated(c) \/ LocalExhausted(c)

TableSpec == TableInit /\ [][TableNext]_vipVars

-------------------------------------------------------------------------------
(* Properties *)

VipTypeOK ==
  /\ toLocal \in [Overlay -> LocalRange \cup {NoLocal}]
  /\ toReal \in [LocalRange -> Overlay \cup {NoLocal}]
  /\ usedIdx \subseteq {i \in 0 .. (LocalSize - 1) : usable(i)}
  /\ cursor \in 1 .. (LocalSize - 1)
  /\ selfLocal \in LocalRange \cup {NoLocal}
  /\ asked \in [Caller -> Overlay \cup {NoLocal}]
  /\ given \subseteq Overlay \X LocalRange

(***************************************************************************)
(* The two maps are each other's inverse, and usedIdx marks exactly the    *)
(* addresses in circulation: two peers never share a local address.        *)
(***************************************************************************)
TwoWayMapping ==
  /\ \A r \in Overlay : toLocal[r] # NoLocal => toReal[toLocal[r]] = r
  /\ \A l \in LocalRange : toReal[l] # NoLocal => toLocal[toReal[l]] = l
  /\ \A l \in LocalRange : toReal[l] # NoLocal <=> (l - LocalBase) \in usedIdx

\* What Local (table.go:79-105) keeps true of the table, as one invariant.
VipInv == VipTypeOK /\ TwoWayMapping

(***************************************************************************)
(* device.go toReal: what a local address in a packet of the operating     *)
(* system is turned into.                                                  *)
(***************************************************************************)
DeviceToReal(l) == IF l = selfLocal THEN Self ELSE toReal[l]

(***************************************************************************)
(* "The operating system only ever sees local addresses" (table.go:7), so  *)
(* an answer to a packet is sent to the local address the packet carried:  *)
(* whichever caller obtained that address, and whatever was allocated      *)
(* since, it still stands for the same peer, and the peer for it: packets  *)
(* of one connection never carry two addresses of one peer.                *)
(***************************************************************************)
RepliesReachTheSender ==
  /\ \A p \in given : DeviceToReal(p[2]) = p[1]
  /\ \A p, q \in given : p[1] = q[1] => p[2] = q[2]

(***************************************************************************)
(* An address is only refused for want of room when every usable address   *)
(* is taken, wherever the cursor happens to stand (table.go:131-140).      *)
(***************************************************************************)
RefusedOnlyWhenFull == ScanHits = {} => FreeIndexes = {}
===============================================================================
