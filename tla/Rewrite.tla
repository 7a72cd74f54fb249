-------------------------------- MODULE Rewrite -------------------------------
(***************************************************************************)
(* Translation of one packet (client/vip/rewrite.go), as Device.Read and   *)
(* Device.Write of client/vip/device.go apply it: the addresses of the     *)
(* header, and of the header an ICMP error quotes, are replaced, and the   *)
(* checksums that cover them are adjusted by the difference (RFC 1624)     *)
(* rather than summed again.                                               *)
(*                                                                         *)
(* An address is one word instead of two.  Every checksum covers the       *)
(* addresses and one word that stands for the sum of all else it covers.   *)
(***************************************************************************)
EXTENDS Integers, FiniteSets

CONSTANTS
  B,            \* values of a word (2^16)
  Rest,         \* the rest of a header, and of an ICMP message: never all zero
  IcmpTo,       \* where ICMP errors are sent
  NoMap,        \* no address
  MaxUnmapped   \* bound: addresses a table has no mapping for

VARIABLES
  translate,  \* mapFunc: an address, or NoMap when there is no mapping
  before,     \* the packet as it came
  packet,     \* the packet as it is now
  fate        \* "new", "forwarded" or "dropped"

packetVars == <<translate, before, packet, fate>>

Word == 0 .. B - 1
Ones == B - 1

ASSUME RewriteConstants ==
  /\ B \in Nat /\ B >= 2
  /\ Rest \subseteq Word \ {0} /\ IcmpTo \subseteq Word /\ NoMap \notin Word
  /\ MaxUnmapped \in Nat

-------------------------------------------------------------------------------
(* Ones' complement sums *)

Complement(x) == Ones - x

\* for sum>>16 != 0
Fold[sum \in Nat] == IF sum < B THEN sum ELSE Fold[(sum % B) + (sum \div B)]

(***************************************************************************)
(* csumUpdate: the words old become the words new, pairwise.               *)
(***************************************************************************)
\* Slip: the carries are folded back only once.
csumFoldedOnce(cs, old, new) ==
  LET sum == Complement(cs) + Complement(old[1]) + new[1] + Complement(old[2]) + new[2]
  IN Complement(((sum % B) + (sum \div B)) % B)

csumUpdate(cs, old, new) ==
  Complement(Fold[Complement(cs) + Complement(old[1]) + new[1]
                                 + Complement(old[2]) + new[2]])

csumUpdate1(cs, old, new) == Complement(Fold[Complement(cs) + Complement(old) + new])

-------------------------------------------------------------------------------
(* Packets *)

(***************************************************************************)
(* A header: two addresses, the rest, and its checksum.                    *)
(***************************************************************************)
Ends(h) == <<h.src, h.dst>>
Sum(h)       == Fold[h.src + h.dst + h.rest + h.cs]
Right(h)     == Sum(h) = Ones

Header == {h \in [src : Word, dst : Word, rest : Word, cs : Word] : Right(h)}

(***************************************************************************)
(* What follows the header: the body of TCP or UDP, whose checksum also    *)
(* covers the addresses (0 stands for no checksum in UDP); an ICMP message *)
(* that quotes a header; a later fragment or any other protocol, where     *)
(* there is nothing to repair.                                             *)
(***************************************************************************)
Kind == {"tcp", "udp", "icmp error", "other"}

L4Sum(p) == Fold[p.head.src + p.head.dst + p.body + p.cs]

QuoteSum(p) ==
  Fold[p.quote.src + p.quote.dst + p.quote.rest + p.quote.cs + p.body + p.cs]

\* The checksum of what follows the header is right, or there is none.
BodyRight(p) ==
  CASE p.kind = "tcp"        -> L4Sum(p) = Ones
    [] p.kind = "udp"        -> p.cs = 0 \/ L4Sum(p) = Ones
    [] p.kind = "icmp error" -> QuoteSum(p) = Ones
    [] OTHER                 -> TRUE

NoQuote == [src |-> 0, dst |-> 0, rest |-> 0, cs |-> Ones]

(***************************************************************************)
(* Packets a sender makes: every checksum is right, and what a checksum    *)
(* covers beside the addresses is not all zero (a version, a protocol, a   *)
(* type).  The quote of an ICMP error may be cut off inside its options    *)
(* (whole = FALSE).                                                        *)
(***************************************************************************)
Packet ==
  {p \in [kind : Kind, head : {h \in Header : h.rest \in Rest}, body : Word, cs : Word,
          quote : {NoQuote}, whole : {TRUE}] :
     /\ p.kind # "icmp error" /\ BodyRight(p)
     /\ IF p.kind = "other" THEN p.body = 0 /\ p.cs = 0 ELSE p.body # 0}
  \cup
  {p \in [kind : {"icmp error"}, head : {h \in Header : h.rest \in Rest /\ h.dst \in IcmpTo},
          body : Rest, cs : Word, quote : {h \in Header : h.rest # 0}, whole : BOOLEAN] :
     BodyRight(p)}

(***************************************************************************)
(* Tables are bijections where they are defined (VipTable).                *)
(***************************************************************************)
Translation ==
  {f \in [Word -> Word \cup {NoMap}] :
     \A a, b \in Word : f[a] = f[b] /\ f[a] # NoMap => a = b}

PacketInit ==
  /\ translate \in {f \in Translation : Cardinality({a \in Word : f[a] = NoMap}) <= MaxUnmapped}
  /\ before \in Packet
  /\ packet = before
  /\ fate = "new"

-------------------------------------------------------------------------------
(* rewrite *)

Mapped(h) == translate[h.src] # NoMap /\ translate[h.dst] # NoMap
New(h)    == <<translate[h.src], translate[h.dst]>>

\* The addresses of a header replaced, and its checksum adjusted.
Moved(h) ==
  [h EXCEPT !.src = translate[h.src], !.dst = translate[h.dst],
            !.cs = csumUpdate(h.cs, Ends(h), New(h))]

(***************************************************************************)
(* The UDP checksum: none stays none, and a zero is spelled as all ones.   *)
(***************************************************************************)
udpChecksum(cs, old, new) ==
  IF cs = 0 THEN 0
  ELSE LET fixed == csumUpdate(cs, old, new) IN IF fixed = 0 THEN Ones ELSE fixed

(***************************************************************************)
(* rewriteQuoted: the ICMP checksum covers the quoted addresses and the    *)
(* quoted checksum, so it is adjusted for both.                            *)
(***************************************************************************)
rewriteQuoted(p) ==
  LET q == p.quote
      moved == IF p.whole THEN Moved(q) ELSE [Moved(q) EXCEPT !.cs = q.cs]
      addressesDone == csumUpdate(p.cs, Ends(q), New(q))
  IN IF ~Mapped(q) \/ New(q) = Ends(q) THEN p
     ELSE [p EXCEPT !.quote = moved,
             !.cs = IF p.whole THEN csumUpdate1(addressesDone, q.cs, moved.cs)
                    ELSE addressesDone]

rewrite(p) ==
  LET h == p.head
      q == [p EXCEPT !.head = Moved(h)]
  IN IF New(h) = Ends(h) THEN p
     ELSE CASE p.kind = "tcp" -> [q EXCEPT !.cs = csumUpdate(p.cs, Ends(h), New(h))]
            [] p.kind = "udp" -> [q EXCEPT !.cs = udpChecksum(p.cs, Ends(h), New(h))]
            [] p.kind = "icmp error" -> rewriteQuoted(q)
            [] OTHER -> q

(***************************************************************************)
(* A packet with an address that has no mapping is dropped: Read gives it  *)
(* length zero, Write leaves it out.                                       *)
(***************************************************************************)
Forward ==
  /\ fate = "new" /\ Mapped(packet.head)
  /\ packet' = rewrite(packet)
  /\ fate' = "forwarded"
  /\ UNCHANGED <<translate, before>>

Drop ==
  /\ fate = "new" /\ ~Mapped(packet.head)
  /\ fate' = "dropped"
  /\ UNCHANGED <<translate, before, packet>>

Translate == Forward \/ Drop

PacketSpec == PacketInit /\ [][Translate]_packetVars

-------------------------------------------------------------------------------
(* Properties *)

(***************************************************************************)
(* A packet that was right is right after translation: the header, the     *)
(* body with the addresses it is summed with, and in an ICMP error both    *)
(* the quoted header and the message around it (rewrite.go:30-139).  "A    *)
(* zero UDP checksum means 'not computed' and must stay zero", and a       *)
(* computed one must not become it (rewrite.go:66-75).                     *)
(***************************************************************************)
ChecksumsRepaired ==
  fate = "forwarded" =>
    /\ Right(packet.head)
    /\ BodyRight(packet)
    /\ packet.whole => Right(packet.quote)
    /\ packet.kind = "udp" => (packet.cs = 0 <=> before.cs = 0)
===============================================================================
