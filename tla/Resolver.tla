-------------------------------- MODULE Resolver ------------------------------
(***************************************************************************)
(* The names of the joined networks: the records the engine makes of what  *)
(* a control server says (updateDNS in client/engine/engine.go) and the    *)
(* resolver all networks share (client/resolver/resolver.go).              *)
(*                                                                         *)
(* A name is a sequence of labels, the empty one the root.  A suffix may   *)
(* have several labels, so that one network's names can lie under the      *)
(* suffix of another.                                                      *)
(***************************************************************************)
EXTENDS Integers, SequencesExt

CONSTANTS
  ZoneSuffix,         \* suffixes of the networks this device may join
  DnsPeer,            \* members a server may list: [hostname, ip]
  DnsService,         \* services it may list: [name, vip, nodeIP]
  Query,              \* names that are asked for
  lower,              \* label -> label, ToLower
  NoName, NoVip,      \* an empty name; the empty VIP of a service without one
  NoIP,               \* text that is no address
  MaxPeers, MaxSvcs   \* bounds: members and services a server lists

VARIABLES
  told,    \* suffix of a joined network -> what its server said last: [peers, svcs]
  zones    \* suffix -> name -> address

resolverVars == <<told, zones>>

Label == DOMAIN lower

normalizeName(name) == [i \in DOMAIN name |-> lower[name[i]]]

(***************************************************************************)
(* A device has one network of a name: aliases are kept normalized         *)
(* (profile.NormalizeAlias).  A service has a name (api.go:216).           *)
(***************************************************************************)
ASSUME ResolverConstants ==
  /\ lower \in [Label -> Label] /\ \A l \in Label : lower[lower[l]] = lower[l]
  /\ ZoneSuffix \subseteq Seq(Label) /\ Query \subseteq Seq(Label)
  /\ \A s, t \in ZoneSuffix : normalizeName(s) = normalizeName(t) => s = t
  /\ \A p \in DnsPeer : p.hostname \in Label \cup {NoName}
  /\ \A s \in DnsService : s.name \in Label
  /\ MaxPeers \in Nat /\ MaxSvcs \in Nat

ResolverInit == told = [s \in {} |-> NoName] /\ zones = [s \in {} |-> NoName]

-------------------------------------------------------------------------------
(* Records *)

Target(svc) == IF svc.vip = NoVip THEN svc.nodeIP ELSE svc.vip

(***************************************************************************)
(* updateDNS: the records written for members, then for services; a later  *)
(* one replaces an earlier one of the same name.  A service is named at    *)
(* its node's address if it has no VIP, and not at all if its VIP is not   *)
(* an address.                                                             *)
(***************************************************************************)
OfMember(p)  == [label |-> p.hostname, ip |-> IF p.hostname = NoName THEN NoIP ELSE p.ip]
OfService(s) == [label |-> s.name, ip |-> Target(s)]

Writes(peers, svcs) ==
  [i \in DOMAIN peers |-> OfMember(peers[i])] \o [i \in DOMAIN svcs |-> OfService(svcs[i])]

WritesFor(writes, label) ==
  {i \in DOMAIN writes : writes[i].ip # NoIP /\ lower[writes[i].label] = label}

updateDNS(suffix, peers, svcs) ==
  LET writes == Writes(peers, svcs)
  IN  [n \in {<<l>> \o suffix : l \in {k \in Label : WritesFor(writes, k) # {}}} |->
         writes[Max(WritesFor(writes, Head(n)))].ip]

\* Go walks the map in any order, which matters only where keys become the same.
normalizeKeys(recs) ==
  [n \in {normalizeName(k) : k \in DOMAIN recs} |->
     recs[CHOOSE k \in DOMAIN recs : normalizeName(k) = n]]

SetZone(suffix, recs) ==
  zones' = IF suffix = <<>> THEN zones
           ELSE [s \in DOMAIN zones \cup {normalizeName(suffix)} |->
                   IF s = normalizeName(suffix) THEN normalizeKeys(recs) ELSE zones[s]]

RemoveZone(suffix) == zones' = [s \in DOMAIN zones \ {normalizeName(suffix)} |-> zones[s]]

(***************************************************************************)
(* A round of the engine of the network called suffix, and its end.        *)
(***************************************************************************)
Refresh(suffix) ==
  \E peers \in BoundedSeq(DnsPeer, MaxPeers), svcs \in BoundedSeq(DnsService, MaxSvcs) :
    /\ told' = IF suffix = <<>> THEN told
               ELSE [s \in DOMAIN told \cup {suffix} |->
                       IF s = suffix THEN [peers |-> peers, svcs |-> svcs] ELSE told[s]]
    /\ SetZone(suffix, updateDNS(suffix, peers, svcs))

Forget(suffix) ==
  /\ told' = [s \in DOMAIN told \ {suffix} |-> told[s]]
  /\ RemoveZone(suffix)

ResolverNext == \E suffix \in ZoneSuffix : Refresh(suffix) \/ Forget(suffix)

ResolverSpec == ResolverInit /\ [][ResolverNext]_resolverVars

-------------------------------------------------------------------------------
(* Answers *)

RefusedAnswer == [rcode |-> "refused", ip |-> NoIP]
NameError == [rcode |-> "nxdomain", ip |-> NoIP]

Matching(name) == {s \in DOMAIN zones : IsSuffix(s, name)}

\* Slip: the first zone that matches decides, whether it has the name or not.
lookupFirst(name) ==
  IF Matching(name) = {} THEN {RefusedAnswer}
  ELSE {IF name \in DOMAIN zones[s] THEN [rcode |-> "ok", ip |-> zones[s][name]] ELSE NameError :
          s \in Matching(name)}

(***************************************************************************)
(* lookup: what the walk over the zones may return.  Go walks a map in any *)
(* order, and returns at the first zone that has the name.                 *)
(***************************************************************************)
lookup(name) ==
  LET holders == {s \in Matching(name) : name \in DOMAIN zones[s]}
  IN  IF Matching(name) = {} THEN {RefusedAnswer}
      ELSE IF holders = {} THEN {NameError}
      ELSE {[rcode |-> "ok", ip |-> zones[s][name]] : s \in holders}

(***************************************************************************)
(* handle, for a message with one question; there are no IPv6 addresses.   *)
(***************************************************************************)
handle(name, qtype) ==
  IF qtype \notin {"A", "AAAA"} THEN {[rcode |-> "ok", ip |-> NoIP]}
  ELSE {IF qtype = "A" THEN a ELSE [a EXCEPT !.ip = NoIP] : a \in lookup(normalizeName(name))}

-------------------------------------------------------------------------------
(* Properties *)

(***************************************************************************)
(* The addresses the server of a network gave for a host or service label, *)
(* in any spelling; a service comes before a member of the same name.      *)
(***************************************************************************)
OfferedSvcs(suffix, label) ==
  {IF s.vip = NoVip THEN s.nodeIP ELSE s.vip :
     s \in {x \in Range(told[suffix].svcs) : lower[x.name] = label}} \ {NoIP}

OfferedPeers(suffix, label) ==
  {p.ip : p \in {x \in Range(told[suffix].peers) :
                   x.hostname # NoName /\ lower[x.hostname] = label}} \ {NoIP}

ToldFor(suffix, label) ==
  IF OfferedSvcs(suffix, label) # {} THEN OfferedSvcs(suffix, label) ELSE OfferedPeers(suffix, label)

Joined == DOMAIN told

(***************************************************************************)
(* Whatever suffixes the device's networks have, nested ones included, and *)
(* in whatever order the zones are walked: a name is answered with the     *)
(* address that its own network gave it last; "a name inside one of our    *)
(* zones that we do not have is NXDOMAIN, while a name outside every zone  *)
(* [...] is refused" (resolver.go:75-78).                                  *)
(***************************************************************************)
NamesResolveRight ==
  \A q \in Query : \A answer \in handle(q, "A") :
    LET name == normalizeName(q)
        ips  == UNION {ToldFor(own[1], own[2]) :
                         own \in {x \in Joined \X Label : <<x[2]>> \o normalizeName(x[1]) = name}}
    IN  IF ips # {} THEN answer.rcode = "ok" /\ answer.ip \in ips
        ELSE answer = IF \E s \in Joined : IsSuffix(normalizeName(s), name) THEN NameError ELSE RefusedAnswer
===============================================================================
