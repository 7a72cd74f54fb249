-------------------------------- MODULE MCParts -------------------------------
(***************************************************************************)
(* The parts that run by themselves, one per behaviour: an allocator, the  *)
(* division of a range, the building of a token table, the translation of  *)
(* a packet, a translation table, the addresses a server hands out and the *)
(* resolver.  The state of the others does not change.                     *)
(***************************************************************************)
EXTENDS Ipam, Split, JoinTokens, Rewrite, VipTable, Addresses, Resolver

VARIABLE part   \* which part runs

partVars == <<part, ipamVars, splitVars, tokenVars, packetVars, vipVars, addressVars, resolverVars>>

NoRange     == cidr = NoMap /\ result = Pending
NoTokens    == /\ defaultToken = NoToken /\ groupTokens = [g \in {} |-> NoToken] /\ todo = {}
               /\ table = [t \in JoinToken |-> NoGroup] /\ status = "none"
NoPackets   == translate = NoMap /\ before = NoMap /\ packet = NoMap /\ fate = "none"
NoAddresses == setup = Untyped /\ handed = Untyped

PartsInit ==
  /\ part \in {"allocator", "range", "tokens", "packet", "translation", "addresses", "names"}
  /\ Init /\ TableInit /\ ResolverInit
  /\ IF part = "range" THEN SplitInit ELSE NoRange
  /\ IF part = "tokens" THEN TokensInit ELSE NoTokens
  /\ IF part = "packet" THEN PacketInit ELSE NoPackets
  /\ IF part = "addresses" THEN AddressInit ELSE NoAddresses

PartsNext ==
  /\ \/ /\ part = "allocator" /\ Next
        /\ UNCHANGED <<splitVars, tokenVars, packetVars, vipVars, addressVars, resolverVars>>
     \/ /\ part = "range" /\ Divide
        /\ UNCHANGED <<ipamVars, tokenVars, packetVars, vipVars, addressVars, resolverVars>>
     \/ /\ part = "tokens" /\ BuildJoinTokens
        /\ UNCHANGED <<ipamVars, splitVars, packetVars, vipVars, addressVars, resolverVars>>
     \/ /\ part = "packet" /\ Translate
        /\ UNCHANGED <<ipamVars, splitVars, tokenVars, vipVars, addressVars, resolverVars>>
     \/ /\ part = "translation" /\ TableNext
        /\ UNCHANGED <<ipamVars, splitVars, tokenVars, packetVars, addressVars, resolverVars>>
     \/ /\ part = "addresses" /\ HandOut
        /\ UNCHANGED <<ipamVars, splitVars, tokenVars, packetVars, vipVars, resolverVars>>
     \/ /\ part = "names" /\ ResolverNext
        /\ UNCHANGED <<ipamVars, splitVars, tokenVars, packetVars, vipVars, addressVars>>
  /\ UNCHANGED part

PartsSpec == PartsInit /\ [][PartsNext]_partVars

\* Six spellings of three groups, two of them of the same group.
MCSpelling == {"Dev", "dev", "default", " ", "", "*"}

MCNormalize ==
  [s \in MCSpelling |-> CASE s = "Dev" -> "dev" [] s = " " -> "" [] OTHER -> s]

\* A suffix under another, and none; two spellings of a host; a name a host and a suffix share.
MCSuffix  == {<<>>, <<"home">>, <<"lab", "home">>}
MCLower   == [l \in {"PC", "pc", "lab", "home", "com"} |-> IF l = "PC" THEN "pc" ELSE l]
MCPeer    == {[hostname |-> "", ip |-> 1], [hostname |-> "PC", ip |-> 1],
              [hostname |-> "pc", ip |-> 2], [hostname |-> "lab", ip |-> 0]}
MCService == {[name |-> "lab", vip |-> 3, nodeIP |-> 1],
              [name |-> "pc", vip |-> NoVip, nodeIP |-> 4],
              [name |-> "pc", vip |-> 0, nodeIP |-> 5]}
MCQuery   == {<<>>, <<"home">>, <<"PC", "home">>, <<"lab", "home">>, <<"pc", "lab", "home">>,
              <<"lab", "lab", "home">>, <<"pc", "com">>}
===============================================================================
