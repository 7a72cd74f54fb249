---------------------------------- MODULE Acl ---------------------------------
(***************************************************************************)
(* The access-control policy of shared/acl/acl.go, as operators.           *)
(*                                                                         *)
(* A policy is a set of rules [src, dst] over group names; the order of    *)
(* the rules and of the names in a rule never matters to the code, which   *)
(* only asks whether some entry matches.  Group names are compared after   *)
(* lower-casing and trimming: normalize[s] is the normal form of the       *)
(* spelling s, and Blank the empty name.                                   *)
(***************************************************************************)

CONSTANTS
  Spelling,      \* the ways a group name is written down
  normalize,     \* strings.ToLower(strings.TrimSpace(.))
  Wildcard,      \* "*"
  Blank          \* ""

ASSUME AclConstants ==
  /\ {Wildcard, Blank} \subseteq Spelling
  /\ normalize \in [Spelling -> Spelling]
  /\ \A s \in Spelling : normalize[normalize[s]] = normalize[s]
  /\ normalize[Blank] = Blank
  /\ normalize[Wildcard] = Wildcard

(***************************************************************************)
(* A member's group: JoinTokens.Group only returns normal forms, and never *)
(* the empty one.                                                          *)
(***************************************************************************)
Group == {normalize[s] : s \in Spelling} \ {Blank}

Rule == [src : SUBSET Spelling \ {{}}, dst : SUBSET Spelling \ {{}}]

matches(list, group) == \E g \in list : g = Wildcard \/ normalize[g] = group

(***************************************************************************)
(* Policy.Allows.  No rules at all means "allow everything".               *)
(***************************************************************************)
Allows(rules, src, dst) ==
  \/ rules = {}
  \/ \E r \in rules : matches(r.src, normalize[src]) /\ matches(r.dst, normalize[dst])

(***************************************************************************)
(* Policy.Connected: a tunnel needs both ends, so either direction will do.*)
(***************************************************************************)
Connected(rules, a, b) == Allows(rules, a, b) \/ Allows(rules, b, a)

(***************************************************************************)
(* AllowsGroup: an empty allow list leaves the service open.               *)
(***************************************************************************)
AllowsGroup(list, group) == list = {} \/ matches(list, normalize[group])

(***************************************************************************)
(* cleanGroups of server/api/api.go: blank entries are dropped.            *)
(***************************************************************************)
cleanGroups(list) == {g \in list : normalize[g] # Blank}
===============================================================================
