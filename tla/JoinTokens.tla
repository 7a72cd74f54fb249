------------------------------- MODULE JoinTokens -----------------------------
(***************************************************************************)
(* How the server's join-token table is built (BuildJoinTokens, Add and    *)
(* Group of shared/acl/acl.go): the default group's token first, then the  *)
(* token of each configured group.  The code walks the groups in the order *)
(* of their spelling; that order is abstracted to any order, so what holds *)
(* here does not depend on it.                                             *)
(***************************************************************************)
EXTENDS Acl

CONSTANTS
  DefaultGroup,   \* "default"
  JoinToken,      \* join tokens, after TrimSpace
  NoToken,        \* the empty join token
  NoGroup         \* "the table has no entry for this token"

VARIABLES
  defaultToken,   \* config: the default group's token
  groupTokens,    \* config: group spelling -> token (only configured ones)
  todo,           \* the configured groups not added yet
  table,          \* JoinTokens: token -> group
  status          \* "default", "groups", "ok" or "error"

ASSUME JoinTokenConstants ==
  /\ DefaultGroup \in Group
  /\ NoToken \notin JoinToken
  /\ NoGroup \notin Spelling

tokenVars == <<defaultToken, groupTokens, todo, table, status>>

RawToken == JoinToken \cup {NoToken}

TokensInit ==
  /\ defaultToken \in RawToken
  /\ groupTokens \in UNION {[gs -> RawToken] : gs \in SUBSET Spelling}
  /\ todo = DOMAIN groupTokens
  /\ table = [t \in JoinToken |-> NoGroup]
  /\ status = "default"

(***************************************************************************)
(* A blank group name stands for the default group.                        *)
(***************************************************************************)
GroupOrDefault(g) == IF normalize[g] = Blank THEN DefaultGroup ELSE normalize[g]

(***************************************************************************)
(* The closure `add' of BuildJoinTokens: skip a blank token, refuse one    *)
(* that another group already has, and record the rest.  The code's owner  *)
(* map and its result always hold the same entries, so one table is kept.  *)
(***************************************************************************)
\* Slip: the names are compared as they are spelled.
SharedAsSpelled(g, tok) == tok # NoToken /\ table[tok] \notin {NoGroup, g}

Shared(g, tok) == tok # NoToken /\ table[tok] \notin {NoGroup, GroupOrDefault(g)}

Add(g, tok) ==
  IF tok = NoToken
    THEN UNCHANGED table
    ELSE table' = [table EXCEPT ![tok] = GroupOrDefault(g)]

AddDefault ==
  /\ status = "default"
  /\ Add(DefaultGroup, defaultToken)
  /\ status' = "groups"
  /\ UNCHANGED <<defaultToken, groupTokens, todo>>

AddGroup(g) ==
  /\ status = "groups"
  /\ g \in todo
  /\ ~Shared(g, groupTokens[g])
  /\ Add(g, groupTokens[g])
  /\ todo' = todo \ {g}
  /\ UNCHANGED <<defaultToken, groupTokens, status>>

RejectGroup(g) ==
  /\ status = "groups"
  /\ g \in todo
  /\ Shared(g, groupTokens[g])
  /\ status' = "error"
  /\ UNCHANGED <<defaultToken, groupTokens, todo, table>>

TableDone ==
  /\ status = "groups"
  /\ todo = {}
  /\ status' = "ok"
  /\ UNCHANGED <<defaultToken, groupTokens, todo, table>>

BuildJoinTokens == AddDefault \/ (\E g \in todo : AddGroup(g) \/ RejectGroup(g)) \/ TableDone

TokensSpec == TokensInit /\ [][BuildJoinTokens]_tokenVars

(***************************************************************************)
(* JoinTokens.Group: the group a presented token admits to, if any.        *)
(***************************************************************************)
GroupOf(tok) ==
  IF tok = NoToken \/ table[tok] = NoGroup THEN NoGroup ELSE normalize[table[tok]]

-------------------------------------------------------------------------------
(* Properties *)

(***************************************************************************)
(* What the configuration says about a token: the groups that claim it.    *)
(***************************************************************************)
Claims(tok) ==
  {GroupOrDefault(g) : g \in {h \in DOMAIN groupTokens : groupTokens[h] = tok}}
    \cup (IF defaultToken = tok THEN {DefaultGroup} ELSE {})

(***************************************************************************)
(* "A token shared by two groups is rejected rather than resolved"         *)
(* (acl.go:195): the build succeeds exactly when no token is claimed by    *)
(* two groups, two spellings of one group being the same group, and the    *)
(* table then admits each token to the one group that claims it, and an    *)
(* unclaimed or empty token to none.                                       *)
(***************************************************************************)
AmbiguousTokensRejected ==
  /\ status = "ok" =>
       /\ \A t \in JoinToken : Claims(t) = IF GroupOf(t) = NoGroup THEN {} ELSE {GroupOf(t)}
       /\ GroupOf(NoToken) = NoGroup
  /\ status = "error" => \E t \in JoinToken : \E g, h \in Claims(t) : g # h
===============================================================================
