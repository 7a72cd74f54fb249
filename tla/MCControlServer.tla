---------------------------- MODULE MCControlServer ---------------------------
(***************************************************************************)
(* Three devices, three service names and two overlapping requests against *)
(* a server with two addresses for each, and two groups: admins reach      *)
(* everyone, guests reach only admins.  A third join token is not in the   *)
(* table.                                                                  *)
(***************************************************************************)
EXTENDS ControlServer, TLC

MCSpelling == {"admin", "guest", "*", ""}

MCNormalize == [s \in MCSpelling |-> s]

MCJoinGroup == [jt \in {"ja", "jg", "bad"} |->
                  CASE jt = "ja" -> "admin" [] jt = "jg" -> "guest" [] OTHER -> NoGroup]

MCRules == {[src |-> {"admin"}, dst |-> {"*"}]}

MCAllowList == {{"guest", ""}}

-------------------------------------------------------------------------------
(***************************************************************************)
(* Devices and names are interchangeable, so it is enough to look at the   *)
(* runs in which the k-th one to come up is number k.  More than one       *)
(* service is looked at only with one device, and without a restart.       *)
(***************************************************************************)
Leased == {d \in Device : nodeByKey[d] # NoAddr}

Named == {n \in Name : svcByKey[n] # NoAddr \/ \E h \in Handler : svc[h] # None /\ svc[h].name = n}

InOrder(S) == \E k \in 0 .. 3 : S = 1 .. k

InView ==
  /\ InOrder(Leased)
  /\ InOrder(Named)
  /\ Named \subseteq {1} \/ (epoch = 0 /\ Leased \subseteq {1})

Symmetry == Permutations(Token) \cup Permutations(Handler)
===============================================================================
