-------------------------------- MODULE MCAccess ------------------------------
(***************************************************************************)
(* Three groups: the host's is "a", which is connected with itself and     *)
(* with "b"; one that somebody called "*" is not.  Lists: open, which lets *)
(* in both connected groups, and one with a blank and a group in another   *)
(* spelling, which leaves out the host's own: a member that goes from "b"  *)
(* to "a" stays in the tunnel and is shut out by the policy alone.         *)
(***************************************************************************)
EXTENDS Access

MCSpelling  == {"a", "b", "B", "*", ""}
MCNormalize == [s \in MCSpelling |-> IF s = "B" THEN "b" ELSE s]
MCRules     == {[src |-> {"a", "B"}, dst |-> {"a"}]}
MCAllowList == {{}, {"B", ""}}

\* Clients are interchangeable: the one that comes first is always the same.
FirstClient == CHOOSE d \in Client : TRUE
InOrder     == moves = 1 => DOMAIN members \subseteq {Host, FirstClient}
===============================================================================
