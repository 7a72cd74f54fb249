------------------------------- MODULE MCHosting ------------------------------
(***************************************************************************)
(* One supervisor with its files, the application with the two supervisors *)
(* it chooses from, and the application's tray; one of them per behaviour. *)
(*                                                                         *)
(* Four configurations: two with a self-signed certificate for different   *)
(* names, one with an ACME certificate, and one that is not valid.         *)
(***************************************************************************)
EXTENDS Hosting, HostTab, Tray

VARIABLE part

HostingInit ==
  part \in {"supervisor", "application", "tray"} /\ Init /\ TabInit /\ TrayInit

HostingNext ==
  /\ \/ part = "supervisor" /\ Next /\ UNCHANGED <<tabVars, trayVars>>
     \/ part = "application" /\ TabNext /\ UNCHANGED <<vars, trayVars>>
     \/ part = "tray" /\ TrayNext /\ UNCHANGED <<vars, tabVars>>
  /\ UNCHANGED part

HostingSpec == HostingInit /\ [][HostingNext]_<<part, vars, tabVars, trayVars>>

MCConf == {"alpha", "beta", "gamma", "empty"}

MCMode == [k \in MCConf |-> IF k = "gamma" THEN "acme" ELSE "self"]

MCSan == [k \in MCConf |-> IF k = "beta" THEN {"localhost", "beta"} ELSE {"localhost"}]
===============================================================================
