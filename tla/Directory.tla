------------------------------- MODULE Directory ------------------------------
(***************************************************************************)
(* What a control server promises to the devices of a network: a directory *)
(* of members and services in which every entry changes in one step.       *)
(*                                                                         *)
(* A member has one address for as long as the directory lives, shared     *)
(* with nobody, and one credential, which is replaced by a brand-new one   *)
(* each time it registers.  A service is hosted by a member, and its name  *)
(* has one address of its own.  ControlServer is shown to implement this   *)
(* with handlers that take several steps each.                             *)
(***************************************************************************)

CONSTANTS Device, Group, Name, Token, NodeAddr, ServiceAddr, AllowLists, None

VARIABLES
  members,    \* device -> [dev, group, ip, token], or None
  services,   \* name -> [name, node, vip, allow], or None
  spent       \* credentials given out so far

vars == <<members, services, spent>>

Init ==
  /\ members = [d \in Device |-> None]
  /\ services = [n \in Name |-> None]
  /\ spent = {}

(***************************************************************************)
(* d joins, or joins again, with a new credential.                         *)
(***************************************************************************)
Register(d, g, ip, t) ==
  /\ t \notin spent
  /\ members[d] # None => ip = members[d].ip
  /\ \A e \in Device \ {d} : members[e] # None => members[e].ip # ip
  /\ members' = [members EXCEPT ![d] = [dev |-> d, group |-> g, ip |-> ip, token |-> t]]
  /\ spent' = spent \cup {t}
  /\ UNCHANGED services

(***************************************************************************)
(* The member d hosts n from now on.                                       *)
(***************************************************************************)
Publish(d, n, vip, allow) ==
  /\ members[d] # None
  /\ services[n] # None => vip = services[n].vip
  /\ \A k \in Name \ {n} : services[k] # None => services[k].vip # vip
  /\ services' = [services EXCEPT
       ![n] = [name |-> n, node |-> members[d].ip, vip |-> vip, allow |-> allow]]
  /\ UNCHANGED <<members, spent>>

(***************************************************************************)
(* The directory is lost with the server's memory; spent credentials stay  *)
(* spent.                                                                  *)
(***************************************************************************)
Forget ==
  /\ members' = [d \in Device |-> None]
  /\ services' = [n \in Name |-> None]
  /\ UNCHANGED spent

(***************************************************************************)
(* The peers or the services are asked for, or a request is refused.       *)
(***************************************************************************)
Ask == UNCHANGED vars

Next ==
  \/ Ask
  \/ \E d \in Device, g \in Group, ip \in NodeAddr, t \in Token : Register(d, g, ip, t)
  \/ \E d \in Device, n \in Name, vip \in ServiceAddr, allow \in AllowLists :
       Publish(d, n, vip, allow)
  \/ Forget

Spec == Init /\ [][Next]_vars
===============================================================================
