------------------------------- MODULE MCSockets ------------------------------
(***************************************************************************)
(* The two parts that live on UDP sockets, one per behaviour: the relay    *)
(* with the nodes around it, and the proxy of a UDP service.  The state of *)
(* the other does not change, and its actions are disabled.                *)
(***************************************************************************)
EXTENDS Relay, UdpProxy

VARIABLE part

SocketsInit == part \in {"relay", "proxy"} /\ RelayInit /\ ProxyInit

SocketsNext ==
  /\ \/ part = "relay" /\ RelayNext /\ UNCHANGED proxyVars
     \/ part = "proxy" /\ ProxyNext /\ UNCHANGED relayAll
  /\ UNCHANGED part

SocketsSpec ==
  /\ SocketsInit /\ [][SocketsNext]_<<part, relayAll, proxyVars>>
  /\ RelayFairness /\ ProxyFairness
===============================================================================
