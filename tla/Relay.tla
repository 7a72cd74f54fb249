--------------------------------- MODULE Relay --------------------------------
(***************************************************************************)
(* Tunnels through the relay: the relay of the server                      *)
(* (server/relay/relay.go), which forwards by overlay address to wherever  *)
(* it last heard that address from, and the nodes' end of it               *)
(* (client/wgbind/bind.go), a socket that announces itself every fifteen   *)
(* seconds.  Datagrams may be lost, duplicated and overtaken.              *)
(*                                                                         *)
(* A node stands for its overlay address.  A socket of a node is numbered  *)
(* by the Open that made it, and stands for the UDP address it is seen     *)
(* under.  A keepalive goroutine keeps the socket it was started with, but *)
(* reads the stop channel from the Bind each time it waits.                *)
(***************************************************************************)
EXTENDS Integers, FiniteSets

CONSTANTS
  Node,
  Roaming,       \* nodes that reopen their socket
  Talking,       \* nodes that have packets for the others
  MaxOpens,      \* bound: times such a node opens its socket; another does once
  MaxLost,       \* bound: datagrams that are lost or duplicated
  MaxRestarts,   \* bound: restarts of the relay
  MaxResets      \* bound: reads of the relay that fail though its socket is open

VARIABLES
  opens,         \* node -> number of Opens; the last made the current socket
  open,          \* nodes whose Bind is open
  keepalives,    \* running keepalives: [node, socket, at, stop], where stop is the
                 \* Open that made the channel it waits on, 0 for none
  serving,       \* the relay's Serve has not returned
  clients,       \* the relay's table: node -> socket, 0 when not known
  net,           \* datagrams under way to the relay: [type, src, dst, socket]
  heard,         \* pairs <<n, m>>: m's current socket has got a packet of n
  lost, restarts, resets

nodeEnd   == <<opens, open, keepalives>>
relayVars == <<serving, clients>>
bounds    == <<lost, restarts, resets>>
relayAll == <<nodeEnd, relayVars, net, heard, bounds>>

ASSUME RelayConstants ==
  /\ IsFiniteSet(Node) /\ Roaming \subseteq Node /\ Talking \subseteq Node
  /\ MaxOpens \in Nat /\ MaxLost \in Nat /\ MaxRestarts \in Nat /\ MaxResets \in Nat

Register(n, s) == [type |-> "register", src |-> n, dst |-> n, socket |-> s]
Data(n, m, s)  == [type |-> "data", src |-> n, dst |-> m, socket |-> s]
Datagram == {Register(n, s) : n \in Node, s \in 1 .. MaxOpens}
            \cup {Data(n, m, s) : n \in Node, m \in Node, s \in 1 .. MaxOpens}

RelayInit ==
  /\ opens = [n \in Node |-> 0] /\ open = {} /\ keepalives = {}
  /\ serving = TRUE
  /\ clients = [n \in Node |-> 0]
  /\ net = {} /\ heard = {}
  /\ lost = 0 /\ restarts = 0 /\ resets = 0

-------------------------------------------------------------------------------
(* The node's end *)

(***************************************************************************)
(* Open, in relay mode, announces the node and starts a keepalive.  What   *)
(* went to an earlier socket is no concern of the new one.                 *)
(***************************************************************************)
Open(n) ==
  /\ n \notin open
  /\ opens[n] < IF n \in Roaming THEN MaxOpens ELSE 1
  /\ opens' = [opens EXCEPT ![n] = @ + 1]
  /\ open' = open \cup {n}
  /\ net' = net \cup {Register(n, opens'[n])}
  /\ keepalives' = keepalives
       \cup {[node |-> n, socket |-> opens'[n], at |-> "started", stop |-> 0]}
  /\ heard' = {h \in heard : h[2] # n}
  /\ UNCHANGED <<relayVars, bounds>>

(***************************************************************************)
(* Close wakes the keepalives that wait on the channel it closes; any      *)
(* other finds no channel in the Bind, and goes on.                        *)
(***************************************************************************)
Close(n) ==
  /\ n \in open /\ n \in Roaming
  /\ open' = open \ {n}
  /\ keepalives' =
       {k \in keepalives : ~(k.node = n /\ k.at = "select" /\ k.stop = opens[n])}
  /\ UNCHANGED <<opens, relayVars, net, heard, bounds>>

Usable(n, s) == n \in open /\ opens[n] = s

Move(k, at) ==
  keepalives' = (keepalives \ {k}) \cup
    {[k EXCEPT !.at = at, !.stop = IF at = "select" /\ k.node \in open
                                   THEN opens[k.node] ELSE 0]}

(***************************************************************************)
(* A turn of a keepalive: it waits, the ticker fires, and the announcement *)
(* is sent, unless its socket is closed.                                   *)
(***************************************************************************)
Wait(k) ==
  /\ k.at = "started"
  /\ Move(k, "select")
  /\ UNCHANGED <<opens, open, relayVars, net, heard, bounds>>

Tick(k) ==
  /\ k.at = "select"
  /\ Move(k, "turn")
  /\ UNCHANGED <<opens, open, relayVars, net, heard, bounds>>

\* Slip: a node the relay knows is not announced again.
AnnounceUnknown(k) ==
  /\ k.at = "turn"
  /\ net' = IF Usable(k.node, k.socket) /\ clients[k.node] = 0
            THEN net \cup {Register(k.node, k.socket)} ELSE net
  /\ Move(k, "select")
  /\ UNCHANGED <<opens, open, relayVars, heard, bounds>>

Announce(k) ==
  /\ k.at = "turn"
  /\ net' = IF Usable(k.node, k.socket) THEN net \cup {Register(k.node, k.socket)} ELSE net
  /\ Move(k, "select")
  /\ UNCHANGED <<opens, open, relayVars, heard, bounds>>

(***************************************************************************)
(* Send, to the peer with the endpoint ParseEndpoint made of m's address:  *)
(* a closed Bind sends nothing.  A tunnel that is up sends something every *)
(* 25 seconds (wg.go:105); one that is not, a handshake for each packet.   *)
(***************************************************************************)
Send(n, m) ==
  /\ n \in open /\ n \in Talking /\ n # m
  /\ net' = net \cup {Data(n, m, opens[n])}
  /\ UNCHANGED <<nodeEnd, relayVars, heard, bounds>>

-------------------------------------------------------------------------------
(* The relay *)

(***************************************************************************)
(* The receive function of a socket: what comes from the relay is data,    *)
(* with the address of its sender.  It gets there if the socket the relay  *)
(* sent it to is still the node's; that it takes time is no step of its    *)
(* own, since a late datagram finds that socket or none.                   *)
(***************************************************************************)
makeRelayReceive(src, m, socket) ==
  heard' = IF Usable(m, socket) THEN heard \cup {<<src, m>>} ELSE heard

\* Slip: data goes back to where it came from.
handleEcho(p) ==
  /\ clients' = [clients EXCEPT ![p.src] = p.socket]
  /\ IF p.type = "data" THEN makeRelayReceive(p.src, p.src, p.socket) ELSE UNCHANGED heard

(***************************************************************************)
(* handle: both kinds of datagram say where their sender is.  Data also    *)
(* goes on, to the socket known for its destination, if there is one.      *)
(***************************************************************************)
handle(p) ==
  /\ clients' = [clients EXCEPT ![p.src] = p.socket]
  /\ IF p.type = "data" /\ clients'[p.dst] # 0
     THEN makeRelayReceive(p.src, p.dst, clients'[p.dst])
     ELSE UNCHANGED heard

(***************************************************************************)
(* Serve: the next datagram, in any order, which may also be a duplicate.  *)
(***************************************************************************)
Serve(p) ==
  /\ serving /\ p \in net
  /\ handle(p)
  /\ \/ net' = net \ {p} /\ UNCHANGED lost
     \/ lost < MaxLost /\ lost' = lost + 1 /\ UNCHANGED net
  /\ UNCHANGED <<nodeEnd, serving, restarts, resets>>

Lose(p) ==
  /\ p \in net
  /\ net' = net \ {p}
  /\ \/ serving /\ lost < MaxLost /\ lost' = lost + 1
     \/ ~serving /\ UNCHANGED lost
  /\ UNCHANGED <<nodeEnd, relayVars, heard, restarts, resets>>

(***************************************************************************)
(* Any read that fails ends Serve, such as the connection reset that       *)
(* Windows reports for an earlier datagram nobody received.                *)
(***************************************************************************)
ReadFails ==
  /\ serving /\ resets < MaxResets
  /\ resets' = resets + 1
  /\ serving' = FALSE
  /\ UNCHANGED <<nodeEnd, clients, net, heard, lost, restarts>>

Restart ==
  /\ restarts < MaxRestarts
  /\ restarts' = restarts + 1
  /\ serving' = TRUE
  /\ clients' = [n \in Node |-> 0]
  /\ UNCHANGED <<nodeEnd, net, heard, lost, resets>>

RelayNext ==
  \/ \E n \in Node : Open(n) \/ Close(n) \/ \E m \in Node : Send(n, m)
  \/ \E k \in keepalives : Wait(k) \/ Tick(k) \/ Announce(k)
  \/ \E p \in net : Serve(p) \/ Lose(p)
  \/ ReadFails \/ Restart

RelaySpec == RelayInit /\ [][RelayNext]_relayAll

(***************************************************************************)
(* A keepalive's ticker goes on, nodes have something to send, and what is *)
(* sent arrives in the end if it is not lost.                              *)
(***************************************************************************)
Turn(n, s) ==
  \E k \in keepalives : k.node = n /\ k.socket = s /\ (Wait(k) \/ Tick(k) \/ Announce(k))

RelayFairness ==
  /\ \A n \in Node, s \in 1 .. MaxOpens : WF_relayAll(Turn(n, s))
  /\ \A n \in Talking, m \in Node : WF_relayAll(Send(n, m))
  /\ \A p \in Datagram : WF_relayAll(Serve(p))

-------------------------------------------------------------------------------
(* Properties *)

Settled == open = Node /\ serving

(***************************************************************************)
(* Once the nodes stay up, the relay comes to know each under its current  *)
(* socket, and a node that has packets for another gets through to that    *)
(* socket, even if the other says nothing but announcements: the keepalive *)
(* makes up for announcements that were lost, duplicated or overtook those *)
(* of a newer socket and for restarts that emptied the table, and those    *)
(* left over from earlier sockets do no harm.  The relay "lets peers       *)
(* behind NAT communicate via the always-on public-IP server" (bind.go:6). *)
(***************************************************************************)
TunnelsComeUp ==
  <>[]Settled =>
    <>[](clients = opens /\ heard = {h \in Talking \X Node : h[1] # h[2]})
===============================================================================
