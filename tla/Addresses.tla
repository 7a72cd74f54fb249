------------------------------- MODULE Addresses ------------------------------
(***************************************************************************)
(* The addresses a server hands out (server/host/host.go) and what clients *)
(* make of them: the join address, which NewClient of client/join dials,   *)
(* and the relay's address, which a registration answers with and NewRelay *)
(* of client/wgbind parses.                                                *)
(*                                                                         *)
(* An address is a host and a port, which may be missing: SplitHostPort    *)
(* fails exactly then.  Hosts differ by what they are: a literal address,  *)
(* a name, the wildcard a server listens on.                               *)
(***************************************************************************)
EXTENDS Integers

CONSTANTS
  IpHost, NameHost,   \* literal IPv4 addresses and names an operator may type
  AnyHost,            \* "0.0.0.0", "::" or no host: every interface
  Loopback,           \* "127.0.0.1"
  Port,               \* ports, 80 and 443 perhaps among them
  NoPort, Untyped     \* no port; an option left empty

VARIABLES
  setup,     \* the configuration, and what the listeners are bound to
  handed     \* what clients are told: [join, relay], or Untyped

addressVars == <<setup, handed>>

ASSUME AddressConstants ==
  /\ Port \subseteq Nat /\ NoPort \notin Port
  /\ AnyHost \notin IpHost \cup NameHost /\ IpHost \cap NameHost = {}
  /\ Loopback \in IpHost
  /\ Untyped \notin NameHost /\ Untyped \notin [host : IpHost \cup NameHost, port : Port \cup {NoPort}]

Typed == [host : IpHost \cup NameHost, port : Port \cup {NoPort}]
Bound == [host : IpHost \cup {AnyHost}, port : Port]

Setup ==
  {s \in [tls : {"auto", "off", "self", "acme"}, domain : NameHost \cup {Untyped},
          public : Typed \cup {Untyped}, relayPublic : Typed \cup {Untyped},
          control : Bound, relay : Bound] :
     s.tls = "acme" => s.domain # Untyped}

AddressInit == setup \in Setup /\ handed = Untyped

-------------------------------------------------------------------------------
(* The server *)

(***************************************************************************)
(* Build: with a domain the certificate comes from a CA, without one it is *)
(* self-signed, unless the operator chose.                                 *)
(***************************************************************************)
TLSMode(s) == IF s.tls # "auto" THEN s.tls ELSE IF s.domain = Untyped THEN "self" ELSE "acme"

Domain(s) == IF TLSMode(s) = "off" THEN Untyped ELSE s.domain

withPort(hostname, listen) ==
  [host |-> hostname, port |-> IF listen.port # 443 THEN listen.port ELSE NoPort]

\* Slip: an address without a port is handed out as it is.
ensureNothing(a, listen) == a

ensurePort(a, listen) == IF a.port # NoPort THEN a ELSE withPort(a.host, listen)

localAddr(a) == [a EXCEPT !.host = IF @ = AnyHost THEN Loopback ELSE @]

relayPublic(s) ==
  IF s.relayPublic # Untyped THEN ensurePort(s.relayPublic, s.relay)
  ELSE IF s.public # Untyped THEN [host |-> s.public.host, port |-> s.relay.port]
  ELSE localAddr(s.relay)

JoinURL(s) ==
  [scheme |-> IF TLSMode(s) = "off" THEN "http" ELSE "https",
   pinned |-> TLSMode(s) = "self",
   at     |-> IF s.public # Untyped THEN ensurePort(s.public, s.control)
              ELSE IF Domain(s) # Untyped THEN withPort(Domain(s), s.control)
              ELSE localAddr(s.control)]

HandOut ==
  /\ handed = Untyped
  /\ handed' = [join |-> JoinURL(setup), relay |-> relayPublic(setup)]
  /\ UNCHANGED setup

AddressSpec == AddressInit /\ [][HandOut]_addressVars

-------------------------------------------------------------------------------
(* The client *)

\* The port net/http dials for the URL NewClient has normalised.
DialledPort(u) ==
  IF u.at.port # NoPort THEN u.at.port ELSE IF u.scheme = "https" THEN 443 ELSE 80

(***************************************************************************)
(* certpin: with a pin the client trusts that key and nothing else; with   *)
(* none, and TLS, what a CA vouches for under the host it dials.           *)
(***************************************************************************)
HTTPClientTrusts(u, s) ==
  CASE u.pinned -> TLSMode(s) = "self"
    [] u.scheme = "http" -> TRUE
    [] OTHER -> TLSMode(s) = "acme" /\ u.at.host = s.domain

\* NewRelay: netip.ParseAddrPort takes a literal address and a port.
NewRelayAccepts(a) == a.host \in IpHost /\ a.port # NoPort

-------------------------------------------------------------------------------
(* Properties *)

PortFor(typed, bound) ==
  IF typed # Untyped /\ typed.port # NoPort THEN typed.port ELSE bound.port

(***************************************************************************)
(* "An operator who types only a host means 'reach me here', not 'reach me *)
(* on 443'" (host.go:268): a client that dials the join address gets to    *)
(* the port the server listens on or the operator named, speaks TLS if the *)
(* server does and trusts the certificate it is shown.  Two exceptions: a  *)
(* server without TLS on 443, and one with a CA's certificate that is      *)
(* published under another host than the certificate's.                    *)
(***************************************************************************)
JoinAddressWorks ==
  handed # Untyped =>
    /\ \/ setup.tls = "off" /\ setup.control.port = 443
       \/ DialledPort(handed.join) = PortFor(setup.public, setup.control)
    /\ handed.join.at.host # AnyHost
    /\ handed.join.scheme = "https" <=> TLSMode(setup) # "off"
    /\ \/ TLSMode(setup) = "acme" /\ setup.public # Untyped /\ setup.public.host # setup.domain
       \/ HTTPClientTrusts(handed.join, setup)

(***************************************************************************)
(* "A listen address is not a destination" (host.go:284): the relay's      *)
(* address is one a client's NewRelay accepts, with the port the relay is  *)
(* bound to or the operator named.  Two exceptions: a host given by name,  *)
(* and a relay on 443 published without a port.                            *)
(***************************************************************************)
RelayTarget == IF setup.relayPublic # Untyped THEN setup.relayPublic ELSE setup.public

RelayAddressWorks ==
  /\ handed # Untyped
  /\ RelayTarget # Untyped => RelayTarget.host \in IpHost
  /\ ~(setup.relayPublic # Untyped /\ setup.relay.port = 443)
  => /\ NewRelayAccepts(handed.relay)
     /\ handed.relay.port = PortFor(setup.relayPublic, setup.relay)

\* What host.go:256-344 hands out is what clients can use: both of the above.
AddressesWork == JoinAddressWorks /\ RelayAddressWorks
===============================================================================
