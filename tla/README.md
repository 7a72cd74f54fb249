# zwan: TLA+ models and proofs

zwan joins Windows devices into private overlay networks: a control server hands
out addresses and lists members and services, clients build WireGuard tunnels from
those lists (directly or through a relay), and names and services are offered locally.
This directory models its stateful parts in TLA+, checks them with TLC on small
instances, and proves the central ones with TLAPS for every size.

`PROJECT.json` maps every definition to the lines it models and lists runs, mutants,
hazards, findings and theorems. Paths below are relative to `src/`.

To check something, in this directory:

    tlc -workers 2 -config Engine.cfg MCEngine
    tlapm ControlServerProofs.tla

## 1. Inventory

### Server side

| Part | State | Operations | What makes it correct |
|---|---|---|---|
| `server/ipam` | the next free address, addresses in use, key → address | `Split`, `New`, `Allocate` | halves partition the range; addresses are distinct, kept for good, and refused only when none is left |
| `shared/acl` | rules, token table (both fixed at start) | `Allows`, `BuildJoinTokens`, `Group` | a token never stands for two groups; comparison ignores spelling |
| `server/store` | members, token index, services, in memory | `Upsert`, `MemberByToken`, `MemberByIP`, `UpsertService`, lists | index and members agree; a token revoked stays revoked |
| `server/api` | none; requests run concurrently | `register`, `peers`, `services` (GET and POST) | interleaved requests act like a directory with atomic entries |
| `server/relay` | overlay address → UDP address | `Serve`, `handle` | packets reach the node they are for, at its current socket |
| `server/host` | listeners, server | `Start`, `Stop`, `JoinURL`, `relayPublic` | no listener outlives a failed start or a stop; clients can use the addresses they are told |
| `server/supervisor`, `server/config` | configuration in memory and on disk | `AutoStart`, `Start`, `Stop`, `Shutdown` | what the operator last asked for runs, also after a reboot |
| `server/tlsconf` | key and certificate files | load, create, reissue | the pin never changes; the certificate served fits |

### Client side

| Part | State | Operations | What makes it correct |
|---|---|---|---|
| `client/join` | node token, assigned address | `Join`, `Peers`, `Services`, `PublishService`, reauthentication | never stranded by a server restart, never taken for another device |
| `client/engine` | tunnel, routes, DNS zone, access policy, proxies | `Start`, one round every 3 s, `Stop` | in the end everything agrees with the server's lists |
| `client/wg`, `client/tun` | peers and allowed addresses; the adapter | `SetPeers`, configuration | an address is carried by one peer |
| `client/wgbind` | UDP socket, keepalive | `Open`, `Close`, `Send` | keeps the relay informed |
| `client/vip` | two-way address table | `Local`, `Real`, `Wrap`; packet rewriting | a bijection; replies reach who was addressed; checksums stay right |
| `client/l4` | UDP flows, TCP connections, access policy | `serve`, `flowFor`, pumps, `Close`, `Set`, `Permits` | a flow always has a pump and ends with its client; nothing survives `Close`; only allowed members get through |
| `client/manager`, `client/profile` | networks up, saved networks, `networks.json` | `Start`, `Connect`, `Disconnect`, `Forget`, `Stop` | distinct ports and ranges, no engine without an entry, no network lost |
| `client/resolver`, `client/nrpt` | zones and records; Windows policy rules | `SetZone`, `lookup`, `handle`; `Apply`, `Clear`, `Purge`, the follower | a name gets the address of its own network; policy equals zones; foreign rules untouched; nothing left behind |

| `gui` | the application's own supervisor; the tray's items | `HostStart`, `HostStop`, `HostStatus`; `trackState`, `watch` | what is stopped stays stopped, whoever ran it; a click acts on the network it shows |

Also in the repository: command pipes (`client/ipc`, `server/ipc`), certificate pinning,
keys, wire types and paths (`shared`), firewall rules, self-update and service programs
(`cmd`).

### How the parts interact

* The engine calls the control server over HTTPS through `client/join`; members and
  services are two calls, between which the server may change or restart.
* Each request is a goroutine on the server. Store and allocators lock per method, so
  handlers interleave between those calls.
* The engine pushes what it learned, one call after the other and each of which may
  fail, into the device, the routes, the zone, the access policy and the proxies.
* The manager runs one engine per network; requests of the UI run beside `Start` and
  beside each other, and the mutex is never held while an engine starts.
* The follower goroutine copies the resolver's zones into the policy table, which is
  machine state that others write too and that outlives the process.
* Nodes reach each other through the relay over UDP.
* The application asks whether a service answers its pipe, then acts through the service or by
  itself; both sides share the saved configuration and the machine's ports.

### What is hard here

Handlers that use a record they read before others changed it; choices made under a
mutex and acted on after it; a server that forgets everything when it restarts, against
clients that do not; multi-step operations that fail half-way next to a memory of "what
was applied last"; files overwritten in place; datagrams lost, repeated and overtaken;
expiry racing use; ranges that run full. The list, with lines, is under `hazards` in
`PROJECT.json`.

## 2. Modules

| Module | Models | State and steps |
|---|---|---|
| `Split` | `ipam.Split` | no state beyond the input; every range is an initial state |
| `Ipam` | `ipam.Allocator` | `next`, `used`, `byKey`; `Allocate` for a known key, a new one, or none left |
| `Acl` | groups and rules | operators only |
| `JoinTokens` | `BuildJoinTokens`, `Group` | the table is built entry by entry, in any order of the map |
| `ControlServer` | api + store + two `Ipam` instances | per request `pc` and the locals of the handler; one action per call to store or allocator |
| `Directory` | what the control server promises | members and services that change atomically |
| `ControlSession` | `client/join` under the engine | per device engine, token, address; the server is what it has on record of each device and an `Ipam`; exchanges are lost, answered in vain or served late |
| `VipTable` | `vip/table.go`, `vip/device.go` | the two maps, the cursor; `Local` is cut between its read lock and its write lock |
| `Rewrite` | `vip/rewrite.go` | a packet before and after, over words of `B` values |
| `SplitDns` | resolver zones, `followZones`, `nrpt` | the policy table; `Apply` reads, mutates rule by rule, remembers |
| `Manager` | `client/manager`, `networks.json` | entries, saved list, file, engines up; each mutex section, engine start/stop and half of a write is a step |
| `Hosting` | supervisor, host, config, tlsconf | files, listeners, what is served; every step of `Start` can fail or be the last before a kill |
| `Engine` | `client/engine`, `wg.SetPeers` | tunnel, routes, zone, access, listeners; a round is four steps, with calls to the server in between |
| `Relay` | `server/relay`, relay mode of `client/wgbind` | sockets, keepalives, datagrams under way, the table, who has heard whom |
| `UdpProxy` | `client/l4/udp.go` | flows, sockets, pumps; cut at each unlock and system call |
| `Access` | group filtering of `server/api`, the round of `client/engine`, `client/l4` | the server's members and services, a host's tunnel, policy and listeners; a connection is a predicate on them |
| `Addresses` | `host.go`'s addresses, `tlsconf`'s modes, `join.NewClient`, `certpin`, `wgbind.NewRelay` | every setup is an initial state; one step hands the addresses out |
| `Resolver` | `client/resolver`, `updateDNS` | what each server said last, and the zones; answers are sets, as the order of a Go map is any |
| `HostTab` | hosting from `gui/app.go` and the tray | the two supervisors, the saved configuration; asking and acting are separate steps |
| `Tray` | the networks of `gui/tray.go` | the service's list, the bound list, the titles, a goroutine per item |
| `MCParts` | | `Ipam`, `Split`, `JoinTokens`, `Rewrite`, `VipTable`, `Addresses` and `Resolver`, each in behaviours of its own |
| `MCSockets` | | `Relay` and `UdpProxy` |
| `MCHosting` | | `Hosting`, `HostTab` and `Tray`, with configurations |
| `MCControlServer`, `MCManager`, `MCEngine`, `MCAccess` | | constants, symmetry and what is looked at |
| `IpamProofs`, `ControlServerProofs`, `ManagerProofs` | | theorems about the module of that name |
| `ControlSessionProofs` | | theorems about `ControlSession` and `Relay` |
| `DataPathProofs` | | theorems about `VipTable`, `Access`, `Rewrite` and `Split` |
| `HostingProofs` | | theorems about `Hosting`, `Addresses` and `JoinTokens` |
| `ClientPartsProofs` | | theorems about `UdpProxy`, `SplitDns` and `Resolver` |
| `DesktopProofs` | | theorems about `HostTab`, `Tray` and `Engine` |

Composition: `ControlServer` instantiates `Ipam` twice (lower half for nodes, upper for
services) and extends `Acl`; it is shown to implement `Directory`. `ControlSession`
uses `Ipam` and a record per device in place of the handlers, and `Engine` lists of members and
services that change in one step, as `Directory` justifies, with addresses handed out in order as `Ipam` does.
`Access` puts three parts together: the server's filtering (with `Acl`), the host's engine and the
check in front of a service. `HostTab` and `Tray` use the supervisor and the manager as one step per
call; their insides are in `Hosting` and `Manager`. `VipTable`'s bijection is what
allows `Engine` to let an address stand for its local counterpart.

### What the abstractions leave out

* Devices, keys, names, tokens and hostnames are model values. Addresses are numbers.
* Group names keep their spelling, since comparison normalises it; `normalize` is a constant
  of which only idempotence and its value on the blank and the wildcard are assumed.
* `newNodeToken` is random; the model never mints a token twice.
* In `Engine` the server shows everyone to everyone: group filtering is in
  `ControlServer` and `Access`. Handshake status is left out.
* In `Access` the translation of addresses is left out, as in `Engine`. A service's name stands
  for its address, so a name has the same address after a restart. Ports are left out, and the
  reconnect of an edit succeeds.
* In `HostTab` a write of the configuration succeeds; failed and interrupted writes are in `Hosting`.
* In `Relay` a forwarded datagram arrives at once: a late one finds the socket it was sent to,
  or none. Direct mode, without the relay, is a plain socket and is left out.
* In `Addresses` a host is a literal address, a name or the wildcard, and a port may be missing;
  parsing is what it yields for these.
* In `Hosting`, expiry of a certificate is left out, and ACME certificates are autocert's.
* `Rewrite` leaves out header lengths and options; a word has `B` values,
  four in the run, any number of at least two in the proof, and 2^16 in the code.

## 3. Runs that pass

| Run | Shows | Bounds, and why they are enough |
|---|---|---|
| `parts` | `ExhaustedOnlyWhenFull`, `HalvesPartitionRange`, `AmbiguousTokensRejected`, `ChecksumsRepaired`, `RepliesReachTheSender`, `RefusedOnlyWhenFull`, `AddressesWork`, `NamesResolveRight` | six keys for four addresses; every range of a 6-bit space, from /0 to single addresses, so that every relation of length to limit occurs; two tokens and group names in several spellings, blank, default and `*`; all packets over 2-bit words, with carries, both zeros and absent checksums; two callers and eight peers for six local addresses, some sharing their low bits, some wanting the first or last; every combination of mode, domain, published and listening addresses over two ports, one of them 443; a suffix below another, lists of up to two members and a service, hosts in two spellings, a host and a service of one name, entries without name or address, a service whose address does not parse |
| `server` | `TokenIndexInStep`, `AddressesUnique`, `VisibleServiceIsReachable`, `AnswersStayRoutable`, `RevokedForGood`, `AddressesStable`, `ImplementsDirectory` | two requests at a time, three tokens, one restart, three devices and three names for two addresses each: a device registers again during its own or another's request, and both allocators run out; more than one service only with one device; the proofs cover every size |
| `session` | `TokenIsMine`, `AddressAgreesUntilRestart`, `NotStranded` | three devices for two addresses, one of which starts its engine twice, one restart, one failed exchange: a registration of the first engine can arrive during the second, on either side of the restart, and a device can find its address given to another |
| `split_dns` | `NothingLeftBehind`, `ForeignKept`, `EventuallyInStep` | one failed script, one change by others, four changes of the zones, two runs of the process, stopped or killed |
| `manager` | `EntriesMatchEngines`, `LocalRangesDistinct`, `NetworksKept`, `PortIsFree` | two calls at a time, three networks for two ranges, one port taken by others, one kill, failed write or failed start |
| `hosting` | `SocketsMatch`, `CertificateFits`, `OperatorObeyed`, `PinStable`, `StopStaysStopped`, `ClicksHitWhatTheyShow` | three requests, two at a time, three runs of the process, kills between any two steps and inside writes, a failing step or write of the configuration, an unreadable file; eight operations and service starts with two configurations, so that each supervisor can hold what the other has replaced; three networks for two items of the tray and three requests, so that a network comes or goes in front of another |
| `engine` | `AllowedDisjoint`, `InStepEventually`, `HostedServed` | two other devices, one service on each side, a local range that is nearly full, and up to `MaxTrouble` of restarts, failures and stops |
| `sockets` | `TunnelsComeUp`, `FlowsArePumped`, `CloseIsFinal`, `FlowsExpire` | one node reopens its socket and only announces itself, the other sends; one datagram lost or repeated, one relay restart, one failed read; three clients of a proxy, one refused, three sockets: a flow expires and is made again while another's goes on |
| `access` | `AdmittedWasAllowed`, `PolicyTakesHold` | two other devices in three groups, one of them, called `*`, not connected by the policy; an open allow list and a narrow one, which tells the two connected groups apart; three registrations or publications, a restart, an edit and a failure (of `Services`, `SetPeers` or a listener): addresses pass from one device to the other while the old policy is in force, a failed `SetPeers` is repaired or not, and listeners of the engine before the edit stay |

Several properties carry a condition under which the code keeps its promise; section 4 lists
what happens otherwise.

In `ControlServer.cfg` the constraint `InView` numbers devices and names in the order in which
they come up, which loses nothing, since they are interchangeable, and leaves out behaviours
with several services and several devices together.
In `Access.cfg` the constraint `InOrder` numbers the clients in the same way; it leaves out
nothing else.

`CHECK_DEADLOCK FALSE` stands where the bounded counters, an operator who asks for nothing
more, or a computation that is over let the system stop. `ControlServer` can always take a
step, and is checked for deadlock.

Every property has a mutant in `PROJECT.json`: a plausible slip in the code (a dropped
second look under the write lock, a pump that removes whatever flow is there, a cleanup
left out of an error path...) that makes the property fail. They stand in the modules under
comments that begin with `Slip`.

### Fairness

* `Engine`: weak fairness of the round, of `Cleanup` and of `Start`, as `run` is driven by a
  3 s ticker and the manager starts it; the other devices run the same loop, and so rejoin and
  republish. Failures are bounded: nothing is claimed of a call that always fails.
* `ControlSession`: weak fairness of a running engine's next call. Requests that are not
  lost are answered, as handlers hold no lock while they wait for anything.
* `SplitDns`: weak fairness of the follower's own steps; strong fairness of the slow resync, as
  its ticker keeps a pending tick and Go's `select` chooses at random among ready channels.
* `Relay`: weak fairness of every keepalive (15 s ticker), of `Send` of the nodes that talk
  (a tunnel sends a keepalive every 25 s, `wg.go:105`, and handshakes before that) and of the
  arrival of a datagram that is not lost; loss is bounded.
* `UdpProxy`: weak fairness of a pump once its client is gone, since every read has a deadline,
  and of `serve` between dialling and entering a flow. Nothing is assumed of clients that stay.
* `Access`: weak fairness of the round, from the same ticker as in `Engine`.

Nothing is assumed of operators, restarts, kills or other programs.

## 4. Where the code does not do what it says

Three runs check a property as a comment of the code or a text of the application states it,
and TLC finds a behaviour of the code that contradicts it. The quotations are under `findings` in `PROJECT.json`.

| Run | What happens |
|---|---|
| `shared_range` (`LocalRangesUnique`) | two `Connect`s choose the same local range, since a choice is recorded only after the engine has started |
| `stuck_tunnel` (`TunnelRepaired`) | a failed `SetPeers` empties the tunnel; when the peers wanted next equal the last success, nothing repairs it |
| `edited_service` (`EditsTakeEffect`) | an edited allow list or port never reaches a server that lists the name already, and a removed service stays listed |

Other limits are conditions of properties that hold. Each condition is needed: without it TLC
finds the behaviour described.

| Property | Condition | Without it |
|---|---|---|
| `LocalRangesDistinct`, `PortIsFree` | the two networks were never taken up by calls that met (`crossed`) | as `shared_range`, for ranges and for ports (`manager.go:174`) |
| `EntriesMatchEngines` | the same, of one network | a `Disconnect` during a `Connect` finds nothing to stop; the network stays up, saved as down (`manager.go:217`) |
| `NetworksKept` | the same, and no failed or torn write | two lists are written in the opposite order, and a network is gone from the file (`manager.go:329`) |
| `PortIsFree` | a port is left | port 0, "let the OS choose", is taken for the default port by the engine (`manager.go:394`, `engine.go:128`) |
| `NothingLeftBehind` | no script failed, nobody else wrote | `Clear` trusts the memory of the last success and leaves rules a failed script had added (`nrpt.go:74`) |
| `OperatorObeyed` | `AutoStart` does not overrule the request, the file is whole | a `Stop` between `AutoStart`'s look and its `Start` is undone (`supervisor.go:40`); a kill inside the write loses the configuration (`config.go:104`) |
| `OperatorObeyed` | the configuration was written (`unsaved`) | a failed write is only logged and the call succeeds (`supervisor.go:119`): after the next boot a stop is undone, or a start lost |
| `PinStable` | the key file was readable | an unreadable key file is taken for a missing one, and the pin changes (`selfsigned.go:71`) |
| `InStepEventually`, `HostedServed` | `Unmoved`: after a restart everyone gets the address of before | a hosted service is listed at an address its listener does not have, or is refused publication (`engine.go:567`) |
| `TunnelsComeUp` | the relay serves | one failed read ends `Serve` although the socket is open (`relay.go:63`) |
| `NotStranded` | an error has named the new address, or the tunnel has the one on record | the error comes once (`join.go:184`): the engine logs it from `Peers` (`engine.go:356`), drops it from `Services` (`engine.go:360`), and runs on at an address that may be another's by now |
| `NotStranded` | an address is left in the range | after a restart others take the last one, and the engine's registrations are refused |
| `AdmittedWasAllowed` | not between `SetPeers` and `AccessPolicy.Set` | a new peer at an address that was another's is let through by the old policy (`engine.go:401`) |
| `AdmittedWasAllowed` | `TunnelAsSet`: the tunnel is that of the last `SetPeers` that succeeded | a peer put in by a failed `SetPeers` and then forgotten by the server stays if the peers wanted next equal the last success (`engine.go:400`); an open list admits it, since it is looked at before the member record (`access.go:52`), although "a source with no member record is refused" (`access.go:42`) |
| `AdmittedWasAllowed` | the listener is this engine's | one left by an earlier engine (`engine.go:332`) asks that engine's policy, which nobody sets any more, although "an edited access list then applies to the next connection" (`access.go:18`) |
| `PolicyTakesHold` | in the end `TunnelAsSet`, and `Hosted`: a listener of this engine | a failed `SetPeers` that is never repaired shuts a member out for good (`engine.go:400`); a listener left open keeps the old list and keeps the new engine from listening |
| `PolicyTakesHold` | `Rejoined`: the host's address is the one its engine has | as for `InStepEventually` |
| `AddressesWork` | the relay is published under a literal address | `NewRelay` refuses a name (`bind.go:48`), although `host_test.go:206` expects one to be handed out |
| `AddressesWork` | a relay on 443 is not published without a port | `withPort` leaves 443 out, which `NewRelay` cannot parse (`host.go:328`) |
| `AddressesWork` | no server without TLS on 443 | its address has no port, and the client dials 80 (`host.go:328`) |
| `AddressesWork` | a CA's certificate is for the host that is published | the client is sent to a host the certificate does not name (`host.go:256`) |
| `StopStaysStopped` | no service comes up while the application hosts the network, or in mid-operation | `HostStop` then goes to the service and the application's network goes on (`app.go:162`) |
| `ClicksHitWhatTheyShow` | no network came or went, and none was edited, since the tray asked | the click acts on the network next to it, or saves the settings of before (`tray.go:99`) |

More are in the models without a property: any member may publish under a name that another
node's service has, and `Permits` goes by the name, so that the list of the newcomer then holds
at the old listener (`access.go:48`, `Access`); of two devices with one hostname the one listed last
has the name (`engine.go:510`, `Resolver`); the application's supervisor saves the configuration it
remembers when it stops, over one the service has saved since (`supervisor.go:81`, `HostTab`);
`serve` of the UDP proxy ends on any failed read, and the service is then silent until the engine
restarts (`udp.go:73`, `UdpProxy`).

## 5. What is proved

All proofs are for every value of the constants that satisfies the named `ASSUME`s.

**`IpamProofs`** (from `IpamConstants`: a non-empty range). `IpamInv` is inductive as it stands:
types, distinct addresses, and `used` equal to the addresses held, all below `next`.
`AllocatorCorrect` proves it, `ExhaustionIsReal` and `KeysKeepTheirAddress` follow.

**`ControlServerProofs`** (from `ServerConstants`, `NoneIsNoRecord`, `AclConstants`).
The invariants of the run are not inductive, for a handler stores at its last step what it
read several steps before. `ServerInv` adds what is true of every request in flight:

* `TypeOK`, `IpamInv` of both allocators, `TokenIndexInStep`;
* `MembersSound`: a member has the address leased to its device;
* `ServicesSound`: a service has the address leased to its name, and its node is the
  address of some member;
* `RequestsSound`: the record a request authenticated with has the address leased to its
  device, and that device is still a member, if perhaps under another token or group;
  lists being filtered and answers hold sound entries only.

The step that makes this work is `Persist`: while the server is up, members are never dropped,
their addresses never change and leases only grow. Whatever was sound of a stale record
stays sound (`ServicesStaySound` and its companion for requests); a restart cuts
every request off. From `ServerInv`: `ServerTypeCorrect`, `TokenIndexCorrect`, `AddressesCorrect`,
`ServicesCorrect`, `AddressesNeverShared` (no address in two hands, the halves being
disjoint), `VisibleServicesReachable`, `AnswersCorrect`, `RevocationIsFinal`,
`AddressesAreStable`, and `DirectoryImplemented`: every step of the interleaved handlers is a step
of `Directory` or leaves it as it is.

**`DataPathProofs`**, translation (from `VipConstants`). `TableInv` is `VipInv` (the maps are inverse
to each other, `used` is their range) with two facts about the past: `AnswersKept` (an answer given
once is still in the table) and `SelfKept` (the node's own address is mapped before anybody
translates). It yields `MappingIsTwoWay`, `RepliesCorrect` and `RefusalIsReal`, the latter because
the scan visits every usable index exactly once wherever it starts.

**`DataPathProofs`**, access (from `AccessConstants`, `AclConstants`). `AdmittedWasAllowed` speaks of
devices, the policy of addresses, which pass from device to device. `AccessInv` says that the
directory, and so every answer, gives an address to one device only (`DirectorySound`,
`AnswerSound`), and that the peers of the last `SetPeers` that succeeded (`lastSig`) and the policy
come from answers that agree on members and addresses, unless `SetPeers` was called since
(`PolicyFits`). A round that skips `SetPeers` keeps this, as the peers it wants are `lastSig`; the
tunnel itself may differ after a failure, hence `TunnelAsSet`. `AdmissionCorrect` follows.

**`DataPathProofs`**, rewriting (from `RewriteConstants`: a word has at least two values, and what a
header holds beside its addresses is not all zero). The invariant is simple (`PacketInv`); the work
is in the arithmetic. That the recursive `Fold` has a solution is shown by giving one (`FoldIs`);
that it changes a sum by a multiple of all ones only, and leaves zero only of zero, by the
least number for which it would not (`FoldValue`). So a sum folds to all ones exactly if it is a multiple
of all ones and not zero (`FoldOnes`). `csumUpdate` makes up for the words that changed, up
to a multiple (`UpdateFits`), and since the rest of a header is not zero the repaired sum is not zero
either (`SumRepaired`, `QuoteRepaired`): this is where the two spellings of zero in ones' complement
could go wrong. Theorem: `ChecksumsCorrect`, for every table, one-to-one or not.

**`DataPathProofs`**, the division of a range (from `SplitConstants`: a width of at least one bit, a
limit within it). `Power`, the code's `1 << n`, is a recursive function; that it satisfies its own
equation is shown by the tables of its first values, of which there is one of each length
(`DoublesExist`, `DoublesAgree`, by the least length for which there is not). A block is a multiple
of its size and the address space a multiple of every block (`PowerSum`, `NoRemainder`), so the upper half
is never reduced by the modulus, and dividing by half the size tells the halves apart (`InHalves`,
`Halves`). Theorem: `SplitCorrect`, of which 32 bits and /28 are one instance.

**`ControlSessionProofs`**, the session (from `SessionConstants`). `TokenIsMine` needs that every token in use was
given out and that the next one was not (`TokensFit`): a registration that arrives late then
cannot match. `AddressAgreesUntilRestart` needs that a member's address is the allocator's and
that an engine of this server process has it (`AddressesFit`). Theorems: `TokenCorrect`, `AddressCorrect`.

**`ControlSessionProofs`**, the relay (from `RelayConstants`). `RelayInv`: whatever names a socket, in
the table, under way or in a keepalive, names one that was opened (`SocketsOpened`); an open socket
has exactly one keepalive (`OneKeepalive`), and although it reads the stop channel anew each time, it
waits on the one the next `Close` will close (`RightChannel`). Theorems: `DeliveryCorrect` (a packet is
given only to whom it was sent, at the socket the relay knows), `CloseStopsKeepalive`, and
`TouchCorrect`, the half of `TunnelsComeUp` that is no matter of fairness: once the relay knows every
node's current socket, and nothing under way is of an older one, it stays so until a socket is
closed or the relay stops. That the relay gets there is the liveness TLC checks.

**`ManagerProofs`** (from `ManagerConstants`). The calls leave the mutex between their steps, so the
proof is about who is answerable for an engine at each moment: the entry, the call that started it,
or the call that took its entry out, and never two of them (`HoldersRun`, `OwnersDiffer`,
`EnginesOwned`); and about what `crossed` means while calls are under way (`PairsCrossed`,
`EarlyCrossed`, `EntriesClear`). `ChoicesFit` says what a choice of port and range still excludes
after the mutex was left; `ListsFit` follows the list from memory to the file. From `ManagerInv`:
`EntriesCorrect`, `RangesCorrect`, `PortCorrect`, `NetworksCorrect`.

**`HostingProofs`**, hosting (from `HostingConstants`). The properties are about moments when nobody
holds the supervisor's mutex. `HostingInv` adds what is true in the middle of a call
(`MutexSound`, `HolderSound`), that there is one key as long as it could be read, and every pin
is its pin (`PinsSound`), and in which of memory, file and a pending `AutoStart` the operator's last wish is
kept (`WishKept`), across kills between any two steps; a wish whose write failed is kept in memory
only, and lost with the process. From it: `SocketsCorrect`,
`CertificateCorrect`, `PinCorrect`, `OperatorCorrect`.

**`HostingProofs`**, addresses and tokens (from `AddressConstants`, `JoinTokenConstants`, `AclConstants`).
`AddressesCorrect` is a case split over certificate mode and the kinds of host and port.
`TokensCorrect` rests on `TableSoFar`: the table holds exactly what was entered, in whatever order.

**`ClientPartsProofs`** (from `UdpProxyConstants`, `SplitDnsConstants`). `ProxyInv`: what `serve` holds
outside the mutex is a socket nobody else knows (`ServeSound`), a flow and its pump name each other
while the proxy is open (`PumpsFiled`), and once `Close` took the map, every pump still running is
one of those it took (`CloseSound`). Theorems: `FlowsCorrect`, `CloseCorrect`. `DnsInv`: `Clear`
and `Purge` ask for nothing (`ClearsAll`), and as long as no script failed and nobody meddled, the
rules in the table are for what the binder remembers or is asked for (`TableFits`). Theorems: `ClearCorrect`, and the action property
`ForeignCorrect`.

**`ClientPartsProofs`**, names (from `ResolverConstants`: lower case of lower case is the same, no two
networks of a device have the same suffix once normalised, as `profile.NormalizeAlias` sees to, and
a service has a name). `ZonesFit` says that there is a zone for each joined network and no other, with the
records of what its server said last; it is inductive since normalised suffixes keep the networks
apart (`ZonesSound`). What a zone holds under a name is the last address written for its label
(`ZoneIs`), which is a service's if there is one, or else a member's (`LastIsTold`); a name is
a label and one suffix in one way only (`ConsSame`), so that no zone has a name of another
network's, even where suffixes are nested. Theorem: `NamesCorrect`, for lists of any length.

**`DesktopProofs`** (from `HostTabConstants`, `TrayConstants`, `EngineConstants`).

* `TabInv`: the service is down while the application hosts, or acts by itself, and a stop has
  reached the saved configuration (`SidesApart`, `StopSaved`). Theorem: `StopCorrect`.
* `TrayInv`: titles, bound list and clicks are of the same list unless the list changed
  (`TitlesInOrder`, `ClicksInOrder`, `SettingsFit`). That a set of aliases has only one sorted list,
  so that two rounds show the same network in the same place, is `SortedUnique`; in place of
  induction, which the provers cannot instantiate, it uses that a set of numbers has a least
  element (`LeastNat`). Theorem: `ClicksCorrect`.
* `EngineInv`: addresses are numbered in order (`MembersNumbered`, `ServicesNumbered`). The two lists of a
  round may be from before and after a restart, and a service published in between may share its
  address with one in the list, but then it is this node's own (`SvcsApart`), which no peer
  carries. Theorem: `AllowedCorrect`. It assumes that the devices fit into their half of the range; `Ipam`
  refuses the others.

Constants that stand for "nothing" are assumed to differ from the values they stand next to, and
bounds to be natural numbers of any size; finiteness is assumed only of devices, service names and networks.

**Only model-checked**: liveness (`NotStranded`, `EventuallyInStep`, `InStepEventually`, `HostedServed`,
`TunnelsComeUp`, `FlowsExpire`, `PolicyTakesHold`), which needs reasoning about fairness and `ENABLED`
that the installed prover does not do. Every invariant and every action property of a passing run is
proved. The other way round, `IpamInv`, `VipInv`, `TypeOK`, `ServiceIsHosted`, `AddressFollowsLease` and
`SelfInPeerList`, and what is proved of the relay, are not part of a run.

## 6. What is not modelled

The pipes' encoding (their requests are the steps of `Manager`, `Hosting`, `HostTab` and `Tray`),
spellings of a pin, encodings, paths and wire types, firewall and adapter calls (single calls to
the system, whose failure is a choice in `Engine`), self-update (a download and a call to the
installer), flags and installation in `cmd`, the window and the texts of the desktop application,
the text syntax of rules, validation of what an operator types, the DNS message format, TCP copy
loops, and direct mode of `wgbind`: a plain UDP socket that keeps nothing but itself.

## 7. Plan

Done: the modules above. Next:

1. `Manager`: a property for a list of networks torn by a kill. `Hosting`: expiry of the
   certificate.
2. Proofs: what is left is liveness.
