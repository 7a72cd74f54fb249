-------------------------------- MODULE Manager -------------------------------
(***************************************************************************)
(* The supervisor of the networks a device has joined:                     *)
(* client/manager/manager.go, with the list it keeps in networks.json      *)
(* (client/profile/networks.go) and the requests of the local UI that      *)
(* drive it (client/ipc/transport_windows.go).                             *)
(*                                                                         *)
(* Every request has its own goroutine, and Manager.Start, which reconnects*)
(* the saved networks, runs beside them (service_windows.go:60-65).  The   *)
(* mutex is held for short sections only: never while an engine starts or  *)
(* stops, and never while the list is written.  Each section, each engine  *)
(* start or stop and each half of a file write is one action.              *)
(***************************************************************************)
EXTENDS Integers, FiniteSets

CONSTANTS
  Alias,        \* local names of networks
  Caller,       \* goroutines: requests, and the one that runs Start
  Ports,        \* how many UDP ports freePortLocked tries (64 in the code)
  BusyPorts,    \* ports other programs use
  Slices,       \* how many local ranges the pool is cut into
  None,         \* no entry
  MaxRequests,  \* bound: requests of the UI
  MaxFaults,    \* bound: engines that fail to start, failing writes and kills
  MaxRuns       \* bound: times the service is started

VARIABLES
  nets,       \* Manager.nets: alias -> [id, port, slice], or None
  saved,      \* Manager.saved: alias -> "absent", "auto" or "manual"
  file,       \* networks.json: like saved, or Torn while it is written
  engines,    \* the engines that are up: [id, alias, port, slice]
  loaded,     \* Start has read the list
  pc, arg, task,   \* where each call stands, for which network, on whose behalf
  new,        \* the port and slice a Connect has chosen, the engine it has started
  old,        \* the entry a call has taken out and must stop
  snap,       \* the list a call is about to write
  queue,      \* networks Start has yet to reconnect
  ids, requests, failures, badWrites, kills, runs,
  kept,       \* networks connected by a finished call and not forgotten since
  crossed     \* sets {a, b}: networks with calls in progress at the same time; {a} when
              \* two calls were for the same network, or one came before Start's load

history  == <<kept, crossed>>
callVars == <<pc, arg, task, new, old, snap>>
bounds   == <<requests, failures, badWrites, kills, runs>>
vars == <<nets, saved, file, engines, loaded, callVars, queue, ids, bounds, history>>

ASSUME ManagerConstants ==
  /\ Ports \in Nat \ {0} /\ Slices \in Nat \ {0}
  /\ BusyPorts \subseteq 1 .. Ports
  /\ None \notin Alias /\ None \notin [id : Nat, port : Nat, slice : Nat]
  /\ MaxRequests \in Nat /\ MaxFaults \in Nat /\ MaxRuns \in Nat

Nothing == [a \in Alias |-> "absent"]
Torn    == [a \in Alias |-> "torn"]

NoChoice == [id |-> 0, port |-> 0, slice |-> 0]

Init ==
  /\ nets = [a \in Alias |-> None]
  /\ saved = Nothing
  /\ file = Nothing
  /\ engines = {}
  /\ loaded = FALSE
  /\ pc = [c \in Caller |-> "idle"]
  /\ arg = [c \in Caller |-> None]
  /\ task = [c \in Caller |-> "none"]
  /\ new = [c \in Caller |-> NoChoice]
  /\ old = [c \in Caller |-> None]
  /\ snap = [c \in Caller |-> Nothing]
  /\ queue = {}
  /\ ids = 0
  /\ requests = 0 /\ failures = 0 /\ badWrites = 0 /\ kills = 0 /\ runs = 1
  /\ kept = {} /\ crossed = {}

-------------------------------------------------------------------------------
(* Bookkeeping *)

Active == {c \in Caller : pc[c] # "idle"}

MayFail == failures + badWrites + kills < MaxFaults

Quiet == Active = {} /\ loaded

Goto(c, at) == pc' = [pc EXCEPT ![c] = at]

(***************************************************************************)
(* The call is over; Start's loop goes on with its next network.           *)
(***************************************************************************)
Finish(c) ==
  /\ pc' = [pc EXCEPT ![c] = IF task[c] = "boot" THEN "next" ELSE "idle"]
  /\ arg' = [arg EXCEPT ![c] = None]
  /\ new' = [new EXCEPT ![c] = NoChoice]
  /\ old' = [old EXCEPT ![c] = None]
  /\ snap' = [snap EXCEPT ![c] = Nothing]
  /\ task' = [task EXCEPT ![c] = IF @ = "boot" THEN @ ELSE "none"]

\* Call c takes up network a beside the calls in progress.
Cross(c, a) ==
  crossed' = crossed \cup {{a, arg[d]} : d \in {e \in Active \ {c} : arg[e] # None}}
                     \cup (IF loaded THEN {} ELSE {{a}})

Request(c, a, t) ==
  /\ pc[c] = "idle"
  /\ requests < MaxRequests
  /\ requests' = requests + 1
  /\ arg' = [arg EXCEPT ![c] = a]
  /\ task' = [task EXCEPT ![c] = t]
  /\ Cross(c, a)

-------------------------------------------------------------------------------
(* Choosing a port and a local range *)

Entries == {nets[a] : a \in Alias} \ {None}

PortTaken(p) == p \in BusyPorts \/ \E e \in engines : e.port = p

(***************************************************************************)
(* freePortLocked: the first port no entry has and the system lets us      *)
(* bind, or 0.                                                             *)
(***************************************************************************)
\* Slip: only the entries are consulted, not the system.
PortsUnprobed == {p \in 1 .. Ports : \A e \in Entries : e.port # p}

FreePorts == {p \in 1 .. Ports : ~PortTaken(p) /\ \A e \in Entries : e.port # p}

freePort(p) ==
  \/ p \in FreePorts /\ \A q \in FreePorts : p <= q
  \/ FreePorts = {} /\ p = 0

\* Slip: the entries are not consulted.
SlicesUnchecked == 1 .. Slices

(***************************************************************************)
(* freePrefixLocked: the first slice of the pool no entry has.             *)
(***************************************************************************)
FreeSlices == {s \in 1 .. Slices : \A e \in Entries : e.slice # s}

Choose(c) ==
  \/ \E s \in FreeSlices, p \in 0 .. Ports :
       /\ \A t \in FreeSlices : s <= t
       /\ freePort(p)
       /\ new' = [new EXCEPT ![c] = [id |-> 0, port |-> p, slice |-> s]]
       /\ Goto(c, "start")
  \/ FreeSlices = {} /\ Goto(c, "remember") /\ UNCHANGED new

-------------------------------------------------------------------------------
(* Connect *)

(***************************************************************************)
(* The first critical section: an entry for the alias is taken out, to be  *)
(* stopped before a choice is made; otherwise the choice is made at once.  *)
(***************************************************************************)
\* Slip: the entry stays while its engine is stopped.
EnterKeepingEntry(c, a) ==
  \/ /\ nets[a] # None
     /\ old' = [old EXCEPT ![c] = nets[a]]
     /\ Goto(c, "replace")
     /\ UNCHANGED <<nets, new>>
  \/ /\ nets[a] = None
     /\ Choose(c)
     /\ UNCHANGED <<nets, old>>

EnterConnect(c, a) ==
  \/ /\ nets[a] # None
     /\ nets' = [nets EXCEPT ![a] = None]
     /\ old' = [old EXCEPT ![c] = nets[a]]
     /\ Goto(c, "replace")
     /\ UNCHANGED new
  \/ /\ nets[a] = None
     /\ Choose(c)
     /\ UNCHANGED <<nets, old>>

ConnectBegin(c, a) ==
  /\ Request(c, a, "connect")
  /\ EnterConnect(c, a)
  /\ UNCHANGED <<saved, file, engines, loaded, snap, queue, ids, failures, badWrites, kills,
                 runs, kept>>

ReplaceStop(c) ==
  /\ pc[c] = "replace"
  /\ engines' = {e \in engines : e.id # old[c].id}
  /\ old' = [old EXCEPT ![c] = None]
  /\ Goto(c, "choose")
  /\ UNCHANGED <<nets, saved, file, loaded, arg, task, new, snap, queue, ids, bounds, history>>

ConnectChoose(c) ==
  /\ pc[c] = "choose"
  /\ Choose(c)
  /\ UNCHANGED <<nets, saved, file, engines, loaded, arg, task, old, snap, queue, ids, bounds, history>>

(***************************************************************************)
(* engine.Start: port 0 becomes the default port, which is also the first  *)
(* one the manager tries (engine.go:128, manager.go:36).  The start fails  *)
(* when the port cannot be bound, and may fail for other reasons.          *)
(***************************************************************************)
EnginePort(p) == IF p = 0 THEN 1 ELSE p

EngineStart(c) ==
  /\ pc[c] = "start"
  /\ ~PortTaken(EnginePort(new[c].port))
  /\ ids' = ids + 1
  /\ engines' = engines \cup {[id |-> ids + 1, alias |-> arg[c],
                               port |-> EnginePort(new[c].port), slice |-> new[c].slice]}
  /\ new' = [new EXCEPT ![c].id = ids + 1]
  /\ Goto(c, "record")
  /\ UNCHANGED <<nets, saved, file, loaded, arg, task, old, snap, queue, bounds, history>>

EnginePortInUse(c) ==
  /\ pc[c] = "start"
  /\ PortTaken(EnginePort(new[c].port))
  /\ Goto(c, "remember")
  /\ UNCHANGED <<nets, saved, file, engines, loaded, arg, task, new, old, snap, queue, ids, bounds, history>>

EngineFails(c) ==
  /\ pc[c] = "start"
  /\ MayFail
  /\ failures' = failures + 1
  /\ Goto(c, "remember")
  /\ UNCHANGED <<nets, saved, file, engines, loaded, arg, task, new, old, snap, queue, ids,
                 requests, badWrites, kills, runs, history>>

ConnectRecord(c) ==
  /\ pc[c] = "record"
  /\ nets' = [nets EXCEPT ![arg[c]] = new[c]]
  /\ Goto(c, "remember")
  /\ UNCHANGED <<saved, file, engines, loaded, arg, task, new, old, snap, queue, ids, bounds, history>>

(***************************************************************************)
(* remember, up to the unlock; then the list is written.                   *)
(***************************************************************************)
\* Slip: a network that did not come up is not remembered.
RememberOnlySuccess(c) ==
  /\ pc[c] = "remember"
  /\ saved' = IF new[c].id = 0 THEN saved ELSE [saved EXCEPT ![arg[c]] = "auto"]
  /\ snap' = [snap EXCEPT ![c] = saved']
  /\ Goto(c, "save")
  /\ UNCHANGED <<nets, file, engines, loaded, arg, task, new, old, queue, ids, bounds, history>>

Remember(c) ==
  /\ pc[c] = "remember"
  /\ saved' = [saved EXCEPT ![arg[c]] = "auto"]
  /\ snap' = [snap EXCEPT ![c] = saved']
  /\ Goto(c, "save")
  /\ UNCHANGED <<nets, file, engines, loaded, arg, task, new, old, queue, ids, bounds, history>>

-------------------------------------------------------------------------------
(* Disconnect and Forget *)

Disconnect(c, a, t) ==
  /\ Request(c, a, t)
  /\ nets' = [nets EXCEPT ![a] = None]
  /\ old' = [old EXCEPT ![c] = nets[a]]
  /\ Goto(c, IF nets[a] # None THEN "take down" ELSE "mark")
  /\ UNCHANGED <<saved, file, engines, loaded, new, snap, queue, ids, failures, badWrites, kills,
                 runs, kept>>

\* Slip: the engine is not stopped.
TakeDownNothing(c) ==
  /\ pc[c] = "take down"
  /\ old' = [old EXCEPT ![c] = None]
  /\ Goto(c, "mark")
  /\ UNCHANGED <<nets, saved, file, engines, loaded, arg, task, new, snap, queue, ids, bounds, history>>

TakeDown(c) ==
  /\ pc[c] = "take down"
  /\ engines' = {e \in engines : e.id # old[c].id}
  /\ old' = [old EXCEPT ![c] = None]
  /\ Goto(c, "mark")
  /\ UNCHANGED <<nets, saved, file, loaded, arg, task, new, snap, queue, ids, bounds, history>>

Mark(c) ==
  /\ pc[c] = "mark"
  /\ saved' = [saved EXCEPT ![arg[c]] = IF @ = "absent" THEN @ ELSE "manual"]
  /\ snap' = [snap EXCEPT ![c] = saved']
  /\ Goto(c, "save")
  /\ UNCHANGED <<nets, file, engines, loaded, arg, task, new, old, queue, ids, bounds, history>>

Drop(c) ==
  /\ pc[c] = "drop"
  /\ saved' = [saved EXCEPT ![arg[c]] = "absent"]
  /\ snap' = [snap EXCEPT ![c] = saved']
  /\ task' = [task EXCEPT ![c] = "dropped"]
  /\ Goto(c, "save")
  /\ UNCHANGED <<nets, file, engines, loaded, arg, new, old, queue, ids, bounds, history>>

-------------------------------------------------------------------------------
(* SaveNetworks: os.WriteFile empties the file before it fills it.  Forget *)
(* saves twice: Disconnect's list, and its own.                            *)

SaveBegin(c) ==
  /\ pc[c] = "save"
  /\ file' = Torn
  /\ Goto(c, "fill")
  /\ UNCHANGED <<nets, saved, engines, loaded, arg, task, new, old, snap, queue, ids, bounds, history>>

AfterSave(c) ==
  /\ \/ task[c] = "forget" /\ Goto(c, "drop") /\ UNCHANGED <<arg, task, new, old, snap>>
     \/ task[c] # "forget" /\ Finish(c)
  /\ kept' = CASE task[c] \in {"connect", "boot"} -> kept \cup {arg[c]}
               [] task[c] = "dropped" -> kept \ {arg[c]}
               [] OTHER -> kept

SaveEnd(c) ==
  /\ pc[c] = "fill"
  /\ file' = snap[c]
  /\ AfterSave(c)
  /\ UNCHANGED <<nets, saved, engines, loaded, queue, ids, bounds, crossed>>

\* A write that fails is logged, or reported to the caller; the call is over.
SaveFails(c) ==
  /\ pc[c] \in {"save", "fill"}
  /\ MayFail
  /\ badWrites' = badWrites + 1
  /\ AfterSave(c)
  /\ UNCHANGED <<nets, saved, file, engines, loaded, queue, ids, requests, failures, kills, runs,
                 crossed>>

-------------------------------------------------------------------------------
(* The service starts, stops and is killed *)

(***************************************************************************)
(* Start: the list is read, none when it does not parse, and then every    *)
(* network that was left connected is connected, one after the other.      *)
(***************************************************************************)
StartLoad(c) ==
  /\ ~loaded /\ pc[c] = "idle"
  /\ loaded' = TRUE
  /\ saved' = IF file = Torn THEN Nothing ELSE file
  /\ queue' = {a \in Alias : saved'[a] = "auto"}
  /\ task' = [task EXCEPT ![c] = "boot"]
  /\ Goto(c, "next")
  /\ UNCHANGED <<nets, file, engines, arg, new, old, snap, ids, bounds, history>>

StartNext(c) ==
  /\ pc[c] = "next"
  /\ \/ \E a \in queue :
          /\ queue' = queue \ {a}
          /\ arg' = [arg EXCEPT ![c] = a]
          /\ EnterConnect(c, a)
          /\ Cross(c, a)
          /\ UNCHANGED task
     \/ /\ queue = {}
        /\ Goto(c, "idle")
        /\ task' = [task EXCEPT ![c] = "none"]
        /\ UNCHANGED <<queue, arg, new, old, nets, crossed>>
  /\ UNCHANGED <<saved, file, engines, loaded, snap, ids, bounds, kept>>

(***************************************************************************)
(* Stop, or the end of the process: every engine is gone, every call cut   *)
(* off, and the service starts anew with what is in the file.              *)
(***************************************************************************)
Exit ==
  /\ runs < MaxRuns
  /\ runs' = runs + 1
  /\ nets' = [a \in Alias |-> None]
  /\ saved' = Nothing
  /\ engines' = {}
  /\ loaded' = FALSE
  /\ queue' = {}
  /\ pc' = [c \in Caller |-> "idle"]
  /\ arg' = [c \in Caller |-> None]
  /\ task' = [c \in Caller |-> "none"]
  /\ new' = [c \in Caller |-> NoChoice]
  /\ old' = [c \in Caller |-> None]
  /\ snap' = [c \in Caller |-> Nothing]
  /\ UNCHANGED <<file, ids, requests, failures, badWrites, history>>

StopService == Quiet /\ Exit /\ UNCHANGED kills

Killed == ~Quiet /\ MayFail /\ kills' = kills + 1 /\ Exit

Connecting(c) ==
  \/ \E a \in Alias : ConnectBegin(c, a)
  \/ ReplaceStop(c) \/ ConnectChoose(c)
  \/ EngineStart(c) \/ EnginePortInUse(c) \/ EngineFails(c)
  \/ ConnectRecord(c) \/ Remember(c)

Next ==
  \/ StopService \/ Killed
  \/ \E c \in Caller :
       \/ Connecting(c)
       \/ \E a \in Alias, t \in {"disconnect", "forget"} : Disconnect(c, a, t)
       \/ TakeDown(c) \/ Mark(c) \/ Drop(c)
       \/ SaveBegin(c) \/ SaveEnd(c) \/ SaveFails(c)
       \/ StartLoad(c) \/ StartNext(c)

Spec == Init /\ [][Next]_vars

-------------------------------------------------------------------------------
(* Properties *)

(***************************************************************************)
(* "Package vip gives each joined network an address space that is unique  *)
(* on this device" (vip/table.go:1): two engines have the same local range *)
(* only if calls for their networks crossed, since Connect records its     *)
(* choice after the engine has started.                                    *)
(***************************************************************************)
LocalRangesDistinct ==
  \A e, f \in engines : e # f /\ e.slice = f.slice =>
    \E p \in crossed : p \subseteq {e.alias, f.alias}

\* The same of any calls: the range is unique whatever calls cross (vip/table.go:1-2).
LocalRangesUnique == \A e, f \in engines : e.slice = f.slice => e = f

(***************************************************************************)
(* An entry of the manager is a running engine of that network, on the     *)
(* port and range of the entry, whatever calls overlap: nothing is shown   *)
(* as connected that is down.  The other way round, "Reconnecting an alias *)
(* that is already up replaces it" (manager.go:156) and "Disconnect takes  *)
(* a network down but keeps it in the list" (manager.go:213): when no call *)
(* is in progress, a network whose own calls never crossed runs once,      *)
(* under the engine its entry names, and only if it is marked for          *)
(* reconnection.                                                           *)
(***************************************************************************)
EntriesMatchEngines ==
  /\ \A a \in Alias : nets[a] # None =>
       \E e \in engines : /\ e.id = nets[a].id /\ e.alias = a /\ e.slice = nets[a].slice
                          /\ e.port = EnginePort(nets[a].port)
  /\ Quiet => \A e \in engines :
       \/ {e.alias} \in crossed
       \/ nets[e.alias] # None /\ nets[e.alias].id = e.id /\ saved[e.alias] = "auto"

(***************************************************************************)
(* "Remember it anyway: a server that is down should not lose the network" *)
(* (manager.go:200): when no call is in progress, a network that a call    *)
(* connected, with or without success, is in the list in memory and in the *)
(* file until it is forgotten, unless calls crossed, a write failed or the *)
(* service was killed.                                                     *)
(***************************************************************************)
NetworksKept ==
  Quiet /\ crossed = {} /\ badWrites = 0 /\ kills = 0 =>
    \A a \in kept : saved[a] # "absent" /\ file[a] = saved[a]

(***************************************************************************)
(* "freePortLocked picks a UDP port no other network on this device is     *)
(* using" (manager.go:381): while a port is free, no engine is started on  *)
(* one that is taken, unless by a network with a call that crossed.        *)
(***************************************************************************)
PortIsFree ==
  \A c \in Caller : pc[c] = "start" /\ new[c].port # 0 =>
    /\ new[c].port \notin BusyPorts
    /\ \A e \in engines : e.port = new[c].port => {arg[c], e.alias} \in crossed
===============================================================================
