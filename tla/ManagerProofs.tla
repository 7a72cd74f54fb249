----------------------------- MODULE ManagerProofs ----------------------------
(***************************************************************************)
(* The network manager is correct for any networks, any number of calls    *)
(* at a time, and any number of ports and local ranges.                    *)
(*                                                                         *)
(* Its calls leave the mutex between their steps, so the properties rest   *)
(* on who is answerable for an engine at every moment: the entry, the call *)
(* that has started it, or the call that took its entry out, and never two *)
(* of them (OwnersDiffer); and on what "crossed" means while the calls are *)
(* still under way: two calls that are (PairsCrossed), and a network whose *)
(* entry came back behind the back of a call (EntriesClear).               *)
(***************************************************************************)
EXTENDS Manager, TLAPS

ConnectSteps == {"replace", "choose", "start", "record", "remember"}
LeaveSteps   == {"take down", "mark"}
SaveSteps    == {"save", "fill"}
Steps == {"idle", "next", "drop"} \cup ConnectSteps \cup LeaveSteps \cup SaveSteps
Tasks == {"none", "connect", "boot", "disconnect", "forget", "dropped"}

Choice == [id : Nat, port : 0 .. Ports, slice : 0 .. Slices]
Engine == [id : Nat \ {0}, alias : Alias, port : 1 .. Ports, slice : 1 .. Slices]
List   == [Alias -> {"absent", "auto", "manual"}]

ManagerTypeOK ==
  /\ nets \in [Alias -> Choice \cup {None}]
  /\ saved \in List /\ file \in List \cup {Torn}
  /\ engines \subseteq Engine
  /\ loaded \in BOOLEAN
  /\ pc \in [Caller -> Steps]
  /\ arg \in [Caller -> Alias \cup {None}]
  /\ task \in [Caller -> Tasks]
  /\ new \in [Caller -> Choice]
  /\ old \in [Caller -> Choice \cup {None}]
  /\ snap \in [Caller -> List]
  /\ queue \subseteq Alias
  /\ ids \in Nat /\ badWrites \in Nat /\ kills \in Nat
  /\ kept \subseteq Alias

\* Where a call can stand, on whose behalf.
CallFits(c) ==
  /\ arg[c] = None <=> pc[c] \in {"idle", "next"}
  /\ pc[c] = "idle" => task[c] = "none"
  /\ pc[c] = "next" => task[c] = "boot"
  /\ pc[c] \in ConnectSteps => task[c] \in {"connect", "boot"}
  /\ pc[c] \in LeaveSteps => task[c] \in {"disconnect", "forget"}
  /\ pc[c] = "drop" => task[c] = "forget"

CallsFit == \A c \in Caller : CallFits(c)

PairsCrossed ==
  \A c, d \in Caller : c # d /\ arg[c] # None /\ arg[d] # None => {arg[c], arg[d]} \in crossed

\* Before Start has read the list, every call has been noted.
EarlyCrossed ==
  loaded = FALSE => /\ \A c \in Caller : arg[c] # None => {arg[c]} \in crossed
                    /\ \A e \in engines : {e.alias} \in crossed

IdsFit ==
  /\ \A e \in engines : e.id <= ids
  /\ \A e, f \in engines : e.id = f.id => e = f

\* An engine of network a as h describes it is up.
Runs(a, h) ==
  \E e \in engines : /\ e.id = h.id /\ e.alias = a /\ e.slice = h.slice
                     /\ e.port = EnginePort(h.port)

Taking(c) == pc[c] \in {"replace", "take down"}

EntriesRun == \A a \in Alias : nets[a] # None => Runs(a, nets[a])
StartedRun == \A c \in Caller : pc[c] = "record" => Runs(arg[c], new[c])
TakenFit   == \A c \in Caller : Taking(c) => old[c] \in Choice /\ old[c].id <= ids

HoldersRun == EntriesRun /\ StartedRun /\ TakenFit

\* No engine is answered for twice: an entry, a call that has started it, one that took it.
TakenGone    == \A a \in Alias, c \in Caller : nets[a] # None /\ Taking(c) => nets[a].id # old[c].id
StartedFresh == \A a \in Alias, c \in Caller : nets[a] # None /\ pc[c] = "record" => nets[a].id # new[c].id
TakenOlder   == \A c, d \in Caller : Taking(c) /\ pc[d] = "record" => old[c].id # new[d].id
StartedApart == \A c, d \in Caller : c # d /\ pc[c] = "record" /\ pc[d] = "record" => new[c].id # new[d].id

OwnersDiffer == TakenGone /\ StartedFresh /\ TakenOlder /\ StartedApart

HasOwner(e) ==
  \/ {e.alias} \in crossed
  \/ nets[e.alias] # None /\ nets[e.alias].id = e.id
  \/ \E c \in Caller : pc[c] = "record" /\ arg[c] = e.alias /\ new[c].id = e.id
  \/ \E c \in Caller : Taking(c) /\ arg[c] = e.alias /\ old[c].id = e.id

EnginesOwned == \A e \in engines : HasOwner(e)

\* A call that has not recorded its engine, or is leaving, has no entry.
Clearing(c) ==
  \/ pc[c] \in {"replace", "choose", "start", "record", "drop"} \cup LeaveSteps
  \/ pc[c] \in SaveSteps /\ task[c] \notin {"connect", "boot"}

EntriesClear ==
  \A c \in Caller : Clearing(c) => nets[arg[c]] = None \/ {arg[c]} \in crossed

EntriesWanted ==
  \A a \in Alias : nets[a] # None =>
    {a} \in crossed \/ saved[a] = "auto" \/ \E c \in Caller : pc[c] = "remember" /\ arg[c] = a

Mixed(a, b) == \E p \in crossed : p \subseteq {a, b}

\* The range and the port call c has chosen.
SliceFits(c) ==
  /\ new[c].slice # 0
  /\ \A e \in engines : e.slice = new[c].slice => Mixed(arg[c], e.alias)

PortFits(c) ==
  new[c].port # 0 =>
    /\ new[c].port \notin BusyPorts
    /\ \A e \in engines : e.port = new[c].port => {arg[c], e.alias} \in crossed

ChoicesFit == \A c \in Caller : pc[c] = "start" => SliceFits(c) /\ PortFits(c)

(***************************************************************************)
(* While calls come one after the other and nothing fails: the list that   *)
(* is about to be written is the one in memory, which is what is on disk   *)
(* otherwise, and has every network that was connected.                    *)
(***************************************************************************)
Sequential == crossed = {} /\ badWrites = 0 /\ kills = 0

SavesFit ==
  /\ \A c \in Caller : pc[c] \in SaveSteps =>
       /\ loaded = TRUE /\ snap[c] = saved
       /\ task[c] \in {"connect", "boot"} => saved[arg[c]] = "auto"
  /\ loaded = TRUE /\ (\A c \in Caller : pc[c] \notin SaveSteps) => file = saved
  /\ loaded = FALSE => file \in List /\ \A a \in kept : file[a] # "absent"
  /\ loaded = TRUE => \A a \in kept :
       saved[a] # "absent" \/ \E c \in Caller : task[c] = "dropped" /\ arg[c] = a

ListsFit == Sequential => SavesFit

ManagerInv ==
  /\ ManagerTypeOK /\ CallsFit /\ PairsCrossed /\ EarlyCrossed
  /\ IdsFit /\ HoldersRun /\ OwnersDiffer
  /\ EnginesOwned /\ EntriesClear /\ EntriesWanted
  /\ ChoicesFit /\ LocalRangesDistinct /\ ListsFit

-------------------------------------------------------------------------------
(* Steps of one call *)

PcType   == pc \in [Caller -> Steps]
ArgType  == arg \in [Caller -> Alias \cup {None}]
TaskType == task \in [Caller -> Tasks]
NewType  == new \in [Caller -> Choice]
OldType  == old \in [Caller -> Choice \cup {None}]
SnapType == snap \in [Caller -> List]

CallTypes == PcType /\ ArgType /\ TaskType /\ NewType /\ OldType /\ SnapType

\* A step of call c leaves the other calls where they are.
Others(c) ==
  \A d \in Caller : d # c => /\ pc'[d] = pc[d] /\ arg'[d] = arg[d] /\ task'[d] = task[d]
                             /\ new'[d] = new[d] /\ old'[d] = old[d] /\ snap'[d] = snap[d]

\* What is true of engines and entries, whatever is in the lists.
Core ==
  /\ PairsCrossed /\ EarlyCrossed /\ IdsFit /\ HoldersRun /\ OwnersDiffer
  /\ EnginesOwned /\ EntriesClear /\ ChoicesFit /\ LocalRangesDistinct

\* Call c is not answerable for an engine.
Free(c) == pc[c] \notin {"record", "replace", "take down"}

\* A call with a network is past its entry.
LEMMA ArgIs ==
  ASSUME ManagerInv, NEW c \in Caller, pc[c] \notin {"idle", "next"}
  PROVE  arg[c] \in Alias /\ arg[c] # None
  BY ManagerConstants DEF ManagerInv, ManagerTypeOK, CallsFit, CallFits

LEMMA CallTypesHold ==
  ASSUME ManagerInv
  PROVE  CallTypes
  BY DEF ManagerInv, ManagerTypeOK, CallTypes, PcType, ArgType, TaskType, NewType, OldType,
         SnapType

DataTypes ==
  /\ nets \in [Alias -> Choice \cup {None}]
  /\ saved \in List /\ file \in List \cup {Torn}
  /\ engines \subseteq Engine
  /\ loaded \in BOOLEAN
  /\ queue \subseteq Alias
  /\ ids \in Nat /\ badWrites \in Nat /\ kills \in Nat
  /\ kept \subseteq Alias

\* The parts of the invariant a step is shown to keep, each on its own.
LEMMA Assemble ==
  ASSUME DataTypes', CallTypes', CallsFit', EntriesWanted', ListsFit', Core'
  PROVE  ManagerInv'
  BY DEF ManagerInv, ManagerTypeOK, DataTypes, CallTypes, PcType, ArgType, TaskType, NewType,
         OldType, SnapType, Core

\* A step of call c changes what belongs to call c.
LEMMA StepOfCall ==
  ASSUME ManagerInv, NEW c \in Caller, NEW at \in Steps, Goto(c, at),
         \/ UNCHANGED arg
         \/ \E a \in Alias \cup {None} : arg' = [arg EXCEPT ![c] = a],
         \/ UNCHANGED task
         \/ \E t \in Tasks : task' = [task EXCEPT ![c] = t],
         \/ UNCHANGED new
         \/ \E n \in Choice : new' = [new EXCEPT ![c] = n],
         \/ UNCHANGED old
         \/ \E o \in Choice \cup {None} : old' = [old EXCEPT ![c] = o],
         \/ UNCHANGED snap
         \/ \E l \in List : snap' = [snap EXCEPT ![c] = l]
  PROVE  Others(c) /\ CallTypes' /\ pc'[c] = at
<1>1. CallTypes
  BY CallTypesHold
<1>2. PcType' /\ pc'[c] = at /\ \A d \in Caller : d # c => pc'[d] = pc[d]
  BY <1>1 DEF CallTypes, PcType, Goto
<1>3. ArgType' /\ \A d \in Caller : d # c => arg'[d] = arg[d]
  BY <1>1 DEF CallTypes, ArgType
<1>4. TaskType' /\ \A d \in Caller : d # c => task'[d] = task[d]
  BY <1>1 DEF CallTypes, TaskType
<1>5. NewType' /\ \A d \in Caller : d # c => new'[d] = new[d]
  BY <1>1 DEF CallTypes, NewType
<1>6. OldType' /\ \A d \in Caller : d # c => old'[d] = old[d]
  BY <1>1 DEF CallTypes, OldType
<1>7. SnapType' /\ \A d \in Caller : d # c => snap'[d] = snap[d]
  BY <1>1 DEF CallTypes, SnapType
<1>8. QED
  BY <1>2, <1>3, <1>4, <1>5, <1>6, <1>7 DEF CallTypes, Others

LEMMA CallsFitKept ==
  ASSUME ManagerInv, NEW c \in Caller, Others(c), CallFits(c)'
  PROVE  CallsFit'
<1>1. \A d \in Caller : d # c => (CallFits(d) => CallFits(d)')
  BY DEF Others, CallFits
<1>2. QED
  BY <1>1 DEF ManagerInv, CallsFit

(***************************************************************************)
(* While nothing has crossed, a call with a network is the only one, and   *)
(* Start has read the list.                                                *)
(***************************************************************************)
LEMMA Alone ==
  ASSUME ManagerInv, Sequential, NEW c \in Caller, arg[c] # None
  PROVE  /\ loaded = TRUE
         /\ \A d \in Caller : d # c => arg[d] = None /\ pc[d] \in {"idle", "next"}
         /\ \A d \in Caller : d # c => pc[d] \notin SaveSteps /\ task[d] # "dropped"
<1>1. loaded = TRUE
  BY DEF Sequential, ManagerInv, ManagerTypeOK, EarlyCrossed
<1>2. \A d \in Caller : d # c => arg[d] = None /\ pc[d] \in {"idle", "next"}
  BY DEF Sequential, ManagerInv, PairsCrossed, CallsFit, CallFits
<1>3. \A d \in Caller : d # c => pc[d] \notin SaveSteps /\ task[d] # "dropped"
  BY <1>2 DEF SaveSteps, ManagerInv, CallsFit, CallFits
<1>4. QED
  BY <1>1, <1>2, <1>3

\* The entries stay wanted when no list changes and no call leaves "remember".
LEMMA WantedKept ==
  ASSUME ManagerInv, NEW c \in Caller, Others(c), UNCHANGED saved, crossed \subseteq crossed',
         \A a \in Alias : nets'[a] # None => nets[a] # None,
         pc[c] # "remember"
  PROVE  EntriesWanted'
<1>1. SUFFICES ASSUME NEW a \in Alias, nets'[a] # None, {a} \notin crossed', saved'[a] # "auto"
               PROVE  \E d \in Caller : pc'[d] = "remember" /\ arg'[d] = a
  BY DEF EntriesWanted
<1>2. PICK d \in Caller : pc[d] = "remember" /\ arg[d] = a
  BY <1>1 DEF ManagerInv, EntriesWanted
<1>3. QED
  BY <1>2 DEF Others

\* The lists stay right when neither they nor a call that saves one changes.
LEMMA ListsKept ==
  ASSUME ManagerInv, NEW c \in Caller, Others(c), UNCHANGED <<saved, file, loaded, kept>>,
         Sequential' => Sequential, pc[c] \notin SaveSteps, pc'[c] \notin SaveSteps
  PROVE  ListsFit'
<1>1. SUFFICES ASSUME Sequential' PROVE SavesFit'
  BY DEF ListsFit
<1>2. SavesFit
  BY <1>1 DEF ManagerInv, ListsFit
<1>3. task[c] # "dropped"
  BY DEF ManagerInv, CallsFit, CallFits, ManagerTypeOK, Steps, SaveSteps, ConnectSteps, LeaveSteps
<1>4. \A d \in Caller : d # c => /\ pc'[d] = pc[d] /\ arg'[d] = arg[d] /\ task'[d] = task[d]
                                 /\ snap'[d] = snap[d]
  BY DEF Others
<1>5. \A d \in Caller : pc'[d] \in SaveSteps =>
        /\ loaded' = TRUE /\ snap'[d] = saved'
        /\ task'[d] \in {"connect", "boot"} => saved'[arg'[d]] = "auto"
  BY <1>2, <1>4 DEF SavesFit
<1>6. loaded' = TRUE /\ (\A d \in Caller : pc'[d] \notin SaveSteps) => file' = saved'
  BY <1>2, <1>4 DEF SavesFit
<1>7. loaded' = FALSE => file' \in List /\ \A a \in kept' : file'[a] # "absent"
  BY <1>2 DEF SavesFit
<1>8. loaded' = TRUE => \A a \in kept' :
        saved'[a] # "absent" \/ \E d \in Caller : task'[d] = "dropped" /\ arg'[d] = a
  BY <1>2, <1>3, <1>4 DEF SavesFit
<1>9. QED
  BY <1>5, <1>6, <1>7, <1>8 DEF SavesFit

(***************************************************************************)
(* What a step of call c may leave of PairsCrossed and EarlyCrossed.       *)
(***************************************************************************)
LEMMA CrossedKept ==
  ASSUME ManagerInv, NEW c \in Caller, Others(c), UNCHANGED crossed, engines' \subseteq engines,
         loaded' = loaded \/ loaded' = TRUE, arg'[c] = arg[c] \/ arg'[c] = None
  PROVE  PairsCrossed' /\ EarlyCrossed'
  BY DEF ManagerInv, Others, PairsCrossed, EarlyCrossed

(***************************************************************************)
(* A step that makes nobody answerable for an engine keeps them apart.     *)
(***************************************************************************)
LEMMA OwnersKept ==
  ASSUME ManagerInv,
         \A a \in Alias : nets'[a] # None => nets'[a] = nets[a],
         \A c \in Caller : Taking(c)' => Taking(c) /\ old'[c] = old[c],
         \A c \in Caller : pc'[c] = "record" => pc[c] = "record" /\ new'[c] = new[c]
  PROVE  OwnersDiffer'
<1>1. TakenGone /\ StartedFresh /\ TakenOlder /\ StartedApart
  BY DEF ManagerInv, OwnersDiffer
<1>2. TakenGone'
  BY <1>1 DEF TakenGone
<1>3. StartedFresh'
  BY <1>1 DEF StartedFresh
<1>4. TakenOlder'
  BY <1>1 DEF TakenOlder
<1>5. StartedApart'
  BY <1>1 DEF StartedApart
<1>6. QED
  BY <1>2, <1>3, <1>4, <1>5 DEF OwnersDiffer

(***************************************************************************)
(* A call that is not answerable for an engine moves on, or ends.          *)
(***************************************************************************)
LEMMA MoveSound ==
  ASSUME ManagerInv, NEW c \in Caller, Others(c), UNCHANGED <<nets, engines, ids>>,
         crossed \subseteq crossed', PairsCrossed', EarlyCrossed', Free(c), Free(c)',
         pc'[c] = "start" => (SliceFits(c) /\ PortFits(c))',
         Clearing(c)' => nets[arg'[c]] = None \/ {arg'[c]} \in crossed'
  PROVE  Core'
<1> USE DEF ManagerInv
<1>2. IdsFit' /\ LocalRangesDistinct'
  BY DEF IdsFit, LocalRangesDistinct
<1>a. \A d \in Caller : ~Free(d)' => /\ d # c /\ pc'[d] = pc[d] /\ arg'[d] = arg[d]
                                       /\ new'[d] = new[d] /\ old'[d] = old[d]
  BY DEF Others, Free
<1>b. \A d \in Caller : (Taking(d)' => Taking(d)) /\ ((pc[d] = "record")' => pc[d] = "record")
  BY <1>a DEF Taking, Free
<1>c. \A d \in Caller : ~Free(d) => /\ pc'[d] = pc[d] /\ arg'[d] = arg[d]
                                     /\ new'[d] = new[d] /\ old'[d] = old[d]
  BY DEF Others, Free
<1>3. HoldersRun'
  <2>1. EntriesRun'
    BY DEF HoldersRun, EntriesRun, Runs
  <2>2. StartedRun'
    BY <1>a DEF HoldersRun, StartedRun, Runs, Free
  <2>3. TakenFit'
    BY <1>a, <1>b DEF HoldersRun, TakenFit, Taking, Free
  <2>4. QED
    BY <2>1, <2>2, <2>3 DEF HoldersRun
<1>4. OwnersDiffer'
  <2>1. \A d \in Caller : Taking(d)' => Taking(d) /\ old'[d] = old[d]
    BY <1>a, <1>b DEF Taking, Free
  <2>2. \A d \in Caller : pc'[d] = "record" => pc[d] = "record" /\ new'[d] = new[d]
    BY <1>a DEF Free
  <2>3. QED
    BY <2>1, <2>2, OwnersKept
<1>5. EnginesOwned'
  <2>1. SUFFICES ASSUME NEW e \in engines PROVE HasOwner(e)'
    BY DEF EnginesOwned
  <2>2. HasOwner(e)
    BY DEF EnginesOwned
  <2>3. QED
    BY <1>c, <2>2 DEF HasOwner, Taking, Free
<1>6. EntriesClear'
  <2>1. \A d \in Caller : d # c /\ Clearing(d)' => Clearing(d) /\ arg'[d] = arg[d]
    BY DEF Others, Clearing
  <2>2. QED
    BY <2>1 DEF EntriesClear
<1>7. ChoicesFit'
  <2>1. SUFFICES ASSUME NEW d \in Caller, pc'[d] = "start", d # c
                 PROVE  (SliceFits(d) /\ PortFits(d))'
    BY DEF ChoicesFit
  <2>2. SliceFits(d) /\ PortFits(d) /\ new'[d] = new[d] /\ arg'[d] = arg[d]
    BY <2>1 DEF Others, ChoicesFit
  <2>3. \A a, b : Mixed(a, b) => Mixed(a, b)'
    BY DEF Mixed
  <2>4. SliceFits(d)'
    BY <2>2, <2>3 DEF SliceFits
  <2>5. PortFits(d)'
    BY <2>2 DEF PortFits
  <2>6. QED
    BY <2>4, <2>5
<1>8. QED
  BY <1>2, <1>3, <1>4, <1>5, <1>6, <1>7 DEF Core

(***************************************************************************)
(* ReplaceStop and TakeDown: the engine of the entry that was taken out    *)
(* stops, and no other one.                                                *)
(***************************************************************************)
LEMMA StopSound ==
  ASSUME ManagerInv, NEW c \in Caller, Others(c), UNCHANGED <<nets, ids, crossed>>,
         UNCHANGED loaded, Taking(c), pc'[c] \in {"choose", "mark"}, arg'[c] = arg[c],
         engines' = {e \in engines : e.id # old[c].id}
  PROVE  Core'
<1> USE DEF ManagerInv
<1>1. PairsCrossed' /\ EarlyCrossed'
  BY CrossedKept
<1>2. IdsFit' /\ LocalRangesDistinct'
  BY DEF IdsFit, LocalRangesDistinct
<1>3. \A d \in Caller : Taking(d)' => d # c /\ Taking(d) /\ arg'[d] = arg[d] /\ old'[d] = old[d]
  BY DEF Taking, Others
<1>4. \A d \in Caller : pc'[d] = "record" => /\ pc[d] = "record"
                                             /\ arg'[d] = arg[d] /\ new'[d] = new[d]
  BY DEF Others
<1>5. \A d \in Caller : pc[d] = "record" => /\ pc'[d] = "record"
                                            /\ arg'[d] = arg[d] /\ new'[d] = new[d]
  BY DEF Others, Taking
<1>6. \A d \in Caller : d # c /\ Taking(d) => Taking(d)' /\ arg'[d] = arg[d] /\ old'[d] = old[d]
  BY DEF Others, Taking
<1>7. EntriesRun'
  <2>1. SUFFICES ASSUME NEW a \in Alias, nets[a] # None PROVE Runs(a, nets[a])'
    BY DEF EntriesRun
  <2>2. nets[a].id # old[c].id /\ Runs(a, nets[a])
    BY <2>1 DEF OwnersDiffer, TakenGone, HoldersRun, EntriesRun
  <2>3. QED
    BY <2>2 DEF Runs
<1>8. StartedRun'
  <2>1. SUFFICES ASSUME NEW d \in Caller, pc'[d] = "record" PROVE Runs(arg[d], new[d])'
    BY DEF StartedRun
  <2>2. new[d].id # old[c].id /\ Runs(arg[d], new[d])
    BY <1>4, <2>1 DEF OwnersDiffer, TakenOlder, HoldersRun, StartedRun
  <2>3. arg'[d] = arg[d] /\ new'[d] = new[d]
    BY <1>4, <2>1
  <2>4. QED
    BY <2>2, <2>3 DEF Runs
<1>9. TakenFit'
  BY <1>3 DEF HoldersRun, TakenFit
<1>10. OwnersDiffer'
  BY <1>3, <1>4, OwnersKept
<1>11. EnginesOwned'
  <2>1. SUFFICES ASSUME NEW e \in engines, e.id # old[c].id PROVE HasOwner(e)'
    BY DEF EnginesOwned
  <2>2. HasOwner(e)
    BY DEF EnginesOwned
  <2>3. QED
    BY <1>5, <1>6, <2>1, <2>2 DEF HasOwner
<1>12. EntriesClear'
  <2>1. \A d \in Caller : Clearing(d)' => Clearing(d) /\ arg'[d] = arg[d]
    BY DEF Others, Clearing, Taking, LeaveSteps
  <2>2. QED
    BY <2>1 DEF EntriesClear
<1>13. ChoicesFit'
  <2>1. SUFFICES ASSUME NEW d \in Caller, pc'[d] = "start"
                 PROVE  (SliceFits(d) /\ PortFits(d))'
    BY DEF ChoicesFit
  <2>2. SliceFits(d) /\ PortFits(d) /\ new'[d] = new[d] /\ arg'[d] = arg[d]
    BY <2>1 DEF Others, ChoicesFit
  <2>3. QED
    BY <2>2 DEF SliceFits, PortFits, Mixed
<1>14. QED
  BY <1>1, <1>2, <1>7, <1>8, <1>9, <1>10, <1>11, <1>12, <1>13 DEF Core, HoldersRun

(***************************************************************************)
(* The entry of network a, if it has one, is one engine, and no entry of   *)
(* another network is.                                                     *)
(***************************************************************************)
LEMMA EntryFits ==
  ASSUME ManagerInv, NEW a \in Alias, nets[a] # None
  PROVE  /\ nets[a] \in Choice /\ nets[a].id <= ids
         /\ \A b \in Alias : b # a /\ nets[b] # None => nets[b].id # nets[a].id
         /\ \A e \in engines : e.id = nets[a].id => e.slice = nets[a].slice
<1>1. PICK e \in engines : e.id = nets[a].id /\ e.alias = a /\ e.slice = nets[a].slice
  BY DEF ManagerInv, HoldersRun, EntriesRun, Runs
<1>2. nets[a] \in Choice /\ nets[a].id <= ids
  BY <1>1 DEF ManagerInv, ManagerTypeOK, IdsFit
<1>3. ASSUME NEW b \in Alias, b # a, nets[b] # None, nets[b].id = nets[a].id
      PROVE  FALSE
  <2>1. PICK f \in engines : f.id = nets[b].id /\ f.alias = b
    BY <1>3 DEF ManagerInv, HoldersRun, EntriesRun, Runs
  <2>2. e = f
    BY <1>1, <1>3, <2>1 DEF ManagerInv, IdsFit
  <2>3. QED
    BY <1>1, <1>3, <2>1, <2>2
<1>4. \A f \in engines : f.id = nets[a].id => f.slice = nets[a].slice
  BY <1>1 DEF ManagerInv, IdsFit
<1>5. QED
  BY <1>2, <1>3, <1>4

(***************************************************************************)
(* A call takes up a network: the calls beside it are noted.               *)
(***************************************************************************)
LEMMA CrossSound ==
  ASSUME ManagerInv, NEW c \in Caller, NEW a \in Alias, Others(c), UNCHANGED <<engines, loaded>>,
         arg[c] = None, arg'[c] = a, Cross(c, a)
  PROVE  crossed \subseteq crossed' /\ PairsCrossed' /\ EarlyCrossed'
<1>1. crossed \subseteq crossed'
  BY DEF Cross
<1>2. \A d \in Caller : d # c /\ arg[d] # None => {a, arg[d]} \in crossed'
  BY DEF Cross, Active, ManagerInv, CallsFit, CallFits
<1>3. loaded = FALSE => {a} \in crossed'
  BY DEF Cross
<1>4. PairsCrossed'
  <2>1. SUFFICES ASSUME NEW d \in Caller, NEW e \in Caller, d # e,
                        arg'[d] # None, arg'[e] # None
                 PROVE  {arg'[d], arg'[e]} \in crossed'
    BY DEF PairsCrossed
  <2>2. CASE d # c /\ e # c
    BY <1>1, <2>1, <2>2 DEF Others, ManagerInv, PairsCrossed
  <2>3. CASE d = c
    BY <1>2, <2>1, <2>3 DEF Others
  <2>4. CASE e = c
    <3>1. {arg'[d], arg'[e]} = {a, arg[d]} /\ arg[d] # None /\ d # c
      BY <2>1, <2>4 DEF Others
    <3>2. QED
      BY <1>2, <3>1
  <2>5. QED
    BY <2>2, <2>3, <2>4
<1>5. EarlyCrossed'
  BY <1>1, <1>3 DEF Others, ManagerInv, EarlyCrossed
<1>6. QED
  BY <1>1, <1>4, <1>5

(***************************************************************************)
(* The range chosen is in use only by networks with a call under way, or   *)
(* with calls that crossed; the port is in use by none.                    *)
(***************************************************************************)
LEMMA ChoiceSound ==
  ASSUME ManagerInv, NEW c \in Caller, Others(c), UNCHANGED engines,
         crossed \subseteq crossed', PairsCrossed', Free(c), arg'[c] # None,
         NEW s \in FreeSlices, NEW p \in 0 .. Ports, freePort(p),
         new'[c] = [id |-> 0, port |-> p, slice |-> s]
  PROVE  (SliceFits(c) /\ PortFits(c))'
<1>1. new'[c].slice = s /\ new'[c].port = p /\ s # 0
  BY ManagerConstants DEF FreeSlices
<1>2. ASSUME NEW e \in engines, e.slice = s
      PROVE  Mixed(arg[c], e.alias)'
  <2>1. e.alias \in Alias
    BY DEF ManagerInv, ManagerTypeOK, Engine
  <2>2. CASE {e.alias} \in crossed
    BY <2>2 DEF Mixed
  <2>3. CASE nets[e.alias] # None /\ nets[e.alias].id = e.id
    <3>1. nets[e.alias].slice = s
      BY <1>2, <2>1, <2>3, EntryFits
    <3>2. QED
      BY <2>1, <2>3, <3>1 DEF FreeSlices, Entries
  <2>4. ASSUME NEW d \in Caller, ~Free(d), arg[d] = e.alias
        PROVE  Mixed(arg[c], e.alias)'
    <3>1. d # c /\ arg'[d] = e.alias /\ arg'[d] # None
      BY <2>1, <2>4, ManagerConstants DEF Others
    <3>2. {arg'[c], e.alias} \in crossed'
      BY <3>1 DEF PairsCrossed
    <3>3. QED
      BY <3>2 DEF Mixed
  <2>5. HasOwner(e)
    BY DEF ManagerInv, EnginesOwned
  <2>6. QED
    BY <2>2, <2>3, <2>4, <2>5 DEF HasOwner, Free, Taking
<1>3. p # 0 => p \notin BusyPorts /\ \A e \in engines : e.port # p
  BY DEF freePort, FreePorts, PortTaken
<1>4. SliceFits(c)'
  BY <1>1, <1>2 DEF SliceFits
<1>5. PortFits(c)'
  BY <1>1, <1>3 DEF PortFits
<1>6. QED
  BY <1>4, <1>5

(***************************************************************************)
(* Every engine, and whoever answers for one, has a number given out.      *)
(***************************************************************************)
LEMMA NumbersGiven ==
  ASSUME ManagerInv
  PROVE  /\ \A e \in engines : e.id \in Nat /\ e.id <= ids
         /\ \A a \in Alias : nets[a] # None => nets[a].id \in Nat /\ nets[a].id <= ids
         /\ \A d \in Caller : pc[d] = "record" => new[d].id \in Nat /\ new[d].id <= ids
         /\ \A d \in Caller : Taking(d) => old[d].id \in Nat /\ old[d].id <= ids
<1>1. \A e \in engines : e.id \in Nat /\ e.id <= ids
  BY DEF ManagerInv, ManagerTypeOK, Engine, IdsFit
<1>2. \A a \in Alias : nets[a] # None => nets[a].id \in Nat /\ nets[a].id <= ids
  BY <1>1 DEF ManagerInv, HoldersRun, EntriesRun, Runs
<1>3. \A d \in Caller : pc[d] = "record" => new[d].id \in Nat /\ new[d].id <= ids
  BY <1>1 DEF ManagerInv, HoldersRun, StartedRun, Runs
<1>4. \A d \in Caller : Taking(d) => old[d].id \in Nat /\ old[d].id <= ids
  BY DEF ManagerInv, HoldersRun, TakenFit, Choice
<1>5. QED
  BY <1>1, <1>2, <1>3, <1>4

(***************************************************************************)
(* EngineStart: the new engine has a number of its own, and a range that   *)
(* only networks it crossed have.                                          *)
(***************************************************************************)
LEMMA StartSound ==
  ASSUME ManagerInv, NEW c \in Caller, Others(c), UNCHANGED <<nets, loaded, crossed>>,
         pc[c] = "start", pc'[c] = "record", arg'[c] = arg[c],
         ids' = ids + 1,
         NEW e0, e0.id = ids + 1, e0.alias = arg[c], e0.slice = new[c].slice,
         e0.port = EnginePort(new[c].port),
         new'[c].id = ids + 1, new'[c].port = new[c].port, new'[c].slice = new[c].slice,
         engines' = engines \cup {e0}
  PROVE  Core'
<1> USE DEF ManagerInv
<1>1. ids \in Nat /\ ids + 1 \in Nat /\ \A n \in Nat : n <= ids => n <= ids + 1 /\ n # ids + 1
  BY DEF ManagerTypeOK
<1>2. arg[c] # None /\ arg[c] \in Alias
  BY ArgIs
<1>3. PairsCrossed'
  BY DEF Others, PairsCrossed
<1>4. EarlyCrossed'
  BY <1>2 DEF Others, EarlyCrossed
<1>5. IdsFit'
  <2>1. \A e \in engines : e.id <= ids + 1 /\ e.id # ids + 1
    BY <1>1, NumbersGiven
  <2>2. \A e \in engines' : e.id <= ids'
    BY <1>1, <2>1
  <2>3. \A e, f \in engines' : e.id = f.id => e = f
    BY <2>1 DEF IdsFit
  <2>4. QED
    BY <2>2, <2>3 DEF IdsFit
<1>6. \A d \in Caller : d # c => /\ pc'[d] = pc[d] /\ arg'[d] = arg[d] /\ new'[d] = new[d]
                                 /\ old'[d] = old[d] /\ (Taking(d)' <=> Taking(d))
  BY DEF Others, Taking
<1>7. ~Taking(c)' /\ ~Taking(c)
  BY DEF Taking
<1>8. HoldersRun'
  <2>1. \A a, h : Runs(a, h) => Runs(a, h)'
    BY DEF Runs
  <2>2. EntriesRun'
    BY <2>1 DEF HoldersRun, EntriesRun
  <2>3. Runs(arg[c], new[c])'
    BY DEF Runs
  <2>4. StartedRun'
    <3>1. SUFFICES ASSUME NEW d \in Caller, d # c, pc'[d] = "record" PROVE Runs(arg[d], new[d])'
      BY <2>3 DEF StartedRun
    <3>2. Runs(arg[d], new[d])
      BY <1>6, <3>1 DEF HoldersRun, StartedRun
    <3>3. arg'[d] = arg[d] /\ new'[d] = new[d]
      BY <1>6, <3>1
    <3>4. QED
      BY <3>2, <3>3 DEF Runs
  <2>5. TakenFit'
    <3>1. SUFFICES ASSUME NEW d \in Caller, Taking(d)'
                   PROVE  old'[d] \in Choice /\ old'[d].id <= ids'
      BY DEF TakenFit
    <3>2. d # c /\ Taking(d) /\ old'[d] = old[d]
      BY <1>6, <1>7, <3>1
    <3>3. old[d] \in Choice /\ old[d].id \in Nat /\ old[d].id <= ids
      BY <3>2, NumbersGiven DEF HoldersRun, TakenFit
    <3>4. QED
      BY <1>1, <3>2, <3>3
  <2>6. QED
    BY <2>2, <2>4, <2>5 DEF HoldersRun
<1>9. OwnersDiffer'
  <2>1. TakenGone'
    BY <1>6, <1>7 DEF OwnersDiffer, TakenGone
  <2>2. StartedFresh'
    BY <1>1, <1>6, NumbersGiven DEF OwnersDiffer, StartedFresh
  <2>3. TakenOlder'
    BY <1>1, <1>6, <1>7, NumbersGiven DEF OwnersDiffer, TakenOlder
  <2>4. StartedApart'
    <3>1. \A d \in Caller : d # c /\ pc'[d] = "record" => new'[d].id # ids + 1
      BY <1>1, <1>6, NumbersGiven
    <3>2. QED
      BY <1>6, <3>1 DEF OwnersDiffer, StartedApart
  <2>5. QED
    BY <2>1, <2>2, <2>3, <2>4 DEF OwnersDiffer
<1>10. EnginesOwned'
  <2>1. HasOwner(e0)'
    BY DEF HasOwner
  <2>2. ASSUME NEW e \in engines PROVE HasOwner(e)'
    <3>1. HasOwner(e)
      BY DEF EnginesOwned
    <3>2. QED
      BY <1>6, <1>7, <3>1 DEF HasOwner
  <2>3. QED
    BY <2>1, <2>2 DEF EnginesOwned
<1>11. EntriesClear'
  <2>1. \A d \in Caller : Clearing(d)' => Clearing(d) /\ arg'[d] = arg[d]
    BY DEF Others, Clearing
  <2>2. QED
    BY <2>1 DEF EntriesClear
<1>12. ChoicesFit'
  <2>1. SUFFICES ASSUME NEW d \in Caller, pc'[d] = "start", d # c
                 PROVE  (SliceFits(d) /\ PortFits(d))'
    BY DEF ChoicesFit
  <2>2. SliceFits(d) /\ PortFits(d) /\ new'[d] = new[d] /\ arg'[d] = arg[d] /\ pc[d] = "start"
    BY <2>1 DEF Others, ChoicesFit
  <2>3. {arg[d], arg[c]} \in crossed
    BY <1>2, <2>1, <2>2, ArgIs DEF PairsCrossed
  <2>4. Mixed(arg[d], arg[c])
    BY <2>3 DEF Mixed
  <2>5. SliceFits(d)'
    BY <2>2, <2>4 DEF SliceFits, Mixed
  <2>6. PortFits(d)'
    BY <2>2, <2>3 DEF PortFits
  <2>7. QED
    BY <2>5, <2>6
<1>13. LocalRangesDistinct'
  <2>1. \A e \in engines : e.slice = e0.slice => Mixed(e0.alias, e.alias)
    BY DEF ChoicesFit, SliceFits
  <2>2. \A e \in engines : e.slice = e0.slice => Mixed(e.alias, e0.alias)
    <3>1. \A a, b : {a, b} = {b, a}
      OBVIOUS
    <3>2. QED
      BY <2>1, <3>1 DEF Mixed
  <2>3. QED
    BY <2>1, <2>2 DEF LocalRangesDistinct, Mixed
<1>14. QED
  BY <1>3, <1>4, <1>5, <1>8, <1>9, <1>10, <1>11, <1>12, <1>13 DEF Core

(***************************************************************************)
(* ConnectRecord: the call hands its engine over to the entry.  An entry   *)
(* it overwrites was made by a call that crossed this one.                 *)
(***************************************************************************)
LEMMA RecordSound ==
  ASSUME ManagerInv, NEW c \in Caller, Others(c), UNCHANGED <<engines, loaded, ids, crossed>>,
         pc[c] = "record", pc'[c] = "remember", arg'[c] = arg[c],
         nets' = [nets EXCEPT ![arg[c]] = new[c]]
  PROVE  Core'
<1> USE DEF ManagerInv
<1>1. PairsCrossed' /\ EarlyCrossed'
  BY CrossedKept
<1>2. IdsFit' /\ LocalRangesDistinct'
  BY DEF IdsFit, LocalRangesDistinct
<1>3. arg[c] \in Alias /\ new[c] # None
  BY ArgIs, ManagerConstants DEF ManagerTypeOK, Choice
<1>4. nets'[arg[c]] = new[c] /\ \A a \in Alias : a # arg[c] => nets'[a] = nets[a]
  BY <1>3 DEF ManagerTypeOK
<1>5. \A d \in Caller : d # c => /\ pc'[d] = pc[d] /\ arg'[d] = arg[d] /\ new'[d] = new[d]
                                 /\ old'[d] = old[d] /\ (Taking(d)' <=> Taking(d))
  BY DEF Others, Taking
<1>6. ~Taking(c)' /\ ~Taking(c)
  BY DEF Taking
<1>7. HoldersRun'
  <2>1. \A a, h : Runs(a, h) => Runs(a, h)'
    BY DEF Runs
  <2>2. EntriesRun'
    BY <1>4, <2>1 DEF HoldersRun, EntriesRun, StartedRun
  <2>3. StartedRun'
    <3>1. SUFFICES ASSUME NEW d \in Caller, d # c, pc'[d] = "record" PROVE Runs(arg[d], new[d])'
      BY DEF StartedRun
    <3>2. Runs(arg[d], new[d])
      BY <1>5, <3>1 DEF HoldersRun, StartedRun
    <3>3. arg'[d] = arg[d] /\ new'[d] = new[d]
      BY <1>5, <3>1
    <3>4. QED
      BY <3>2, <3>3 DEF Runs
  <2>4. TakenFit'
    BY <1>5, <1>6 DEF HoldersRun, TakenFit
  <2>5. QED
    BY <2>2, <2>3, <2>4 DEF HoldersRun
<1>8. OwnersDiffer'
  <2>1. TakenGone'
    BY <1>4, <1>5, <1>6 DEF OwnersDiffer, TakenGone, TakenOlder
  <2>2. StartedFresh'
    BY <1>4, <1>5 DEF OwnersDiffer, StartedFresh, StartedApart
  <2>3. TakenOlder'
    BY <1>5, <1>6 DEF OwnersDiffer, TakenOlder
  <2>4. StartedApart'
    BY <1>5 DEF OwnersDiffer, StartedApart
  <2>5. QED
    BY <2>1, <2>2, <2>3, <2>4 DEF OwnersDiffer
<1>9. EnginesOwned'
  <2>1. SUFFICES ASSUME NEW e \in engines PROVE HasOwner(e)'
    BY DEF EnginesOwned
  <2>2. CASE e.alias = arg[c]
    <3>1. CASE {arg[c]} \in crossed
      BY <2>2, <3>1 DEF HasOwner
    <3>2. CASE {arg[c]} \notin crossed
      <4>1. nets[arg[c]] = None
        BY <3>2 DEF EntriesClear, Clearing
      <4>2. \A d \in Caller : d # c => arg[d] # arg[c]
        BY <1>3, <3>2, ManagerConstants DEF PairsCrossed
      <4>3. new[c].id = e.id
        BY <1>6, <2>2, <3>2, <4>1, <4>2 DEF EnginesOwned, HasOwner
      <4>4. QED
        BY <1>3, <1>4, <2>2, <4>3 DEF HasOwner
    <3>3. QED
      BY <3>1, <3>2
  <2>3. CASE e.alias # arg[c]
    <3>1. HasOwner(e) /\ e.alias \in Alias
      BY DEF EnginesOwned, ManagerTypeOK, Engine
    <3>2. QED
      BY <1>4, <1>5, <1>6, <2>3, <3>1 DEF HasOwner
  <2>4. QED
    BY <2>2, <2>3
<1>10. EntriesClear'
  <2>1. SUFFICES ASSUME NEW d \in Caller, Clearing(d)'
                 PROVE  nets'[arg'[d]] = None \/ {arg'[d]} \in crossed'
    BY DEF EntriesClear
  <2>2. d # c
    BY <2>1 DEF Clearing, LeaveSteps, SaveSteps
  <2>3. Clearing(d) /\ arg'[d] = arg[d]
    BY <2>1, <2>2 DEF Clearing, Others
  <2>4. arg[d] \in Alias
    BY <2>3, ArgIs DEF Clearing, LeaveSteps, SaveSteps
  <2>5. CASE arg[d] = arg[c]
    BY <1>3, <2>2, <2>3, <2>5, ManagerConstants DEF PairsCrossed
  <2>6. CASE arg[d] # arg[c]
    BY <1>4, <2>3, <2>4, <2>6 DEF EntriesClear
  <2>7. QED
    BY <2>5, <2>6
<1>11. ChoicesFit'
  <2>1. SUFFICES ASSUME NEW d \in Caller, pc'[d] = "start"
                 PROVE  (SliceFits(d) /\ PortFits(d))'
    BY DEF ChoicesFit
  <2>2. SliceFits(d) /\ PortFits(d) /\ new'[d] = new[d] /\ arg'[d] = arg[d]
    BY <2>1 DEF Others, ChoicesFit
  <2>3. QED
    BY <2>2 DEF SliceFits, PortFits, Mixed
<1>12. QED
  BY <1>1, <1>2, <1>7, <1>8, <1>9, <1>10, <1>11 DEF Core

(***************************************************************************)
(* A Connect or a Disconnect takes the entry of its network out, and now   *)
(* answers for that engine.                                                *)
(***************************************************************************)
LEMMA TakeOutSound ==
  ASSUME ManagerInv, NEW c \in Caller, NEW a \in Alias, Others(c), UNCHANGED <<engines, ids>>,
         crossed \subseteq crossed', PairsCrossed', EarlyCrossed', Free(c), Taking(c)',
         nets[a] # None, nets' = [nets EXCEPT ![a] = None], old'[c] = nets[a], arg'[c] = a
  PROVE  Core'
<1> USE DEF ManagerInv
<1>1. IdsFit' /\ LocalRangesDistinct'
  BY DEF IdsFit, LocalRangesDistinct
<1>2. nets'[a] = None /\ \A b \in Alias : b # a => nets'[b] = nets[b]
  BY DEF ManagerTypeOK
<1>3. \A d \in Caller : d # c => /\ pc'[d] = pc[d] /\ arg'[d] = arg[d] /\ new'[d] = new[d]
                                 /\ old'[d] = old[d] /\ (Taking(d)' <=> Taking(d))
  BY DEF Others, Taking
<1>4. pc[c] # "record" /\ pc'[c] # "record" /\ ~Taking(c) /\ pc'[c] # "start"
  BY DEF Free, Taking
<1>5. HoldersRun'
  <2>1. \A b, h : Runs(b, h) => Runs(b, h)'
    BY DEF Runs
  <2>2. EntriesRun'
    BY <1>2, <2>1 DEF HoldersRun, EntriesRun
  <2>3. StartedRun'
    <3>1. SUFFICES ASSUME NEW d \in Caller, d # c, pc'[d] = "record" PROVE Runs(arg[d], new[d])'
      BY <1>4 DEF StartedRun
    <3>2. Runs(arg[d], new[d])
      BY <1>3, <3>1 DEF HoldersRun, StartedRun
    <3>3. arg'[d] = arg[d] /\ new'[d] = new[d]
      BY <1>3, <3>1
    <3>4. QED
      BY <3>2, <3>3 DEF Runs
  <2>4. TakenFit'
    <3>1. nets[a] \in Choice /\ nets[a].id <= ids
      BY EntryFits
    <3>2. QED
      BY <1>3, <3>1 DEF HoldersRun, TakenFit
  <2>5. QED
    BY <2>2, <2>3, <2>4 DEF HoldersRun
<1>6. OwnersDiffer'
  <2>1. TakenGone'
    <3>1. \A b \in Alias : nets'[b] # None => b # a /\ nets'[b] = nets[b] /\ nets[b].id # nets[a].id
      BY <1>2, EntryFits
    <3>2. QED
      BY <1>3, <3>1 DEF OwnersDiffer, TakenGone
  <2>2. StartedFresh'
    BY <1>2, <1>3, <1>4 DEF OwnersDiffer, StartedFresh
  <2>3. TakenOlder'
    BY <1>3, <1>4 DEF OwnersDiffer, TakenOlder, StartedFresh
  <2>4. StartedApart'
    BY <1>3, <1>4 DEF OwnersDiffer, StartedApart
  <2>5. QED
    BY <2>1, <2>2, <2>3, <2>4 DEF OwnersDiffer
<1>7. EnginesOwned'
  <2>1. SUFFICES ASSUME NEW e \in engines PROVE HasOwner(e)'
    BY DEF EnginesOwned
  <2>2. HasOwner(e) /\ e.alias \in Alias
    BY DEF EnginesOwned, ManagerTypeOK, Engine
  <2>3. CASE e.alias = a /\ nets[a].id = e.id
    BY <2>3 DEF HasOwner
  <2>4. CASE ~(e.alias = a /\ nets[a].id = e.id)
    BY <1>2, <1>3, <1>4, <2>2, <2>4 DEF HasOwner
  <2>5. QED
    BY <2>3, <2>4
<1>8. EntriesClear'
  <2>1. SUFFICES ASSUME NEW d \in Caller, d # c, Clearing(d)'
                 PROVE  nets'[arg'[d]] = None \/ {arg'[d]} \in crossed'
    BY <1>2 DEF EntriesClear
  <2>2. Clearing(d) /\ arg'[d] = arg[d]
    BY <2>1 DEF Clearing, Others
  <2>3. arg[d] \in Alias
    BY <2>2, ArgIs DEF Clearing, LeaveSteps, SaveSteps
  <2>4. QED
    BY <1>2, <2>2, <2>3 DEF EntriesClear
<1>9. ChoicesFit'
  <2>1. SUFFICES ASSUME NEW d \in Caller, d # c, pc'[d] = "start"
                 PROVE  (SliceFits(d) /\ PortFits(d))'
    BY <1>4 DEF ChoicesFit
  <2>2. SliceFits(d) /\ PortFits(d) /\ new'[d] = new[d] /\ arg'[d] = arg[d]
    BY <2>1 DEF Others, ChoicesFit
  <2>3. QED
    BY <2>2 DEF SliceFits, PortFits, Mixed
<1>10. QED
  BY <1>1, <1>5, <1>6, <1>7, <1>8, <1>9 DEF Core

-------------------------------------------------------------------------------
(* The steps of Next *)

LEMMA StopStep ==
  ASSUME ManagerInv, NEW c \in Caller, ReplaceStop(c) \/ TakeDown(c)
  PROVE  ManagerInv'
<1> USE DEF bounds, history
<1>1. PICK at \in {"choose", "mark"} :
        /\ Goto(c, at) /\ pc[c] = (IF at = "choose" THEN "replace" ELSE "take down")
        /\ old' = [old EXCEPT ![c] = None]
        /\ engines' = {e \in engines : e.id # old[c].id}
        /\ UNCHANGED <<nets, saved, file, loaded, arg, task, new, snap, queue, ids, badWrites,
                       kills, kept, crossed>>
  BY DEF ReplaceStop, TakeDown
<1>2. at \in Steps
  BY DEF Steps, ConnectSteps, LeaveSteps
<1>3. Others(c) /\ CallTypes' /\ pc'[c] = at
  BY <1>1, <1>2, StepOfCall
<1>4. Core'
  <2>1. Taking(c) /\ pc'[c] \in {"choose", "mark"} /\ arg'[c] = arg[c]
    BY <1>1, <1>3 DEF Taking
  <2>2. QED
    BY <1>1, <1>3, <2>1, StopSound
<1>5. DataTypes'
  BY <1>1 DEF DataTypes, ManagerInv, ManagerTypeOK
<1>6. CallsFit'
  <2>1. CallFits(c)'
    BY <1>1, <1>3 DEF CallFits, CallsFit, ManagerInv, ConnectSteps, LeaveSteps
  <2>2. QED
    BY <1>3, <2>1, CallsFitKept
<1>7. EntriesWanted'
  BY <1>1, <1>3, WantedKept
<1>8. ListsFit'
  BY <1>1, <1>3, ListsKept DEF SaveSteps, Sequential
<1>9. QED
  BY <1>3, <1>4, <1>5, <1>6, <1>7, <1>8, Assemble

\* Choose goes on to start the engine, or to remember the network when no range is left.
LEMMA ChooseGoes ==
  ASSUME NEW c \in Caller, Choose(c)
  PROVE  \E at \in {"start", "remember"} :
           Goto(c, at) /\ (UNCHANGED new \/ \E n \in Choice : new' = [new EXCEPT ![c] = n])
<1>1. CASE FreeSlices = {} /\ Goto(c, "remember") /\ UNCHANGED new
  BY <1>1
<1>2. CASE \E s \in FreeSlices, p \in 0 .. Ports :
             /\ new' = [new EXCEPT ![c] = [id |-> 0, port |-> p, slice |-> s]]
             /\ Goto(c, "start")
  <2>1. PICK s \in FreeSlices, p \in 0 .. Ports :
             /\ new' = [new EXCEPT ![c] = [id |-> 0, port |-> p, slice |-> s]]
             /\ Goto(c, "start")
    BY <1>2
  <2>2. s \in 0 .. Slices
    BY ManagerConstants DEF FreeSlices
  <2>3. [id |-> 0, port |-> p, slice |-> s] \in Choice
    BY <2>2 DEF Choice
  <2>4. QED
    BY <2>1, <2>3
<1>3. QED
  BY <1>1, <1>2 DEF Choose

LEMMA ChooseSound ==
  ASSUME ManagerInv, NEW c \in Caller, Choose(c), Others(c), CallTypes', UNCHANGED engines,
         crossed \subseteq crossed', PairsCrossed', Free(c), arg'[c] # None
  PROVE  /\ pc'[c] \in {"start", "remember"}
         /\ pc'[c] = "start" => (SliceFits(c) /\ PortFits(c))'
<1>1. CASE FreeSlices = {} /\ Goto(c, "remember") /\ UNCHANGED new
  BY <1>1 DEF Goto, ManagerInv, ManagerTypeOK
<1>2. CASE \E s \in FreeSlices, p \in 0 .. Ports :
             /\ \A t \in FreeSlices : s <= t
             /\ freePort(p)
             /\ new' = [new EXCEPT ![c] = [id |-> 0, port |-> p, slice |-> s]]
             /\ Goto(c, "start")
  <2>1. PICK s \in FreeSlices, p \in 0 .. Ports :
             /\ freePort(p)
             /\ new' = [new EXCEPT ![c] = [id |-> 0, port |-> p, slice |-> s]]
             /\ Goto(c, "start")
    BY <1>2
  <2>2. new'[c] = [id |-> 0, port |-> p, slice |-> s]
    BY <2>1 DEF ManagerInv, ManagerTypeOK
  <2>3. pc'[c] = "start"
    BY <2>1 DEF Goto, ManagerInv, ManagerTypeOK
  <2>4. QED
    BY <2>1, <2>2, <2>3, ChoiceSound
<1>3. QED
  BY <1>1, <1>2 DEF Choose

LEMMA ChooseStep ==
  ASSUME ManagerInv, NEW c \in Caller, ConnectChoose(c)
  PROVE  ManagerInv'
<1> USE DEF bounds, history, ConnectChoose
<1>1. PICK at \in {"start", "remember"} :
        Goto(c, at) /\ (UNCHANGED new \/ \E n \in Choice : new' = [new EXCEPT ![c] = n])
  BY ChooseGoes
<1>2. at \in Steps
  BY DEF Steps, ConnectSteps
<1>3. Others(c) /\ CallTypes' /\ pc'[c] = at
  BY <1>1, <1>2, StepOfCall
<1>4. PairsCrossed' /\ EarlyCrossed'
  BY <1>3, CrossedKept
<1>5. pc'[c] = "start" => (SliceFits(c) /\ PortFits(c))'
  <2>1. Free(c) /\ arg'[c] # None
    BY ArgIs DEF Free
  <2>2. QED
    BY <1>3, <1>4, <2>1, ChooseSound
<1>6. Core'
  <2>1. Free(c) /\ Free(c)'
    BY <1>3 DEF Free
  <2>2. Clearing(c)' => nets[arg'[c]] = None \/ {arg'[c]} \in crossed'
    BY DEF ManagerInv, EntriesClear, Clearing
  <2>3. QED
    BY <1>3, <1>4, <1>5, <2>1, <2>2, MoveSound
<1>7. DataTypes'
  BY DEF DataTypes, ManagerInv, ManagerTypeOK
<1>8. CallsFit'
  <2>1. CallFits(c)'
    BY <1>3 DEF CallFits, CallsFit, ManagerInv, ConnectSteps, LeaveSteps
  <2>2. QED
    BY <1>3, <2>1, CallsFitKept
<1>9. EntriesWanted'
  BY <1>3, WantedKept
<1>10. ListsFit'
  BY <1>3, ListsKept DEF SaveSteps, Sequential
<1>11. QED
  BY <1>3, <1>6, <1>7, <1>8, <1>9, <1>10, Assemble

\* The engine does not start: the call remembers the network all the same.
LEMMA StartFailsStep ==
  ASSUME ManagerInv, NEW c \in Caller, EnginePortInUse(c) \/ EngineFails(c)
  PROVE  ManagerInv'
<1> USE DEF bounds, history
<1>1. /\ Goto(c, "remember") /\ pc[c] = "start"
      /\ UNCHANGED <<nets, saved, file, engines, loaded, arg, task, new, old, snap, queue, ids,
                     badWrites, kills, kept, crossed>>
  BY DEF EnginePortInUse, EngineFails
<1>2. "remember" \in Steps
  BY DEF Steps, ConnectSteps
<1>3. Others(c) /\ CallTypes' /\ pc'[c] = "remember"
  BY <1>1, <1>2, StepOfCall
<1>4. PairsCrossed' /\ EarlyCrossed'
  BY <1>1, <1>3, CrossedKept
<1>5. Core'
  <2>1. Free(c) /\ Free(c)' /\ ~Clearing(c)'
    BY <1>1, <1>3 DEF Free, Clearing, LeaveSteps, SaveSteps
  <2>2. QED
    BY <1>1, <1>3, <1>4, <2>1, MoveSound
<1>6. DataTypes'
  BY <1>1 DEF DataTypes, ManagerInv, ManagerTypeOK
<1>7. CallsFit'
  <2>1. CallFits(c)'
    BY <1>1, <1>3 DEF CallFits, CallsFit, ManagerInv, ConnectSteps, LeaveSteps
  <2>2. QED
    BY <1>3, <2>1, CallsFitKept
<1>8. EntriesWanted'
  BY <1>1, <1>3, WantedKept
<1>9. ListsFit'
  BY <1>1, <1>3, ListsKept DEF SaveSteps, Sequential
<1>10. QED
  BY <1>3, <1>5, <1>6, <1>7, <1>8, <1>9, Assemble

LEMMA StartStep ==
  ASSUME ManagerInv, NEW c \in Caller, EngineStart(c)
  PROVE  ManagerInv'
<1> USE DEF bounds, history, EngineStart
<1> DEFINE port == EnginePort(new[c].port)
           e0 == [id |-> ids + 1, alias |-> arg[c], port |-> port, slice |-> new[c].slice]
           n0 == [new[c] EXCEPT !.id = ids + 1]
<1>1. new[c] \in Choice /\ ids \in Nat /\ ids + 1 \in Nat \ {0}
  BY DEF ManagerInv, ManagerTypeOK
<1>2. n0 \in Choice /\ n0.id = ids + 1 /\ n0.port = new[c].port /\ n0.slice = new[c].slice
  BY <1>1 DEF Choice
<1>3. new' = [new EXCEPT ![c] = n0]
  BY DEF ManagerInv, ManagerTypeOK
<1>4. "record" \in Steps
  BY DEF Steps, ConnectSteps
<1>5. Others(c) /\ CallTypes' /\ pc'[c] = "record"
  BY <1>2, <1>3, <1>4, StepOfCall
<1>6. new'[c] = n0
  BY <1>3 DEF ManagerInv, ManagerTypeOK
<1>7. Core'
  <2>1. engines' = engines \cup {e0}
    OBVIOUS
  <2>2. /\ e0.id = ids + 1 /\ e0.alias = arg[c] /\ e0.slice = new[c].slice
        /\ e0.port = EnginePort(new[c].port)
    OBVIOUS
  <2> HIDE DEF e0, n0
  <2>3. QED
    BY <1>2, <1>5, <1>6, <2>1, <2>2, StartSound
<1>8. e0 \in Engine
  <2>1. new[c].slice \in 1 .. Slices
    <3>1. new[c].slice # 0
      BY DEF ManagerInv, ChoicesFit, SliceFits
    <3>2. QED
      BY <1>1, <3>1, ManagerConstants DEF Choice
  <2>2. port \in 1 .. Ports
    BY <1>1, ManagerConstants DEF Choice, EnginePort
  <2>3. arg[c] \in Alias
    BY ArgIs
  <2>4. QED
    BY <1>1, <2>1, <2>2, <2>3 DEF Engine
<1>9. DataTypes'
  BY <1>1, <1>8 DEF DataTypes, ManagerInv, ManagerTypeOK
<1>10. CallsFit'
  <2>1. CallFits(c)'
    BY <1>5 DEF CallFits, CallsFit, ManagerInv, ConnectSteps, LeaveSteps
  <2>2. QED
    BY <1>5, <2>1, CallsFitKept
<1>11. EntriesWanted'
  BY <1>5, WantedKept
<1>12. ListsFit'
  BY <1>5, ListsKept DEF SaveSteps, Sequential
<1>13. QED
  BY <1>5, <1>7, <1>9, <1>10, <1>11, <1>12, Assemble

LEMMA RecordStep ==
  ASSUME ManagerInv, NEW c \in Caller, ConnectRecord(c)
  PROVE  ManagerInv'
<1> USE DEF bounds, history, ConnectRecord
<1>1. "remember" \in Steps
  BY DEF Steps, ConnectSteps
<1>2. Others(c) /\ CallTypes' /\ pc'[c] = "remember"
  BY <1>1, StepOfCall
<1>3. Core'
  BY <1>2, RecordSound
<1>4. DataTypes'
  BY DEF DataTypes, ManagerInv, ManagerTypeOK
<1>5. CallsFit'
  <2>1. CallFits(c)'
    BY <1>2 DEF CallFits, CallsFit, ManagerInv, ConnectSteps, LeaveSteps
  <2>2. QED
    BY <1>2, <2>1, CallsFitKept
<1>6. EntriesWanted'
  <2>1. SUFFICES ASSUME NEW a \in Alias, a # arg[c], nets'[a] # None, {a} \notin crossed,
                        saved[a] # "auto"
                 PROVE  \E d \in Caller : pc'[d] = "remember" /\ arg'[d] = a
    BY <1>2 DEF EntriesWanted
  <2>2. nets[a] # None
    BY <2>1 DEF ManagerInv, ManagerTypeOK
  <2>3. PICK d \in Caller : pc[d] = "remember" /\ arg[d] = a
    BY <2>1, <2>2 DEF ManagerInv, EntriesWanted
  <2>4. QED
    BY <1>2, <2>3 DEF Others
<1>7. ListsFit'
  BY <1>2, ListsKept DEF SaveSteps, Sequential
<1>8. QED
  BY <1>2, <1>3, <1>4, <1>5, <1>6, <1>7, Assemble

(***************************************************************************)
(* Remember, Mark and Drop: the list in memory changes for the network of  *)
(* the call, and the call has the list it is to write.                     *)
(***************************************************************************)
LEMMA ListStep ==
  ASSUME ManagerInv, NEW c \in Caller, Remember(c) \/ Mark(c) \/ Drop(c)
  PROVE  ManagerInv'
<1> USE DEF bounds, history
<1> DEFINE a == arg[c]
<1>0. task[c] \in Tasks /\ saved \in List
  BY DEF ManagerInv, ManagerTypeOK
<1>1. a \in Alias /\ a # None
  BY ArgIs DEF Remember, Mark, Drop
<1>2. PICK v \in {"absent", "auto", "manual"}, t \in Tasks :
        /\ pc[c] \in {"remember", "mark", "drop"} /\ Goto(c, "save")
        /\ saved' = [saved EXCEPT ![a] = v] /\ snap' = [snap EXCEPT ![c] = saved']
        /\ UNCHANGED task \/ task' = [task EXCEPT ![c] = "dropped"]
        /\ v = "auto" \/ pc[c] \in {"mark", "drop"}
        /\ v # "absent" \/ saved[a] = "absent" \/ t = "dropped"
        /\ t \in {"connect", "boot"} => v = "auto"
        /\ task'[c] = t
        /\ UNCHANGED <<nets, file, engines, loaded, arg, new, old, queue, ids, badWrites, kills,
                       kept, crossed>>
  <2>1. CASE Remember(c)
    BY <1>0, <2>1 DEF Remember
  <2>2. CASE Mark(c)
    <3>1. task[c] \in {"disconnect", "forget"}
      BY <2>2 DEF Mark, ManagerInv, CallsFit, CallFits, LeaveSteps
    <3>2. CASE saved[a] = "absent"
      BY <1>0, <1>1, <2>2, <3>1, <3>2 DEF Mark, List
    <3>3. CASE saved[a] # "absent"
      BY <1>0, <1>1, <2>2, <3>1, <3>3 DEF Mark, List
    <3>4. QED
      BY <3>2, <3>3
  <2>3. CASE Drop(c)
    <3>1. "dropped" \in Tasks /\ task'[c] = "dropped"
      BY <2>3 DEF Drop, Tasks, ManagerInv, ManagerTypeOK
    <3>2. QED
      BY <2>3, <3>1 DEF Drop
  <2>4. QED
    BY <2>1, <2>2, <2>3
<1>3. saved' \in List /\ saved'[a] = v /\ \A b \in Alias : b # a => saved'[b] = saved[b]
  BY <1>0, <1>1, <1>2 DEF List
<1>4. "save" \in Steps /\ "dropped" \in Tasks
  BY DEF Steps, SaveSteps, Tasks
<1>5. Others(c) /\ CallTypes' /\ pc'[c] = "save"
  BY <1>2, <1>3, <1>4, StepOfCall
<1>6. snap'[c] = saved'
  BY <1>2 DEF ManagerInv, ManagerTypeOK
<1>7. PairsCrossed' /\ EarlyCrossed'
  BY <1>2, <1>5, CrossedKept
<1>8. Clearing(c)' => Clearing(c)
  <2>1. pc[c] = "remember" => t \in {"connect", "boot"}
    BY <1>2 DEF ManagerInv, CallsFit, CallFits, ConnectSteps, Drop, Remember, Mark
  <2>2. QED
    BY <1>2, <1>5, <2>1 DEF Clearing, LeaveSteps, SaveSteps
<1>9. Core'
  <2>1. Free(c) /\ Free(c)'
    BY <1>2, <1>5 DEF Free
  <2>2. Clearing(c)' => nets[arg'[c]] = None \/ {arg'[c]} \in crossed'
    BY <1>2, <1>8 DEF ManagerInv, EntriesClear
  <2>3. QED
    BY <1>2, <1>5, <1>7, <2>1, <2>2, MoveSound
<1>10. DataTypes'
  BY <1>2, <1>3 DEF DataTypes, ManagerInv, ManagerTypeOK
<1>11. CallsFit'
  <2>1. CallFits(c)'
    BY <1>1, <1>2, <1>5 DEF CallFits, ConnectSteps, LeaveSteps
  <2>2. QED
    BY <1>5, <2>1, CallsFitKept
<1>12. EntriesWanted'
  <2>1. SUFFICES ASSUME NEW b \in Alias, nets[b] # None, {b} \notin crossed, saved'[b] # "auto"
                 PROVE  \E d \in Caller : pc'[d] = "remember" /\ arg'[d] = b
    BY <1>2 DEF EntriesWanted
  <2>2. b # a
    BY <1>2, <1>3, <2>1 DEF ManagerInv, EntriesClear, Clearing, LeaveSteps
  <2>3. PICK d \in Caller : pc[d] = "remember" /\ arg[d] = b
    BY <1>3, <2>1, <2>2 DEF ManagerInv, EntriesWanted
  <2>4. QED
    BY <1>5, <2>2, <2>3 DEF Others
<1>13. ListsFit'
  <2>1. SUFFICES ASSUME Sequential' PROVE SavesFit'
    BY DEF ListsFit
  <2>2. Sequential /\ SavesFit
    BY <1>2, <2>1 DEF Sequential, ManagerInv, ListsFit
  <2>3. /\ loaded = TRUE
        /\ \A d \in Caller : d # c => pc[d] \notin SaveSteps /\ task[d] # "dropped"
    BY <1>1, <2>2, Alone
  <2>4. task[c] # "dropped"
    BY <1>2 DEF ManagerInv, CallsFit, CallFits, ConnectSteps, LeaveSteps
  <2>5. \A d \in Caller : d # c => pc'[d] \notin SaveSteps
    BY <1>5, <2>3 DEF Others
  <2>6. \A d \in Caller : pc'[d] \in SaveSteps =>
          /\ loaded' = TRUE /\ snap'[d] = saved'
          /\ task'[d] \in {"connect", "boot"} => saved'[arg'[d]] = "auto"
    BY <1>2, <1>3, <1>6, <2>3, <2>5
  <2>7. c \in Caller /\ pc'[c] \in SaveSteps
    BY <1>5 DEF SaveSteps
  <2>8. ASSUME NEW b \in kept'
        PROVE  saved'[b] # "absent" \/ \E d \in Caller : task'[d] = "dropped" /\ arg'[d] = b
    <3>1. b \in Alias /\ saved[b] # "absent"
      BY <1>2, <2>2, <2>3, <2>4 DEF SavesFit, ManagerInv, ManagerTypeOK
    <3>2. CASE b = a
      BY <1>2, <1>3, <3>1, <3>2
    <3>3. CASE b # a
      BY <1>3, <3>1, <3>3
    <3>4. QED
      BY <3>2, <3>3
  <2>9. loaded' = TRUE
    BY <1>2, <2>3
  <2>10. QED
    BY <2>6, <2>7, <2>8, <2>9 DEF SavesFit
<1>14. QED
  BY <1>5, <1>9, <1>10, <1>11, <1>12, <1>13, Assemble

LEMMA SaveBeginStep ==
  ASSUME ManagerInv, NEW c \in Caller, SaveBegin(c)
  PROVE  ManagerInv'
<1> USE DEF bounds, history, SaveBegin
<1>1. "fill" \in Steps
  BY DEF Steps, SaveSteps
<1>2. Others(c) /\ CallTypes' /\ pc'[c] = "fill"
  BY <1>1, StepOfCall
<1>3. PairsCrossed' /\ EarlyCrossed'
  BY <1>2, CrossedKept
<1>4. Core'
  <2>1. Free(c) /\ Free(c)'
    BY <1>2 DEF Free
  <2>2. Clearing(c)' => Clearing(c)
    BY <1>2 DEF Clearing, SaveSteps, LeaveSteps
  <2>3. Clearing(c)' => nets[arg'[c]] = None \/ {arg'[c]} \in crossed'
    BY <2>2 DEF ManagerInv, EntriesClear
  <2>4. QED
    BY <1>2, <1>3, <2>1, <2>3, MoveSound
<1>5. DataTypes'
  BY DEF DataTypes, ManagerInv, ManagerTypeOK
<1>6. CallsFit'
  <2>1. CallFits(c)'
    BY <1>2 DEF CallFits, CallsFit, ManagerInv, ConnectSteps, LeaveSteps
  <2>2. QED
    BY <1>2, <2>1, CallsFitKept
<1>7. EntriesWanted'
  BY <1>2, WantedKept
<1>8. ListsFit'
  <2>1. SUFFICES ASSUME Sequential' PROVE SavesFit'
    BY DEF ListsFit
  <2>2. Sequential /\ SavesFit
    BY <2>1 DEF Sequential, ManagerInv, ListsFit
  <2>3. loaded = TRUE
    BY <2>2, ArgIs, Alone
  <2>4. \A d \in Caller : pc'[d] \in SaveSteps =>
          /\ loaded' = TRUE /\ snap'[d] = saved'
          /\ task'[d] \in {"connect", "boot"} => saved'[arg'[d]] = "auto"
    BY <1>2, <2>2 DEF Others, SavesFit, SaveSteps
  <2>5. c \in Caller /\ pc'[c] \in SaveSteps
    BY <1>2 DEF SaveSteps
  <2>6. \A b \in kept' :
          saved'[b] # "absent" \/ \E d \in Caller : task'[d] = "dropped" /\ arg'[d] = b
    BY <2>2, <2>3 DEF SavesFit
  <2>7. QED
    BY <2>3, <2>4, <2>5, <2>6 DEF SavesFit
<1>9. QED
  BY <1>2, <1>4, <1>5, <1>6, <1>7, <1>8, Assemble

LEMMA EmptyFits == Nothing \in List /\ NoChoice \in Choice
<1>1. Nothing \in List
  BY DEF Nothing, List
<1>2. 0 \in 0 .. Ports /\ 0 \in 0 .. Slices /\ 0 \in Nat
  BY ManagerConstants
<1>3. NoChoice \in Choice
  BY <1>2 DEF NoChoice, Choice
<1>4. QED
  BY <1>1, <1>3

\* The list is written, or could not be: Forget goes on, any other call is over.
LEMMA AfterSaveCall ==
  ASSUME ManagerInv, NEW c \in Caller, pc[c] \in SaveSteps, AfterSave(c)
  PROVE  /\ Others(c) /\ CallTypes' /\ CallFits(c)' /\ Free(c)'
         /\ pc'[c] \in {"drop", "next", "idle"}
         /\ arg'[c] = arg[c] \/ arg'[c] = None
         /\ Clearing(c)' => Clearing(c) /\ arg'[c] = arg[c]
         /\ kept' \subseteq Alias
<1>1. arg[c] \in Alias /\ arg[c] # None
  BY ArgIs DEF SaveSteps
<1>2. kept' \subseteq Alias
  BY <1>1 DEF AfterSave, ManagerInv, ManagerTypeOK
<1>3. CASE task[c] = "forget" /\ Goto(c, "drop") /\ UNCHANGED <<arg, task, new, old, snap>>
  <2>1. "drop" \in Steps
    BY DEF Steps
  <2>2. Others(c) /\ CallTypes' /\ pc'[c] = "drop"
    BY <1>3, <2>1, StepOfCall
  <2>3. Clearing(c)
    BY <1>3 DEF Clearing
  <2>4. CallFits(c)' /\ Free(c)'
    BY <1>1, <1>3, <2>2 DEF CallFits, Free, ConnectSteps, LeaveSteps
  <2>5. QED
    BY <1>2, <1>3, <2>2, <2>3, <2>4
<1>4. CASE task[c] # "forget" /\ Finish(c)
  <2> DEFINE at == IF task[c] = "boot" THEN "next" ELSE "idle"
             t  == IF task[c] = "boot" THEN "boot" ELSE "none"
  <2>1. at \in Steps /\ t \in Tasks
    BY DEF Steps, Tasks
  <2>2. Goto(c, at) /\ task' = [task EXCEPT ![c] = t]
    BY <1>4 DEF Finish, Goto, ManagerInv, ManagerTypeOK
  <2>3. /\ arg' = [arg EXCEPT ![c] = None] /\ old' = [old EXCEPT ![c] = None]
        /\ new' = [new EXCEPT ![c] = NoChoice] /\ snap' = [snap EXCEPT ![c] = Nothing]
    BY <1>4 DEF Finish
  <2> HIDE DEF at, t
  <2>4. Others(c) /\ CallTypes' /\ pc'[c] = at
    BY <2>1, <2>2, <2>3, EmptyFits, StepOfCall
  <2>5. arg'[c] = None /\ task'[c] = t
    BY <2>2, <2>3 DEF ManagerInv, ManagerTypeOK
  <2>6. (at = "next" /\ t = "boot") \/ (at = "idle" /\ t = "none")
    BY DEF at, t
  <2>7. CallFits(c)' /\ Free(c)' /\ ~Clearing(c)'
    BY <2>4, <2>5, <2>6 DEF CallFits, Free, Clearing, ConnectSteps, LeaveSteps, SaveSteps
  <2>8. QED
    BY <1>2, <2>4, <2>5, <2>6, <2>7
<1>5. QED
  BY <1>3, <1>4 DEF AfterSave

LEMMA SaveEndStep ==
  ASSUME ManagerInv, NEW c \in Caller, SaveEnd(c) \/ SaveFails(c)
  PROVE  ManagerInv'
<1> USE DEF bounds
<1>1. /\ pc[c] \in SaveSteps /\ AfterSave(c)
      /\ (file' = snap[c] /\ badWrites' = badWrites) \/ (file' = file /\ badWrites' = badWrites + 1)
      /\ UNCHANGED <<nets, saved, engines, loaded, queue, ids, kills, crossed>>
  BY DEF SaveEnd, SaveFails, SaveSteps
<1>2. /\ Others(c) /\ CallTypes' /\ CallFits(c)' /\ Free(c)'
      /\ pc'[c] \in {"drop", "next", "idle"}
      /\ arg'[c] = arg[c] \/ arg'[c] = None
      /\ Clearing(c)' => Clearing(c) /\ arg'[c] = arg[c]
      /\ kept' \subseteq Alias
  BY <1>1, AfterSaveCall
<1>3. PairsCrossed' /\ EarlyCrossed'
  BY <1>1, <1>2, CrossedKept
<1>4. Core'
  <2>1. Free(c)
    BY <1>1 DEF Free, SaveSteps
  <2>2. Clearing(c)' => nets[arg'[c]] = None \/ {arg'[c]} \in crossed'
    BY <1>1, <1>2 DEF ManagerInv, EntriesClear
  <2>3. QED
    BY <1>1, <1>2, <1>3, <2>1, <2>2, MoveSound
<1>5. DataTypes'
  <2>1. snap[c] \in List /\ badWrites + 1 \in Nat
    BY DEF ManagerInv, ManagerTypeOK
  <2>2. QED
    BY <1>1, <1>2, <2>1 DEF DataTypes, ManagerInv, ManagerTypeOK
<1>6. CallsFit'
  BY <1>2, CallsFitKept
<1>7. EntriesWanted'
  BY <1>1, <1>2, WantedKept DEF SaveSteps
<1>8. ListsFit'
  <2>1. SUFFICES ASSUME Sequential' PROVE SavesFit'
    BY DEF ListsFit
  <2>2. file' = snap[c] /\ badWrites' = badWrites
    <3>1. badWrites + 1 # 0
      BY DEF ManagerInv, ManagerTypeOK
    <3>2. QED
      BY <1>1, <2>1, <3>1 DEF Sequential
  <2>3. Sequential /\ SavesFit
    BY <1>1, <2>1, <2>2 DEF Sequential, ManagerInv, ListsFit
  <2>4. arg[c] \in Alias /\ arg[c] # None
    BY <1>1, ArgIs DEF SaveSteps
  <2>5. /\ loaded = TRUE
        /\ \A d \in Caller : d # c => pc[d] \notin SaveSteps /\ task[d] # "dropped"
    BY <2>3, <2>4, Alone
  <2>6. \A d \in Caller : pc'[d] \notin SaveSteps
    <3>1. pc'[c] \notin SaveSteps
      BY <1>2 DEF SaveSteps
    <3>2. QED
      BY <1>2, <2>5, <3>1 DEF Others
  <2>7. file' = saved'
    BY <1>1, <2>2, <2>3 DEF SavesFit
  <2>8. ASSUME NEW a \in kept' PROVE saved'[a] # "absent"
    <3>1. CASE a \in kept /\ ~(task[c] = "dropped" /\ arg[c] = a)
      BY <1>1, <2>3, <2>5, <3>1 DEF SavesFit
    <3>2. CASE a = arg[c] /\ task[c] \in {"connect", "boot"}
      BY <1>1, <2>3, <3>2 DEF SavesFit
    <3>3. QED
      BY <1>1, <2>8, <3>1, <3>2 DEF AfterSave
  <2>9. loaded' = TRUE
    BY <1>1, <2>5
  <2>10. QED
    BY <2>6, <2>7, <2>8, <2>9 DEF SavesFit
<1>9. QED
  BY <1>2, <1>4, <1>5, <1>6, <1>7, <1>8, Assemble

\* The first critical section of Disconnect, like EnterConnect.
EnterDisconnect(c, a) ==
  /\ nets' = [nets EXCEPT ![a] = None]
  /\ old' = [old EXCEPT ![c] = nets[a]]
  /\ Goto(c, IF nets[a] # None THEN "take down" ELSE "mark")
  /\ UNCHANGED new

(***************************************************************************)
(* A call takes up network a: a request, or the next network of Start.     *)
(***************************************************************************)
LEMMA EnterStep ==
  ASSUME ManagerInv, NEW c \in Caller, NEW a \in Alias, NEW t \in Tasks,
         pc[c] \in {"idle", "next"}, Cross(c, a), arg' = [arg EXCEPT ![c] = a],
         UNCHANGED task \/ task' = [task EXCEPT ![c] = t], task'[c] = t,
         \/ EnterConnect(c, a) /\ t \in {"connect", "boot"}
         \/ EnterDisconnect(c, a) /\ t \in {"disconnect", "forget"},
         UNCHANGED <<saved, file, engines, loaded, snap, ids, badWrites, kills, kept>>,
         queue' \subseteq queue
  PROVE  ManagerInv'
<1>1. arg[c] = None /\ Free(c) /\ arg'[c] = a /\ a # None
  BY ManagerConstants DEF ManagerInv, CallsFit, CallFits, Free, ManagerTypeOK
<1>2. CASE nets[a] # None
  <2>1. PICK at \in {"replace", "take down"} :
          /\ nets' = [nets EXCEPT ![a] = None] /\ old' = [old EXCEPT ![c] = nets[a]]
          /\ Goto(c, at) /\ UNCHANGED new
          /\ at = "replace" => t \in {"connect", "boot"}
          /\ at = "take down" => t \in {"disconnect", "forget"}
    BY <1>2 DEF EnterConnect, EnterDisconnect
  <2>2. at \in Steps /\ nets[a] \in Choice \cup {None}
    BY DEF Steps, ConnectSteps, LeaveSteps, ManagerInv, ManagerTypeOK
  <2>3. Others(c) /\ CallTypes' /\ pc'[c] = at
    BY <2>1, <2>2, StepOfCall
  <2>4. crossed \subseteq crossed' /\ PairsCrossed' /\ EarlyCrossed'
    BY <1>1, <2>3, CrossSound
  <2>5. Core'
    <3>1. Taking(c)' /\ old'[c] = nets[a]
      BY <2>1, <2>3 DEF Taking, ManagerInv, ManagerTypeOK
    <3>2. QED
      BY <1>1, <1>2, <2>1, <2>3, <2>4, <3>1, TakeOutSound
  <2>6. DataTypes'
    BY <2>1 DEF DataTypes, ManagerInv, ManagerTypeOK
  <2>7. CallsFit'
    <3>1. CallFits(c)'
      BY <1>1, <2>1, <2>3 DEF CallFits, ConnectSteps, LeaveSteps
    <3>2. QED
      BY <2>3, <3>1, CallsFitKept
  <2>8. EntriesWanted'
    <3>1. \A b \in Alias : nets'[b] # None => nets[b] # None
      BY <1>2, <2>1 DEF ManagerInv, ManagerTypeOK
    <3>2. QED
      BY <2>3, <2>4, <3>1, WantedKept
  <2>9. ListsFit'
    <3>1. Sequential' => Sequential
      BY <2>4 DEF Sequential
    <3>2. pc[c] \notin SaveSteps /\ pc'[c] \notin SaveSteps
      BY <2>3 DEF SaveSteps
    <3>3. QED
      BY <2>3, <3>1, <3>2, ListsKept
  <2>10. QED
    BY <2>3, <2>5, <2>6, <2>7, <2>8, <2>9, Assemble
<1>3. CASE nets[a] = None
  <2>1. PICK at \in {"start", "remember", "mark"} :
          /\ Goto(c, at)
          /\ UNCHANGED new \/ \E n \in Choice : new' = [new EXCEPT ![c] = n]
          /\ at # "mark" => t \in {"connect", "boot"} /\ Choose(c)
          /\ at = "mark" => t \in {"disconnect", "forget"}
    BY <1>3, ChooseGoes DEF EnterConnect, EnterDisconnect
  <2>2. UNCHANGED nets /\ (UNCHANGED old \/ old' = [old EXCEPT ![c] = None])
    BY <1>3 DEF EnterConnect, EnterDisconnect, ManagerInv, ManagerTypeOK
  <2>3. at \in Steps
    BY DEF Steps, ConnectSteps, LeaveSteps
  <2>4. Others(c) /\ CallTypes' /\ pc'[c] = at
    BY <2>1, <2>2, <2>3, StepOfCall
  <2>5. crossed \subseteq crossed' /\ PairsCrossed' /\ EarlyCrossed'
    BY <1>1, <2>4, CrossSound
  <2>6. Core'
    <3>1. pc'[c] = "start" => (SliceFits(c) /\ PortFits(c))'
      BY <1>1, <2>1, <2>4, <2>5, ChooseSound
    <3>2. Free(c)'
      BY <2>4 DEF Free
    <3>3. QED
      BY <1>1, <1>3, <2>2, <2>4, <2>5, <3>1, <3>2, MoveSound
  <2>7. DataTypes'
    BY <2>2 DEF DataTypes, ManagerInv, ManagerTypeOK
  <2>8. CallsFit'
    <3>1. CallFits(c)'
      BY <1>1, <2>1, <2>4 DEF CallFits, ConnectSteps, LeaveSteps
    <3>2. QED
      BY <2>4, <3>1, CallsFitKept
  <2>9. EntriesWanted'
    BY <2>2, <2>4, <2>5, WantedKept
  <2>10. ListsFit'
    <3>1. Sequential' => Sequential
      BY <2>5 DEF Sequential
    <3>2. pc[c] \notin SaveSteps /\ pc'[c] \notin SaveSteps
      BY <2>4 DEF SaveSteps
    <3>3. QED
      BY <2>4, <3>1, <3>2, ListsKept
  <2>11. QED
    BY <2>4, <2>6, <2>7, <2>8, <2>9, <2>10, Assemble
<1>4. QED
  BY <1>2, <1>3

LEMMA RequestStep ==
  ASSUME ManagerInv, NEW c \in Caller, NEW a \in Alias,
         ConnectBegin(c, a) \/ \E t \in {"disconnect", "forget"} : Disconnect(c, a, t)
  PROVE  ManagerInv'
<1>1. CASE ConnectBegin(c, a)
  <2>1. "connect" \in Tasks /\ task'[c] = "connect"
    BY <1>1 DEF Tasks, ConnectBegin, Request, ManagerInv, ManagerTypeOK
  <2>2. /\ pc[c] \in {"idle", "next"} /\ Cross(c, a) /\ arg' = [arg EXCEPT ![c] = a]
        /\ task' = [task EXCEPT ![c] = "connect"] /\ EnterConnect(c, a)
        /\ UNCHANGED <<saved, file, engines, loaded, snap, ids, badWrites, kills, kept, queue>>
    BY <1>1 DEF ConnectBegin, Request
  <2>3. QED
    BY <2>1, <2>2, EnterStep
<1>2. ASSUME NEW t \in {"disconnect", "forget"}, Disconnect(c, a, t) PROVE ManagerInv'
  <2>1. t \in Tasks /\ task'[c] = t
    BY <1>2 DEF Tasks, Disconnect, Request, ManagerInv, ManagerTypeOK
  <2>2. /\ pc[c] \in {"idle", "next"} /\ Cross(c, a) /\ arg' = [arg EXCEPT ![c] = a]
        /\ task' = [task EXCEPT ![c] = t] /\ EnterDisconnect(c, a)
        /\ UNCHANGED <<saved, file, engines, loaded, snap, ids, badWrites, kills, kept, queue>>
    BY <1>2 DEF Disconnect, Request, EnterDisconnect
  <2>3. QED
    BY <2>1, <2>2, EnterStep
<1>3. QED
  BY <1>1, <1>2

LEMMA StartNextStep ==
  ASSUME ManagerInv, NEW c \in Caller, StartNext(c)
  PROVE  ManagerInv'
<1> USE DEF bounds
<1>0. pc[c] = "next" /\ task[c] = "boot" /\ "boot" \in Tasks /\ queue \subseteq Alias
  BY DEF StartNext, ManagerInv, CallsFit, CallFits, ManagerTypeOK, Tasks
<1>1. ASSUME NEW a \in queue, queue' = queue \ {a}, arg' = [arg EXCEPT ![c] = a],
             EnterConnect(c, a), Cross(c, a), UNCHANGED task
      PROVE  ManagerInv'
  <2>1. a \in Alias /\ task'[c] = "boot" /\ queue' \subseteq queue
    BY <1>0, <1>1
  <2>2. UNCHANGED <<saved, file, engines, loaded, snap, ids, badWrites, kills, kept>>
    BY DEF StartNext
  <2>3. QED
    BY <1>0, <1>1, <2>1, <2>2, EnterStep
<1>2. ASSUME Goto(c, "idle"), task' = [task EXCEPT ![c] = "none"],
             UNCHANGED <<queue, arg, new, old, nets, crossed>>
      PROVE  ManagerInv'
  <2>1. UNCHANGED <<saved, file, engines, loaded, snap, ids, badWrites, kills, kept>>
    BY DEF StartNext
  <2>2. "idle" \in Steps /\ "none" \in Tasks
    BY DEF Steps, Tasks
  <2>3. Others(c) /\ CallTypes' /\ pc'[c] = "idle"
    BY <1>2, <2>1, <2>2, StepOfCall
  <2>4. task'[c] = "none"
    BY <1>2 DEF ManagerInv, ManagerTypeOK
  <2>5. PairsCrossed' /\ EarlyCrossed'
    BY <1>2, <2>1, <2>3, CrossedKept
  <2>6. Free(c) /\ Free(c)' /\ ~Clearing(c)'
    BY <1>0, <2>3 DEF Free, Clearing, LeaveSteps, SaveSteps
  <2>7. Core'
    BY <1>2, <2>1, <2>3, <2>5, <2>6, MoveSound
  <2>8. DataTypes'
    BY <1>2, <2>1 DEF DataTypes, ManagerInv, ManagerTypeOK
  <2>9. CallsFit'
    <3>1. CallFits(c)'
      BY <1>0, <1>2, <2>3, <2>4 DEF CallFits, CallsFit, ManagerInv, ConnectSteps, LeaveSteps
    <3>2. QED
      BY <2>3, <3>1, CallsFitKept
  <2>10. EntriesWanted'
    BY <1>0, <1>2, <2>1, <2>3, WantedKept
  <2>11. ListsFit'
    BY <1>0, <1>2, <2>1, <2>3, ListsKept DEF SaveSteps, Sequential
  <2>12. QED
    BY <2>3, <2>7, <2>8, <2>9, <2>10, <2>11, Assemble
<1>3. QED
  BY <1>1, <1>2 DEF StartNext

LEMMA StartLoadStep ==
  ASSUME ManagerInv, NEW c \in Caller, StartLoad(c)
  PROVE  ManagerInv'
<1> USE DEF bounds, history, StartLoad
<1>1. "next" \in Steps /\ "boot" \in Tasks
  BY DEF Steps, Tasks
<1>2. Others(c) /\ CallTypes' /\ pc'[c] = "next"
  BY <1>1, StepOfCall
<1>3. task'[c] = "boot" /\ arg'[c] = None /\ loaded = FALSE
  BY DEF ManagerInv, ManagerTypeOK, CallsFit, CallFits
<1>4. PairsCrossed' /\ EarlyCrossed'
  BY <1>2, CrossedKept
<1>5. Core'
  <2>1. Free(c) /\ Free(c)' /\ ~Clearing(c)'
    BY <1>2 DEF Free, Clearing, LeaveSteps, SaveSteps
  <2>2. QED
    BY <1>2, <1>4, <2>1, MoveSound
<1>6. DataTypes'
  <2>1. saved' \in List
    BY EmptyFits DEF ManagerInv, ManagerTypeOK
  <2>2. QED
    BY <2>1 DEF DataTypes, ManagerInv, ManagerTypeOK
<1>7. CallsFit'
  <2>1. CallFits(c)'
    BY <1>2, <1>3 DEF CallFits, ConnectSteps, LeaveSteps
  <2>2. QED
    BY <1>2, <2>1, CallsFitKept
<1>8. EntriesWanted'
  \* An entry made before the list was read belongs to a call that was noted.
  <2>1. \A a \in Alias : nets[a] # None => {a} \in crossed
    BY <1>3 DEF ManagerInv, HoldersRun, EntriesRun, Runs, EarlyCrossed
  <2>2. QED
    BY <2>1 DEF EntriesWanted
<1>9. ListsFit'
  <2>1. SUFFICES ASSUME Sequential' PROVE SavesFit'
    BY DEF ListsFit
  <2>2. Sequential /\ SavesFit
    BY <2>1 DEF Sequential, ManagerInv, ListsFit
  <2>3. file \in List /\ \A a \in kept : file[a] # "absent"
    BY <1>3, <2>2 DEF SavesFit
  <2>4. saved' = file
    <3>1. CASE file = Torn
      <4>1. \A a \in Alias : Torn[a] \in {"absent", "auto", "manual"} /\ Torn[a] = "torn"
        BY <2>3, <3>1 DEF Torn, List
      <4>2. Alias = {}
        BY <4>1
      <4>3. Nothing = Torn
        BY <4>2 DEF Nothing, Torn
      <4>4. QED
        BY <3>1, <4>3
    <3>2. QED
      BY <3>1
  <2>5. \A d \in Caller : pc'[d] \notin SaveSteps
    <3>1. pc'[c] \notin SaveSteps
      BY <1>2 DEF SaveSteps
    <3>2. \A d \in Caller : pc[d] \notin SaveSteps
      BY <1>3, <2>2 DEF SavesFit
    <3>3. QED
      BY <1>2, <3>1, <3>2 DEF Others
  <2>6. QED
    BY <2>3, <2>4, <2>5 DEF SavesFit
<1>10. QED
  BY <1>2, <1>5, <1>6, <1>7, <1>8, <1>9, Assemble

-------------------------------------------------------------------------------
(* A service that has just started, for the first time or again *)

Fresh ==
  /\ nets = [a \in Alias |-> None] /\ engines = {} /\ loaded = FALSE
  /\ pc = [c \in Caller |-> "idle"] /\ arg = [c \in Caller |-> None]
  /\ task = [c \in Caller |-> "none"] /\ new = [c \in Caller |-> NoChoice]
  /\ old = [c \in Caller |-> None] /\ snap = [c \in Caller |-> Nothing]

LEMMA FreshSound == Fresh => CallTypes /\ CallsFit /\ EntriesWanted /\ Core
<1> SUFFICES ASSUME Fresh
             PROVE  CallTypes /\ CallsFit /\ EntriesWanted /\ Core
  OBVIOUS
<1> USE DEF Fresh
<1>1. CallTypes
  BY EmptyFits DEF CallTypes, PcType, ArgType, TaskType, NewType, OldType, SnapType, Steps, Tasks
<1>2. CallsFit
  BY DEF CallsFit, CallFits, ConnectSteps, LeaveSteps
<1>3. EntriesWanted
  BY DEF EntriesWanted
<1>4. PairsCrossed /\ EarlyCrossed /\ IdsFit /\ LocalRangesDistinct /\ EnginesOwned
  BY DEF PairsCrossed, EarlyCrossed, IdsFit, LocalRangesDistinct, EnginesOwned
<1>5. HoldersRun /\ OwnersDiffer
  BY DEF HoldersRun, EntriesRun, StartedRun, TakenFit, Taking,
         OwnersDiffer, TakenGone, StartedFresh, TakenOlder, StartedApart
<1>6. EntriesClear /\ ChoicesFit
  BY DEF EntriesClear, Clearing, LeaveSteps, SaveSteps, ChoicesFit
<1>7. QED
  BY <1>1, <1>2, <1>3, <1>4, <1>5, <1>6 DEF Core

LEMMA InitSound == Init => ManagerInv
<1>1. SUFFICES ASSUME Init PROVE ManagerInv
  OBVIOUS
<1>2. CallTypes /\ CallsFit /\ EntriesWanted /\ Core
  BY <1>1, FreshSound DEF Init, Fresh
<1>3. DataTypes
  BY <1>1, EmptyFits DEF Init, DataTypes
<1>4. ListsFit
  BY <1>1, EmptyFits DEF Init, ListsFit, SavesFit, SaveSteps
<1>5. QED
  BY <1>2, <1>3, <1>4 DEF ManagerInv, ManagerTypeOK, DataTypes, CallTypes, PcType, ArgType,
     TaskType, NewType, OldType, SnapType, Core

LEMMA ExitStep ==
  ASSUME ManagerInv, StopService \/ Killed
  PROVE  ManagerInv'
<1>1. Exit /\ ((Quiet /\ UNCHANGED kills) \/ kills' = kills + 1)
  BY DEF StopService, Killed
<1>2. CallTypes' /\ CallsFit' /\ EntriesWanted' /\ Core'
  <2>1. Fresh'
    BY <1>1 DEF Fresh, Exit
  <2>2. QED
    BY <2>1, FreshSound, PTL
<1>3. DataTypes'
  <2>1. /\ nets' = [a \in Alias |-> None] /\ saved' = Nothing /\ engines' = {} /\ loaded' = FALSE
        /\ queue' = {} /\ UNCHANGED <<file, ids, badWrites, kept>>
    BY <1>1 DEF Exit, history
  <2>2. kills' \in Nat
    BY <1>1 DEF ManagerInv, ManagerTypeOK
  <2>3. QED
    BY <2>1, <2>2, EmptyFits DEF DataTypes, ManagerInv, ManagerTypeOK
<1>4. ListsFit'
  <2>1. SUFFICES ASSUME Sequential' PROVE SavesFit'
    BY DEF ListsFit
  <2>2. Quiet /\ UNCHANGED kills
    <3>1. kills + 1 # 0
      BY DEF ManagerInv, ManagerTypeOK
    <3>2. QED
      BY <1>1, <2>1, <3>1 DEF Sequential
  <2>3. Sequential /\ SavesFit
    BY <1>1, <2>1, <2>2 DEF Sequential, ManagerInv, ListsFit, Exit, history
  <2>4. loaded = TRUE /\ \A d \in Caller : pc[d] = "idle" /\ task[d] = "none"
    BY <2>2 DEF Quiet, Active, ManagerInv, ManagerTypeOK, CallsFit, CallFits
  <2>5. file = saved /\ \A a \in kept : saved[a] # "absent"
    BY <2>3, <2>4 DEF SavesFit, SaveSteps
  <2>6. UNCHANGED <<file, kept>> /\ loaded' = FALSE /\ \A d \in Caller : pc'[d] = "idle"
    BY <1>1 DEF Exit, history
  <2>7. file' \in List /\ \A a \in kept' : file'[a] # "absent"
    BY <2>5, <2>6 DEF ManagerInv, ManagerTypeOK
  <2>8. QED
    BY <2>6, <2>7 DEF SavesFit, SaveSteps
<1>5. QED
  BY <1>2, <1>3, <1>4, Assemble

-------------------------------------------------------------------------------
(* The theorems *)

LEMMA StutterSound == ManagerInv /\ UNCHANGED vars => ManagerInv'
<1> SUFFICES ASSUME ManagerInv, UNCHANGED vars PROVE ManagerInv'
  OBVIOUS
<1> USE DEF vars, callVars, bounds, history, ManagerInv
<1>1. ManagerTypeOK' /\ CallsFit'
  BY DEF ManagerTypeOK, CallsFit, CallFits
<1>2. PairsCrossed' /\ EarlyCrossed' /\ IdsFit' /\ LocalRangesDistinct'
  BY DEF PairsCrossed, EarlyCrossed, IdsFit, LocalRangesDistinct
<1>3. HoldersRun'
  BY DEF HoldersRun, EntriesRun, StartedRun, TakenFit, Taking, Runs
<1>4. OwnersDiffer'
  BY DEF OwnersDiffer, TakenGone, StartedFresh, TakenOlder, StartedApart, Taking
<1>5. EnginesOwned' /\ EntriesClear' /\ EntriesWanted'
  <2>1. EnginesOwned'
    BY DEF EnginesOwned, HasOwner, Taking
  <2>2. EntriesClear'
    BY DEF EntriesClear, Clearing
  <2>3. EntriesWanted'
    BY DEF EntriesWanted
  <2>4. QED
    BY <2>1, <2>2, <2>3
<1>6. ChoicesFit'
  BY DEF ChoicesFit, SliceFits, PortFits, Mixed
<1>7. ListsFit'
  BY DEF ListsFit, SavesFit, Sequential
<1>8. QED
  BY <1>1, <1>2, <1>3, <1>4, <1>5, <1>6, <1>7

(***************************************************************************)
(* The invariant holds of every behaviour of the manager: requests, Start, *)
(* failures and kills, however they overlap.                               *)
(***************************************************************************)
THEOREM ManagerSound == Spec => []ManagerInv
<1>1. ManagerInv /\ [Next]_vars => ManagerInv'
  <2> SUFFICES ASSUME ManagerInv, Next PROVE ManagerInv'
    BY StutterSound
  <2>1. CASE StopService \/ Killed
    BY <2>1, ExitStep
  <2>2. ASSUME NEW c \in Caller, Connecting(c) PROVE ManagerInv'
    BY <2>2, RequestStep, StopStep, ChooseStep, StartStep, StartFailsStep, RecordStep, ListStep
    DEF Connecting
  <2>3. ASSUME NEW c \in Caller, NEW a \in Alias, NEW t \in {"disconnect", "forget"},
               Disconnect(c, a, t)
        PROVE  ManagerInv'
    BY <2>3, RequestStep
  <2>4. ASSUME NEW c \in Caller, TakeDown(c) \/ Mark(c) \/ Drop(c) PROVE ManagerInv'
    BY <2>4, StopStep, ListStep
  <2>5. ASSUME NEW c \in Caller, SaveBegin(c) \/ SaveEnd(c) \/ SaveFails(c) PROVE ManagerInv'
    BY <2>5, SaveBeginStep, SaveEndStep
  <2>6. ASSUME NEW c \in Caller, StartLoad(c) \/ StartNext(c) PROVE ManagerInv'
    BY <2>6, StartLoadStep, StartNextStep
  <2>7. QED
    BY <2>1, <2>2, <2>3, <2>4, <2>5, <2>6 DEF Next
<1>2. QED
  BY <1>1, InitSound, PTL DEF Spec

(***************************************************************************)
(* An entry is a running engine of its network, and between calls every    *)
(* engine of a network whose calls never crossed is the one of its entry,  *)
(* and wanted.                                                             *)
(***************************************************************************)
THEOREM EntriesCorrect == Spec => []EntriesMatchEngines
<1>1. ManagerInv => EntriesMatchEngines
  <2> SUFFICES ASSUME ManagerInv PROVE EntriesMatchEngines
    OBVIOUS
  <2>1. \A a \in Alias : nets[a] # None =>
          \E e \in engines : /\ e.id = nets[a].id /\ e.alias = a /\ e.slice = nets[a].slice
                             /\ e.port = EnginePort(nets[a].port)
    BY DEF ManagerInv, HoldersRun, EntriesRun, Runs
  <2>2. ASSUME Quiet, NEW e \in engines, {e.alias} \notin crossed
        PROVE  nets[e.alias] # None /\ nets[e.alias].id = e.id /\ saved[e.alias] = "auto"
    <3>1. \A c \in Caller : pc[c] = "idle"
      BY <2>2 DEF Quiet, Active
    <3>2. e.alias \in Alias /\ HasOwner(e)
      BY DEF ManagerInv, ManagerTypeOK, Engine, EnginesOwned
    <3>3. nets[e.alias] # None /\ nets[e.alias].id = e.id
      BY <2>2, <3>1, <3>2 DEF HasOwner, Taking
    <3>4. saved[e.alias] = "auto"
      BY <2>2, <3>1, <3>2, <3>3 DEF ManagerInv, EntriesWanted
    <3>5. QED
      BY <3>3, <3>4
  <2>3. QED
    BY <2>1, <2>2 DEF EntriesMatchEngines
<1>2. QED
  BY <1>1, ManagerSound, PTL

(***************************************************************************)
(* Two engines share a local range only if calls for their networks        *)
(* crossed.                                                                *)
(***************************************************************************)
THEOREM RangesCorrect == Spec => []LocalRangesDistinct
<1>1. ManagerInv => LocalRangesDistinct
  BY DEF ManagerInv
<1>2. QED
  BY <1>1, ManagerSound, PTL

(***************************************************************************)
(* The port a call is about to use is free, or in use by an engine of a    *)
(* network whose call crossed it.                                          *)
(***************************************************************************)
THEOREM PortCorrect == Spec => []PortIsFree
<1>1. ManagerInv => PortIsFree
  BY DEF ManagerInv, ChoicesFit, PortFits, PortIsFree
<1>2. QED
  BY <1>1, ManagerSound, PTL

(***************************************************************************)
(* While calls do not cross, no write fails and nothing kills the service, *)
(* a network that was connected stays in the list, in memory and on disk,  *)
(* through any number of restarts.                                         *)
(***************************************************************************)
THEOREM NetworksCorrect == Spec => []NetworksKept
<1>1. ManagerInv => NetworksKept
  <2> SUFFICES ASSUME ManagerInv, Quiet, Sequential, NEW a \in kept
               PROVE  saved[a] # "absent" /\ file[a] = saved[a]
    BY DEF NetworksKept, Sequential
  <2>1. loaded = TRUE /\ \A d \in Caller : pc[d] = "idle" /\ task[d] = "none"
    BY DEF Quiet, Active, ManagerInv, ManagerTypeOK, CallsFit, CallFits
  <2>2. SavesFit
    BY DEF ManagerInv, ListsFit
  <2>3. QED
    BY <2>1, <2>2 DEF SavesFit, SaveSteps
<1>2. QED
  BY <1>1, ManagerSound, PTL
===============================================================================
