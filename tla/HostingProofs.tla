----------------------------- MODULE HostingProofs ----------------------------
(***************************************************************************)
(* The life of a hosted network is correct for any configurations, any     *)
(* number of callers and any number of restarts.                           *)
(*                                                                         *)
(* The properties of the run are about moments when nobody holds the       *)
(* supervisor's mutex, or about what clients are shown.  The invariant     *)
(* adds what is true in the middle of a call (CallSound, ListenersSound,   *)
(* KeySound of whoever holds the mutex), how keys and pins go together     *)
(* (PinsSound), and in which of memory, disk and a pending AutoStart the   *)
(* operator's last wish is kept (WishKept).                                *)
(*                                                                         *)
(* At the end, two things a server is built with: the addresses it hands   *)
(* out (Addresses) and its table of join tokens (JoinTokens).              *)
(***************************************************************************)
EXTENDS Hosting, Addresses, JoinTokens, FiniteSetTheorems, TLAPS

KeySteps == {"key", "key fill", "cert", "cert fill"}
Starting == KeySteps \cup {"relay", "control"}
Saving   == {"save", "fill"}

HostingTypeOK ==
  /\ cfg \in Conf \cup {None} /\ auto \in BOOLEAN
  /\ conFile \in SavedConf \cup {None, Torn}
  /\ keyFile \in Nat \cup {Torn}
  /\ certFile \in Certificate \cup {None, Torn}
  /\ serving \in Conf \cup {None}
  /\ lock \in Caller \cup {None}
  /\ booted \in BOOLEAN
  /\ pc \in [Caller -> {"idle", "auto"} \cup Starting \cup Saving]
  /\ arg \in [Caller -> Conf \cup {None}]
  /\ task \in [Caller -> {"none", "start", "stop", "boot"}]
  /\ keys \in Nat /\ readErrors \in Nat
  /\ wanted \in Conf \cup {None, "?"} /\ unsaved \in BOOLEAN
  /\ auto = TRUE => cfg \in Conf
  /\ conFile \in SavedConf => (conFile.auto = TRUE => conFile.conf \in Conf)

\* A call is past its entry if and only if it holds the mutex.
MutexSound ==
  \A c \in Caller :
    /\ pc[c] \in Starting \cup Saving <=> lock = c
    /\ pc[c] = "auto" => task[c] = "boot" /\ arg[c] \in Conf
    /\ task[c] \in {"start", "stop"} => lock = c

SocketsFit ==
  IF serving = None
  THEN listening = {}
  ELSE /\ {"relay", "control"} \subseteq listening
       /\ "acme" \in listening => Mode[serving] = "acme"

\* What a call that holds the mutex is for, and what it has brought about.
CallSound(c) ==
  /\ task[c] \in {"start", "stop", "boot"}
  /\ task[c] # "stop" => arg[c] \in Conf
  /\ task[c] = "boot" /\ wanted # "?" => wanted = arg[c]
  /\ pc[c] \in Starting => task[c] # "stop"
  /\ pc[c] \in Saving =>
       IF task[c] = "stop" THEN auto = FALSE /\ serving = None
       ELSE cfg = arg[c] /\ auto = TRUE /\ serving = arg[c]

\* Which sockets are open: only the relay's before the control listener is.
ListenersSound(c) ==
  /\ pc[c] \in Starting => /\ serving = None /\ shown = None
                           /\ listening = IF pc[c] = "control" THEN {"relay"} ELSE {}
  /\ pc[c] \in Saving => SocketsFit

\* How far the key and the certificate have got.
KeySound(c) ==
  /\ pc[c] \in KeySteps => Mode[arg[c]] = "self"
  /\ pc[c] = "key fill" => keys # 0
  /\ pc[c] \in {"cert", "cert fill"} => keyFile \in Nat \ {0}
  /\ pc[c] \in {"relay", "control"} /\ Mode[arg[c]] = "self" =>
       keyFile \in Nat \ {0} /\ certUsable(arg[c])

HolderSound == \A c \in Caller : lock = c => CallSound(c) /\ ListenersSound(c) /\ KeySound(c)

\* Without a failed read there is one key: not made yet, or number 1.
PinsSound ==
  readErrors = 0 =>
    \/ keyFile = 0 /\ keys = 0 /\ pins = {}
    \/ keys = 1 /\ keyFile \in {Torn, 1} /\ pins \subseteq {1}

(***************************************************************************)
(* A wish that is settled is in the supervisor's memory when the mutex is  *)
(* free, and on disk unless the file is being written, could not be, or a  *)
(* request may replace it.                                                 *)
(***************************************************************************)
InMemory ==
  lock = None =>
    /\ wanted = None => auto = FALSE /\ serving = None
    /\ wanted \in Conf => /\ cfg = wanted /\ auto = TRUE
                          /\ serving \in {None, wanted} /\ (booted = TRUE => serving = wanted)

OnDisk ==
  conFile # Torn /\ unsaved = FALSE /\ (lock # None => task[lock] = "boot") =>
    /\ wanted \in Conf => conFile = [conf |-> wanted, auto |-> TRUE]
    /\ wanted = None => conFile = None \/ conFile.auto = FALSE

WishKept == wanted # "?" => InMemory /\ OnDisk

HostingInv ==
  /\ HostingTypeOK /\ MutexSound /\ HolderSound
  /\ lock = None => SocketsFit
  /\ CertificateFits /\ PinsSound /\ WishKept

-------------------------------------------------------------------------------
(* Entering, going on with and returning from a call *)

PcType   == pc \in [Caller -> {"idle", "auto"} \cup Starting \cup Saving]
ArgType  == arg \in [Caller -> Conf \cup {None}]
TaskType == task \in [Caller -> {"none", "start", "stop", "boot"}]

\* Who is past its entry holds the mutex, and all that is known of a holder is known of it.
LEMMA HolderIs ==
  ASSUME HostingInv, NEW c \in Caller, pc[c] \in Starting \cup Saving
  PROVE  lock = c /\ c # None /\ CallSound(c) /\ ListenersSound(c) /\ KeySound(c)
  BY HostingConstants DEF HostingInv, MutexSound, HolderSound

\* Taking the mutex.
LEMMA EntrySound ==
  ASSUME HostingTypeOK, MutexSound, NEW c \in Caller, lock = None, lock' = c,
         NEW at \in Starting \cup Saving, Goto(c, at),
         NEW k \in Conf \cup {None}, arg' = [arg EXCEPT ![c] = k],
         NEW t \in {"start", "stop", "boot"}, task' = [task EXCEPT ![c] = t]
  PROVE  /\ MutexSound' /\ PcType' /\ ArgType' /\ TaskType'
         /\ pc'[c] = at /\ arg'[c] = k /\ task'[c] = t
<1>1. PcType' /\ ArgType' /\ TaskType' /\ pc'[c] = at /\ arg'[c] = k /\ task'[c] = t
  BY DEF HostingTypeOK, PcType, ArgType, TaskType, Goto
<1>2. ASSUME NEW d \in Caller, d # c
      PROVE  /\ pc'[d] = pc[d] /\ arg'[d] = arg[d] /\ task'[d] = task[d]
             /\ pc[d] \notin Starting \cup Saving /\ task[d] \notin {"start", "stop"}
  BY <1>2, HostingConstants DEF HostingTypeOK, MutexSound, Goto
<1>3. MutexSound'
  BY <1>1, <1>2 DEF MutexSound, Starting, Saving, KeySteps
<1>4. QED
  BY <1>1, <1>3

\* A step inside.
LEMMA InsideSound ==
  ASSUME HostingTypeOK, MutexSound, NEW c \in Caller, lock = c,
         NEW at \in Starting \cup Saving, Goto(c, at), UNCHANGED <<lock, arg, task>>
  PROVE  MutexSound' /\ PcType' /\ pc'[c] = at
<1>1. PcType' /\ pc'[c] = at
  BY DEF HostingTypeOK, PcType, Goto
<1>2. \A d \in Caller : d # c => pc'[d] = pc[d]
  BY DEF HostingTypeOK, Goto
<1>3. MutexSound'
  BY <1>1, <1>2 DEF MutexSound, Starting, Saving, KeySteps
<1>4. QED
  BY <1>1, <1>3

\* The return.
LEMMA ReturnSound ==
  ASSUME HostingTypeOK, MutexSound, NEW c \in Caller, lock = c, Done(c)
  PROVE  /\ MutexSound' /\ HolderSound' /\ PcType' /\ ArgType' /\ TaskType'
         /\ lock' = None /\ booted' \in BOOLEAN
<1>1. PcType' /\ ArgType' /\ TaskType' /\ lock' = None /\ booted' \in BOOLEAN
  BY DEF HostingTypeOK, Done, PcType, ArgType, TaskType
<1>2. pc'[c] = "idle" /\ task'[c] = "none"
  BY DEF HostingTypeOK, Done
<1>3. ASSUME NEW d \in Caller, d # c
      PROVE  /\ pc'[d] = pc[d] /\ arg'[d] = arg[d] /\ task'[d] = task[d]
             /\ pc[d] \notin Starting \cup Saving /\ task[d] \notin {"start", "stop"}
  BY <1>3 DEF HostingTypeOK, MutexSound, Done
<1>4. MutexSound' /\ HolderSound'
  BY <1>1, <1>2, <1>3, HostingConstants
     DEF MutexSound, HolderSound, Starting, Saving, KeySteps
<1>5. QED
  BY <1>1, <1>4

\* The invariant speaks of no other variables than these.
LEMMA NothingChanged ==
  ASSUME HostingInv,
         UNCHANGED <<cfg, auto, conFile, keyFile, certFile, listening, serving, shown, lock,
                     booted, pc, arg, task, keys, pins, wanted, unsaved, readErrors>>
  PROVE  HostingInv'
<1>1. HostingTypeOK' /\ MutexSound'
  BY DEF HostingInv, HostingTypeOK, MutexSound
<1>2. SocketsFit' = SocketsFit
  BY DEF SocketsFit
<1>3. HolderSound'
  BY <1>2 DEF HostingInv, HolderSound, CallSound, ListenersSound, KeySound, certUsable
<1>4. CertificateFits' /\ PinsSound' /\ WishKept'
  BY DEF HostingInv, CertificateFits, PinsSound, WishKept, InMemory, OnDisk
<1>5. QED
  BY <1>1, <1>2, <1>3, <1>4 DEF HostingInv

-------------------------------------------------------------------------------
(* Requests and AutoStart *)

(***************************************************************************)
(* Entering a start: the host is stopped, and so fits.                     *)
(***************************************************************************)
LEMMA EnterStartPreservesInv ==
  ASSUME HostingInv, NEW c \in Caller, NEW k \in Conf, NEW t \in {"start", "boot"},
         EnterStart(c, k, t), wanted' \in {wanted, "?"},
         t = "boot" /\ wanted' # "?" => wanted' = k
  PROVE  HostingInv'
<1> DEFINE to == IF Mode[k] = "self" THEN "key" ELSE "relay"
<1>1. /\ lock = None /\ lock' = c /\ c # None
      /\ to \in Starting \cup Saving /\ to \in {"key", "relay"} /\ Goto(c, to)
      /\ listening' = {} /\ serving' = None /\ shown' = None
      /\ UNCHANGED <<cfg, auto, conFile, keyFile, certFile, booted, keys, pins, unsaved,
                     readErrors>>
  BY HostingConstants DEF EnterStart, Build, HostStop, disk, Starting, KeySteps
<1>2. /\ MutexSound' /\ PcType' /\ ArgType' /\ TaskType'
      /\ pc'[c] = to /\ arg'[c] = k /\ task'[c] = t
  <2>1. arg' = [arg EXCEPT ![c] = k] /\ task' = [task EXCEPT ![c] = t]
    BY DEF EnterStart
  <2>2. QED
    BY <1>1, <2>1, EntrySound DEF HostingInv
<1>3. HostingTypeOK'
  BY <1>1, <1>2 DEF HostingInv, HostingTypeOK, PcType, ArgType, TaskType
<1>4. CallSound(c)' /\ ListenersSound(c)' /\ KeySound(c)'
  BY <1>1, <1>2 DEF CallSound, ListenersSound, KeySound, Starting, Saving, KeySteps
<1>5. HolderSound'
  BY <1>1, <1>4 DEF HolderSound
<1>6. CertificateFits' /\ PinsSound'
  BY <1>1 DEF HostingInv, CertificateFits, PinsSound
<1>7. WishKept'
  <2>1. CASE t = "start"
    BY <1>1, <1>2, <2>1 DEF WishKept, InMemory, OnDisk
  <2>2. CASE t = "boot"
    BY <1>1, <1>2, <2>2 DEF HostingInv, WishKept, InMemory, OnDisk
  <2>3. QED
    BY <2>1, <2>2
<1>8. QED
  BY <1>1, <1>2, <1>3, <1>5, <1>6, <1>7 DEF HostingInv

(***************************************************************************)
(* What the operator asks for: a start, refused or not, and a stop.        *)
(***************************************************************************)
LEMMA RequestsPreserveInv ==
  ASSUME HostingInv, NEW c \in Caller,
         (\E k \in Conf : StartInvalid(c, k) \/ Start(c, k)) \/ Stop(c)
  PROVE  HostingInv'
<1>1. ASSUME NEW k \in Conf, StartInvalid(c, k) PROVE HostingInv'
  BY <1>1, NothingChanged DEF StartInvalid, disk, hostVars, callVars
<1>2. ASSUME NEW k \in Conf, Start(c, k) PROVE HostingInv'
  BY <1>2, EnterStartPreservesInv DEF Start
<1>3. CASE Stop(c)
  <2>1. /\ lock = None /\ lock' = c /\ c # None /\ pc[c] = "idle"
        /\ "save" \in Starting \cup Saving /\ Goto(c, "save")
        /\ listening' = {} /\ serving' = None /\ shown' = None /\ auto' = FALSE
        /\ UNCHANGED <<cfg, conFile, keyFile, certFile, booted, arg, keys, pins, wanted,
                       unsaved, readErrors>>
    BY <1>3, HostingConstants DEF Stop, Request, HostStop, disk, Saving
  <2>2. /\ MutexSound' /\ PcType' /\ ArgType' /\ TaskType'
        /\ pc'[c] = "save" /\ task'[c] = "stop"
    <3>1. arg' = [arg EXCEPT ![c] = arg[c]] /\ arg[c] \in Conf \cup {None}
      BY <2>1 DEF HostingInv, HostingTypeOK
    <3>2. task' = [task EXCEPT ![c] = "stop"]
      BY <1>3 DEF Stop
    <3>3. QED
      BY <2>1, <3>1, <3>2, EntrySound DEF HostingInv
  <2>3. HostingTypeOK'
    BY <2>1, <2>2 DEF HostingInv, HostingTypeOK, PcType, ArgType, TaskType
  <2>4. CallSound(c)' /\ ListenersSound(c)' /\ KeySound(c)'
    BY <2>1, <2>2 DEF CallSound, ListenersSound, SocketsFit, KeySound, Starting, Saving, KeySteps
  <2>5. HolderSound'
    BY <2>1, <2>4 DEF HolderSound
  <2>6. CertificateFits' /\ PinsSound' /\ WishKept'
    BY <2>1, <2>2 DEF HostingInv, CertificateFits, PinsSound, WishKept, InMemory, OnDisk
  <2>7. QED
    BY <2>1, <2>2, <2>3, <2>5, <2>6 DEF HostingInv
<1>4. QED
  BY <1>1, <1>2, <1>3

(***************************************************************************)
(* AutoStart: if nobody asked for anything else in between, what it starts *)
(* is what is wanted.                                                      *)
(***************************************************************************)
LEMMA AutoStartPreservesInv ==
  ASSUME HostingInv, NEW c \in Caller, AutoStartRead(c) \/ AutoStartStart(c)
  PROVE  HostingInv'
<1>1. CASE AutoStartRead(c)
  <2> USE <1>1
  <2>1. /\ lock = None /\ pc[c] = "idle"
        /\ UNCHANGED <<cfg, auto, conFile, keyFile, certFile, listening, serving, shown, lock,
                       keys, pins, wanted, unsaved, readErrors>>
    BY DEF AutoStartRead, disk, hostVars, bounds
  <2>2. CertificateFits' /\ PinsSound' /\ HolderSound' /\ (lock' = None => SocketsFit')
    BY <2>1, HostingConstants
       DEF HostingInv, CertificateFits, PinsSound, HolderSound, SocketsFit
  <2>3. CASE auto
    <3>1. /\ auto = TRUE /\ cfg \in Conf /\ booted' = booted
          /\ arg' = [arg EXCEPT ![c] = cfg]
          /\ task' = [task EXCEPT ![c] = "boot"]
          /\ pc' = [pc EXCEPT ![c] = "auto"]
      BY <2>3 DEF AutoStartRead, Goto, HostingInv, HostingTypeOK
    <3>2. HostingTypeOK'
      <4>1. PcType' /\ ArgType' /\ TaskType'
        BY <3>1 DEF HostingInv, HostingTypeOK, PcType, ArgType, TaskType
      <4>2. auto' = TRUE /\ cfg' \in Conf /\ booted' \in BOOLEAN
        BY <2>1, <3>1 DEF HostingInv, HostingTypeOK
      <4>3. conFile' \in SavedConf => (conFile'.auto = TRUE => conFile'.conf \in Conf)
        BY <2>1 DEF HostingInv, HostingTypeOK
      <4>4. /\ conFile' \in SavedConf \cup {None, Torn}
            /\ keyFile' \in Nat \cup {Torn}
            /\ certFile' \in Certificate \cup {None, Torn}
            /\ serving' \in Conf \cup {None}
            /\ lock' \in Caller \cup {None}
            /\ keys' \in Nat /\ readErrors' \in Nat
            /\ wanted' \in Conf \cup {None, "?"} /\ unsaved' \in BOOLEAN
        BY <2>1 DEF HostingInv, HostingTypeOK
      <4>5. cfg' \in Conf \cup {None} /\ auto' \in BOOLEAN /\ (auto' = TRUE => cfg' \in Conf)
        BY <4>2
      <4>6. QED
        BY <4>1, <4>2, <4>3, <4>4, <4>5 DEF HostingTypeOK, PcType, ArgType, TaskType
    <3>3. MutexSound'
      <4>1. pc'[c] = "auto" /\ task'[c] = "boot" /\ arg'[c] \in Conf
        BY <3>1 DEF HostingInv, HostingTypeOK
      <4>2. \A d \in Caller : d # c => pc'[d] = pc[d] /\ task'[d] = task[d] /\ arg'[d] = arg[d]
        BY <3>1 DEF HostingInv, HostingTypeOK
      <4>3. lock' = lock /\ lock # c
        BY <2>1, HostingConstants
      <4>4. QED
        BY <4>1, <4>2, <4>3 DEF HostingInv, MutexSound, Starting, Saving, KeySteps
    <3>4. WishKept'
      BY <2>1, <3>1 DEF HostingInv, WishKept, InMemory, OnDisk
    <3>5. QED
      BY <2>2, <3>2, <3>3, <3>4 DEF HostingInv
  <2>4. CASE ~auto
    <3>1. auto # TRUE /\ booted' = TRUE /\ UNCHANGED <<pc, arg, task>>
      BY <2>4 DEF AutoStartRead, callVars
    <3>2. HostingTypeOK' /\ MutexSound'
      BY <2>1, <3>1 DEF HostingInv, HostingTypeOK, MutexSound
    <3>3. WishKept'
      BY <2>1, <3>1 DEF HostingInv, WishKept, InMemory, OnDisk
    <3>4. QED
      BY <2>2, <3>2, <3>3 DEF HostingInv
  <2>5. QED
    BY <2>3, <2>4
<1>2. CASE AutoStartStart(c)
  <2>1. arg[c] \in Conf /\ lock = None /\ EnterStart(c, arg[c], "boot")
    BY <1>2 DEF AutoStartStart, EnterStart, HostingInv, MutexSound
  <2>2. wanted' \in {wanted, "?"} /\ (wanted' # "?" => wanted' = arg[c])
    <3>1. CASE Overruled(c)
      BY <1>2, <3>1 DEF AutoStartStart
    <3>2. CASE ~Overruled(c)
      <4>1. wanted' = wanted /\ auto /\ cfg = arg[c]
        BY <1>2, <3>2 DEF AutoStartStart, Overruled
      <4>2. auto # FALSE
        BY <4>1
      <4>3. QED
        BY <2>1, <4>1, <4>2 DEF HostingInv, HostingTypeOK, WishKept, InMemory
    <3>3. QED
      BY <3>1, <3>2
  <2>3. QED
    BY <2>1, <2>2, EnterStartPreservesInv
<1>3. QED
  BY <1>1, <1>2

-------------------------------------------------------------------------------
(* The steps of a start *)

(***************************************************************************)
(* A start fails, at whatever step: nothing is open, and nothing promised. *)
(***************************************************************************)
LEMMA FailuresPreserveInv ==
  ASSUME HostingInv, NEW c \in Caller, StepFails(c) \/ KeyUnusable(c)
  PROVE  HostingInv'
<1>1. /\ pc[c] \in Starting /\ pc[c] \in Starting \cup Saving /\ StartFails(c)
      /\ UNCHANGED <<keyFile, certFile, readErrors>>
  BY DEF StepFails, KeyUnusable, bounds, Starting, KeySteps
<1>2. lock = c /\ arg[c] \in Conf /\ serving = None /\ shown = None
  BY <1>1, HolderIs DEF CallSound, ListenersSound, Starting, KeySteps
<1>3. /\ cfg' = arg[c] /\ auto' = TRUE /\ listening' = {} /\ Done(c) /\ wanted' = "?"
      /\ UNCHANGED <<conFile, serving, shown, keys, pins, unsaved>>
  BY <1>1 DEF StartFails
<1>4. /\ MutexSound' /\ HolderSound' /\ PcType' /\ ArgType' /\ TaskType'
      /\ lock' = None /\ booted' \in BOOLEAN
  BY <1>2, <1>3, ReturnSound DEF HostingInv
<1>5. HostingTypeOK'
  BY <1>1, <1>2, <1>3, <1>4 DEF HostingInv, HostingTypeOK, PcType, ArgType, TaskType
<1>6. SocketsFit' /\ CertificateFits' /\ PinsSound' /\ WishKept'
  BY <1>1, <1>2, <1>3 DEF HostingInv, SocketsFit, CertificateFits, PinsSound, WishKept
<1>7. QED
  BY <1>4, <1>5, <1>6 DEF HostingInv

(***************************************************************************)
(* What the steps before the listeners have in common: they only change    *)
(* the key and certificate files.                                          *)
(***************************************************************************)
LEMMA KeyStepsPreserveInv ==
  ASSUME HostingInv, NEW c \in Caller, pc[c] \in KeySteps,
         NEW to \in {"key fill", "cert", "cert fill", "relay"}, Goto(c, to),
         UNCHANGED <<cfg, auto, conFile, listening, serving, shown, lock, booted, arg, task, pins,
                     wanted, unsaved>>,
         keyFile' \in Nat \cup {Torn}, certFile' \in Certificate \cup {None, Torn},
         keys' \in Nat, readErrors' \in Nat, PinsSound',
         to = "key fill" => keys' # 0,
         to \in {"cert", "cert fill", "relay"} => keyFile' \in Nat \ {0},
         to = "relay" => certUsable(arg[c])'
  PROVE  HostingInv'
<1>1. pc[c] \in Starting /\ pc[c] \in Starting \cup Saving /\ to \in Starting \cup Saving
  BY DEF Starting, Saving, KeySteps
<1>2. /\ lock = c /\ c # None /\ CallSound(c) /\ ListenersSound(c)
      /\ Mode[arg[c]] = "self"
  BY <1>1, HolderIs DEF KeySound
<1>3. MutexSound' /\ PcType' /\ pc'[c] = to
  BY <1>1, <1>2, InsideSound DEF HostingInv
<1>4. HostingTypeOK'
  BY <1>3 DEF HostingInv, HostingTypeOK, PcType
<1>5. CallSound(c)' /\ ListenersSound(c)'
  BY <1>1, <1>2, <1>3 DEF CallSound, ListenersSound, Starting, Saving, KeySteps
<1>6. KeySound(c)'
  BY <1>2, <1>3 DEF KeySound, KeySteps
<1>7. HolderSound'
  BY <1>2, <1>5, <1>6 DEF HolderSound
<1>8. CertificateFits' /\ WishKept'
  BY <1>2 DEF HostingInv, CertificateFits, WishKept, InMemory, OnDisk
<1>9. QED
  BY <1>2, <1>3, <1>4, <1>7, <1>8 DEF HostingInv

(***************************************************************************)
(* The key: read, or made anew.                                            *)
(***************************************************************************)
LEMMA KeyPreservesInv ==
  ASSUME HostingInv, NEW c \in Caller, LoadKey(c) \/ CreateKey(c) \/ FillKey(c)
  PROVE  HostingInv'
<1>1. CASE LoadKey(c)
  <2>1. /\ pc[c] \in KeySteps /\ Goto(c, "cert") /\ keyFile \notin {0, Torn}
        /\ UNCHANGED <<cfg, auto, conFile, keyFile, certFile, listening, serving, shown, lock,
                       booted, arg, task, keys, pins, wanted, unsaved, readErrors>>
    BY <1>1 DEF LoadKey, KeySteps, disk, hostVars, bounds
  <2>2. PinsSound'
    BY <2>1 DEF HostingInv, PinsSound
  <2>3. QED
    BY <2>1, <2>2, KeyStepsPreserveInv DEF HostingInv, HostingTypeOK
<1>2. CASE CreateKey(c)
  <2>1. /\ pc[c] \in KeySteps /\ Goto(c, "key fill")
        /\ UNCHANGED <<cfg, auto, conFile, certFile, listening, serving, shown, lock,
                       booted, arg, task, pins, wanted, unsaved>>
        /\ keyFile' = Torn
    BY <1>2 DEF CreateKey, KeySteps, hostVars
  <2>2. keys \in Nat /\ readErrors \in Nat
    BY DEF HostingInv, HostingTypeOK
  <2>3. keys' = keys + 1
    BY <1>2 DEF CreateKey
  <2>4. readErrors' \in Nat /\ (readErrors' = 0 => readErrors = 0 /\ keyFile = 0)
    <3>1. CASE keyFile = 0 /\ UNCHANGED readErrors
      BY <2>2, <3>1
    <3>2. CASE readErrors' = readErrors + 1
      BY <2>2, <3>2
    <3>3. (keyFile = 0 /\ UNCHANGED readErrors) \/ readErrors' = readErrors + 1
      BY <1>2 DEF CreateKey
    <3>4. QED
      BY <3>1, <3>2, <3>3
  <2>5. PinsSound'
    <3>1. SUFFICES ASSUME readErrors' = 0
                   PROVE  keys' = 1 /\ keyFile' \in {Torn, 1} /\ pins' \subseteq {1}
      BY DEF PinsSound
    <3>2. readErrors = 0 /\ keyFile = 0
      BY <2>4, <3>1
    <3>3. keys = 0 /\ pins = {}
      <4>1. keyFile \notin {Torn, 1}
        BY <3>2, HostingConstants
      <4>2. QED
        BY <3>2, <4>1 DEF HostingInv, PinsSound
    <3>4. keys' = 1
      BY <2>3, <3>3
    <3>5. QED
      BY <2>1, <3>3, <3>4
  <2>6. keys' \in Nat /\ keys' # 0
    BY <2>2, <2>3
  <2>7. QED
    BY <2>1, <2>4, <2>5, <2>6, KeyStepsPreserveInv DEF HostingInv, HostingTypeOK
<1>3. CASE FillKey(c)
  <2>1. /\ pc[c] \in KeySteps /\ pc[c] = "key fill" /\ Goto(c, "cert")
        /\ UNCHANGED <<cfg, auto, conFile, certFile, listening, serving, shown, lock,
                       booted, arg, task, keys, pins, wanted, unsaved, readErrors>>
        /\ keyFile' = keys
    BY <1>3 DEF FillKey, KeySteps, hostVars, bounds
  <2>2. keys \in Nat \ {0}
    BY <2>1, HolderIs DEF HostingInv, HostingTypeOK, KeySound, KeySteps, Starting
  <2>3. PinsSound'
    BY <2>1, <2>2 DEF HostingInv, PinsSound
  <2>4. QED
    BY <2>1, <2>2, <2>3, KeyStepsPreserveInv DEF HostingInv, HostingTypeOK
<1>4. QED
  BY <1>1, <1>2, <1>3

(***************************************************************************)
(* The certificate: kept, or issued anew for the key and the names.        *)
(***************************************************************************)
LEMMA CertPreservesInv ==
  ASSUME HostingInv, NEW c \in Caller, KeepCert(c) \/ IssueCert(c) \/ FillCert(c)
  PROVE  HostingInv'
<1>1. /\ pc[c] \in {"cert", "cert fill"} /\ pc[c] \in KeySteps
      /\ UNCHANGED <<cfg, auto, conFile, keyFile, listening, serving, shown, lock, booted, arg,
                     task, keys, pins, wanted, unsaved, readErrors>>
  BY DEF KeepCert, IssueCert, FillCert, KeySteps, disk, hostVars, bounds
<1>2. keyFile \in Nat \ {0} /\ arg[c] \in Conf
  BY <1>1, HolderIs DEF KeySound, CallSound, Starting, KeySteps
<1>3. PinsSound'
  BY <1>1 DEF HostingInv, PinsSound
<1>4. keys' \in Nat /\ readErrors' \in Nat /\ keyFile' \in Nat \ {0}
  BY <1>1, <1>2 DEF HostingInv, HostingTypeOK
<1>5. CASE KeepCert(c)
  <2>1. Goto(c, "relay") /\ certFile' = certFile /\ certUsable(arg[c])
    BY <1>5 DEF KeepCert, disk
  <2>2. certUsable(arg[c])' /\ certFile' \in Certificate \cup {None, Torn}
    BY <1>1, <2>1 DEF certUsable, HostingInv, HostingTypeOK
  <2>3. QED
    BY <1>1, <1>3, <1>4, <2>1, <2>2, KeyStepsPreserveInv
<1>6. CASE IssueCert(c)
  <2>1. Goto(c, "cert fill") /\ certFile' = Torn
    BY <1>6 DEF IssueCert
  <2>2. QED
    BY <1>1, <1>3, <1>4, <2>1, KeyStepsPreserveInv
<1>7. CASE FillCert(c)
  <2>1. Goto(c, "relay") /\ certFile' = [key |-> keyFile, sans |-> San[arg[c]]]
    BY <1>7 DEF FillCert
  <2>2. certFile' \in Certificate
    BY <1>2, <2>1 DEF Certificate
  <2>3. certUsable(arg[c])'
    BY <1>1, <2>1, <2>2, HostingConstants DEF certUsable
  <2>4. QED
    BY <1>1, <1>3, <1>4, <2>1, <2>2, <2>3, KeyStepsPreserveInv
<1>8. QED
  BY <1>5, <1>6, <1>7

(***************************************************************************)
(* The listeners.                                                          *)
(***************************************************************************)
LEMMA ListenRelayPreservesInv ==
  ASSUME HostingInv, NEW c \in Caller, ListenRelay(c)
  PROVE  HostingInv'
<1>1. /\ pc[c] = "relay" /\ pc[c] \in Starting \cup Saving /\ "control" \in Starting \cup Saving
      /\ listening' = listening \cup {"relay"} /\ Goto(c, "control")
      /\ UNCHANGED <<cfg, auto, conFile, keyFile, certFile, serving, shown, lock, booted, arg,
                     task, keys, pins, wanted, unsaved, readErrors>>
  BY DEF ListenRelay, disk, bounds, Starting, Saving
<1>2. lock = c /\ c # None /\ CallSound(c) /\ ListenersSound(c) /\ KeySound(c)
  BY <1>1, HolderIs
<1>3. MutexSound' /\ PcType' /\ pc'[c] = "control"
  BY <1>1, <1>2, InsideSound DEF HostingInv
<1>4. HostingTypeOK'
  BY <1>1, <1>3 DEF HostingInv, HostingTypeOK, PcType
<1>5. CallSound(c)' /\ ListenersSound(c)'
  BY <1>1, <1>2, <1>3 DEF CallSound, ListenersSound, Starting, Saving, KeySteps
<1>6. KeySound(c)'
  BY <1>1, <1>2, <1>3 DEF KeySound, KeySteps, certUsable
<1>7. HolderSound'
  BY <1>1, <1>2, <1>5, <1>6 DEF HolderSound
<1>8. CertificateFits' /\ PinsSound' /\ WishKept'
  BY <1>1, <1>2 DEF HostingInv, CertificateFits, PinsSound, WishKept, InMemory, OnDisk
<1>9. QED
  BY <1>1, <1>2, <1>3, <1>4, <1>7, <1>8 DEF HostingInv

(***************************************************************************)
(* The control listener is the last to open: from here on the network is   *)
(* served, with the key and the certificate that were looked after.        *)
(***************************************************************************)
LEMMA ListenControlPreservesInv ==
  ASSUME HostingInv, NEW c \in Caller, ListenControl(c)
  PROVE  HostingInv'
<1>1. /\ pc[c] = "control" /\ pc[c] \in Starting \cup Saving /\ "save" \in Starting \cup Saving
      /\ Goto(c, "save") /\ cfg' = arg[c] /\ auto' = TRUE /\ serving' = arg[c]
      /\ UNCHANGED <<conFile, keyFile, certFile, lock, booted, arg, task, keys, wanted, unsaved,
                     readErrors>>
  BY DEF ListenControl, disk, bounds, Starting, Saving
<1>2. lock = c /\ c # None /\ CallSound(c) /\ ListenersSound(c) /\ KeySound(c)
  BY <1>1, HolderIs
<1>3. arg[c] \in Conf /\ arg[c] # None /\ task[c] # "stop" /\ listening = {"relay"}
  BY <1>1, <1>2, HostingConstants DEF CallSound, ListenersSound, Starting
<1>4. MutexSound' /\ PcType' /\ pc'[c] = "save"
  BY <1>1, <1>2, InsideSound DEF HostingInv
<1>5. HostingTypeOK'
  BY <1>1, <1>3, <1>4 DEF HostingInv, HostingTypeOK, PcType
<1>6. SocketsFit'
  <2>1. /\ {"relay", "control"} \subseteq listening'
        /\ "acme" \in listening' => Mode[arg[c]] = "acme"
    <3>1. PICK challenge \in IF Mode[arg[c]] = "acme" THEN {{}, {"acme"}} ELSE {{}} :
            listening' = listening \cup {"control"} \cup challenge
      BY DEF ListenControl
    <3>2. CASE Mode[arg[c]] = "acme"
      BY <1>3, <3>1, <3>2
    <3>3. CASE Mode[arg[c]] # "acme"
      BY <1>3, <3>1, <3>3
    <3>4. QED
      BY <3>2, <3>3
  <2>2. QED
    BY <1>1, <1>3, <2>1 DEF SocketsFit
<1>7. CallSound(c)' /\ ListenersSound(c)' /\ KeySound(c)'
  BY <1>1, <1>2, <1>3, <1>4, <1>6
     DEF CallSound, ListenersSound, KeySound, Starting, Saving, KeySteps
<1>8. HolderSound'
  BY <1>1, <1>2, <1>7 DEF HolderSound
<1>9. CertificateFits' /\ PinsSound'
  <2>1. CASE Mode[arg[c]] = "self"
    <3>1. /\ shown' = [pin |-> keyFile, cert |-> certFile] /\ pins' = pins \cup {keyFile}
          /\ keyFile \in Nat \ {0} /\ certUsable(arg[c])
      BY <1>1, <1>2, <2>1 DEF ListenControl, KeySound
    <3>2. CertificateFits'
      BY <1>1, <3>1 DEF CertificateFits, certUsable
    <3>3. PinsSound'
      <4>1. keyFile # 0 /\ keyFile # Torn
        BY <3>1, HostingConstants
      <4>2. QED
        BY <1>1, <3>1, <4>1 DEF HostingInv, PinsSound
    <3>4. QED
      BY <3>2, <3>3
  <2>2. CASE Mode[arg[c]] # "self"
    <3>1. shown' = None /\ pins' = pins
      BY <2>2 DEF ListenControl
    <3>2. QED
      BY <1>1, <3>1 DEF HostingInv, CertificateFits, PinsSound
  <2>3. QED
    BY <2>1, <2>2
<1>10. WishKept'
  BY <1>1, <1>2 DEF HostingInv, WishKept, InMemory, OnDisk
<1>11. QED
  BY <1>1, <1>2, <1>4, <1>5, <1>8, <1>9, <1>10 DEF HostingInv

(***************************************************************************)
(* Saving: the file is cut off first, which settles nothing; when it is    *)
(* full the wish is in it, and in memory.                                  *)
(***************************************************************************)
LEMMA SaveBeginPreservesInv ==
  ASSUME HostingInv, NEW c \in Caller, SaveBegin(c)
  PROVE  HostingInv'
<1>1. /\ pc[c] = "save" /\ pc[c] \in Starting \cup Saving /\ "fill" \in Starting \cup Saving
      /\ conFile' = Torn /\ Goto(c, "fill")
      /\ UNCHANGED <<cfg, auto, keyFile, certFile, listening, serving, shown, lock, booted, arg,
                     task, keys, pins, wanted, unsaved, readErrors>>
  BY DEF SaveBegin, hostVars, bounds, Saving
<1>2. lock = c /\ c # None /\ CallSound(c) /\ ListenersSound(c)
  BY <1>1, HolderIs
<1>3. MutexSound' /\ PcType' /\ pc'[c] = "fill"
  BY <1>1, <1>2, InsideSound DEF HostingInv
<1>4. HostingTypeOK'
  BY <1>1, <1>3, HostingConstants DEF HostingInv, HostingTypeOK, PcType
<1>5. SocketsFit' = SocketsFit
  BY <1>1 DEF SocketsFit
<1>6. CallSound(c)' /\ ListenersSound(c)' /\ KeySound(c)'
  BY <1>1, <1>2, <1>3, <1>5 DEF CallSound, ListenersSound, KeySound, Starting, Saving, KeySteps
<1>7. HolderSound'
  BY <1>1, <1>2, <1>6 DEF HolderSound
<1>8. CertificateFits' /\ PinsSound' /\ WishKept'
  BY <1>1, <1>2 DEF HostingInv, CertificateFits, PinsSound, WishKept, InMemory, OnDisk
<1>9. QED
  BY <1>1, <1>2, <1>3, <1>4, <1>7, <1>8 DEF HostingInv

LEMMA SaveEndPreservesInv ==
  ASSUME HostingInv, NEW c \in Caller, SaveEnd(c)
  PROVE  HostingInv'
<1>1. /\ pc[c] = "fill" /\ pc[c] \in Saving /\ pc[c] \in Starting \cup Saving /\ Done(c)
      /\ conFile' = [conf |-> cfg, auto |-> auto] /\ unsaved' = FALSE
      /\ UNCHANGED <<cfg, auto, keyFile, certFile, listening, serving, shown, keys, pins, readErrors>>
  BY DEF SaveEnd, Returned, hostVars, bounds, Saving
<1>2. lock = c /\ c # None /\ CallSound(c) /\ ListenersSound(c)
  BY <1>1, HolderIs
<1>3. /\ MutexSound' /\ HolderSound' /\ PcType' /\ ArgType' /\ TaskType'
      /\ lock' = None /\ booted' \in BOOLEAN
  BY <1>1, <1>2, ReturnSound DEF HostingInv
<1>4. /\ task[c] = "start" => wanted' = arg[c]
      /\ task[c] = "stop" => wanted' = None
      /\ task[c] = "boot" => wanted' = wanted
  BY DEF SaveEnd, Returned
<1>5. /\ task[c] \in {"start", "stop", "boot"}
      /\ task[c] # "stop" => arg[c] \in Conf /\ cfg = arg[c] /\ auto = TRUE /\ serving = arg[c]
      /\ task[c] = "stop" => auto = FALSE /\ serving = None
      /\ task[c] = "boot" /\ wanted # "?" => wanted = arg[c]
  BY <1>1, <1>2 DEF CallSound
<1>6. wanted' \in Conf \cup {None, "?"}
  BY <1>4, <1>5 DEF HostingInv, HostingTypeOK
<1>7. conFile' \in SavedConf /\ conFile'.conf = cfg /\ conFile'.auto = auto
  BY <1>1 DEF HostingInv, HostingTypeOK, SavedConf
<1>8. HostingTypeOK'
  <2>1. /\ cfg' \in Conf \cup {None} /\ auto' \in BOOLEAN /\ (auto' = TRUE => cfg' \in Conf)
        /\ keyFile' \in Nat \cup {Torn} /\ certFile' \in Certificate \cup {None, Torn}
        /\ serving' \in Conf \cup {None} /\ keys' \in Nat /\ readErrors' \in Nat
    BY <1>1 DEF HostingInv, HostingTypeOK
  <2>2. conFile' \in SavedConf /\ (conFile'.auto = TRUE => conFile'.conf \in Conf)
    BY <1>1, <1>7, <2>1
  <2>3. QED
    BY <1>1, <1>3, <1>6, <2>1, <2>2 DEF HostingTypeOK, PcType, ArgType, TaskType
<1>9. SocketsFit' /\ CertificateFits' /\ PinsSound'
  BY <1>1, <1>2 DEF HostingInv, ListenersSound, SocketsFit, CertificateFits, PinsSound
<1>10. WishKept'
  <2>1. InMemory'
    <3>1. CASE task[c] = "stop"
      BY <1>1, <1>4, <1>5, <3>1, HostingConstants DEF InMemory
    <3>2. CASE task[c] # "stop" /\ wanted' # "?"
      <4>1. wanted' = arg[c] /\ wanted' \in Conf /\ wanted' # None
        BY <1>4, <1>5, <3>2, HostingConstants
      <4>2. QED
        BY <1>1, <1>5, <3>2, <4>1 DEF InMemory
    <3>3. CASE wanted' = "?"
      BY <3>3, HostingConstants DEF InMemory
    <3>4. QED
      BY <3>1, <3>2, <3>3
  <2>2. OnDisk'
    <3>1. wanted' \in Conf => wanted' = cfg /\ auto = TRUE
      BY <1>4, <1>5, HostingConstants
    <3>2. wanted' = None => auto = FALSE
      BY <1>4, <1>5, HostingConstants
    <3>3. wanted' \in Conf => conFile' = [conf |-> wanted', auto |-> TRUE]
      BY <1>1, <3>1
    <3>4. wanted' = None => conFile'.auto = FALSE
      BY <1>7, <3>2
    <3>5. QED
      BY <3>3, <3>4 DEF OnDisk
  <2>3. QED
    BY <2>1, <2>2 DEF WishKept
<1>11. QED
  BY <1>3, <1>8, <1>9, <1>10 DEF HostingInv

(***************************************************************************)
(* A save that fails: the wish is in memory, and the disk is as it was or  *)
(* cut off; nothing is claimed of it if it should have changed.            *)
(***************************************************************************)
LEMMA SaveFailsPreservesInv ==
  ASSUME HostingInv, NEW c \in Caller, SaveFails(c)
  PROVE  HostingInv'
<1>1. /\ pc[c] \in Saving /\ pc[c] \in Starting \cup Saving /\ Done(c)
      /\ UNCHANGED <<cfg, auto, conFile, keyFile, certFile, listening, serving, shown, keys, pins,
                     readErrors>>
  BY DEF SaveFails, Returned, disk, hostVars, Saving
<1>2. lock = c /\ c # None /\ CallSound(c) /\ ListenersSound(c)
  BY <1>1, HolderIs
<1>3. /\ MutexSound' /\ HolderSound' /\ PcType' /\ ArgType' /\ TaskType'
      /\ lock' = None /\ booted' \in BOOLEAN
  BY <1>1, <1>2, ReturnSound DEF HostingInv
<1>4. /\ task[c] = "start" => wanted' = arg[c] /\ unsaved' = TRUE
      /\ task[c] = "stop" => wanted' = None /\ unsaved' = TRUE
      /\ task[c] = "boot" => wanted' = wanted /\ unsaved' = unsaved
  BY DEF SaveFails, Returned
<1>5. /\ task[c] \in {"start", "stop", "boot"}
      /\ task[c] # "stop" => arg[c] \in Conf /\ cfg = arg[c] /\ auto = TRUE /\ serving = arg[c]
      /\ task[c] = "stop" => auto = FALSE /\ serving = None
      /\ task[c] = "boot" /\ wanted # "?" => wanted = arg[c]
  BY <1>1, <1>2 DEF CallSound
<1>6. wanted' \in Conf \cup {None, "?"} /\ unsaved' \in BOOLEAN
  BY <1>4, <1>5 DEF HostingInv, HostingTypeOK
<1>7. HostingTypeOK'
  BY <1>1, <1>3, <1>6 DEF HostingInv, HostingTypeOK, PcType, ArgType, TaskType
<1>8. SocketsFit' /\ CertificateFits' /\ PinsSound'
  BY <1>1, <1>2 DEF HostingInv, ListenersSound, SocketsFit, CertificateFits, PinsSound
<1>9. WishKept'
  <2>1. SUFFICES ASSUME wanted' # "?" PROVE InMemory' /\ OnDisk'
    BY DEF WishKept
  <2>2. InMemory'
    <3>1. CASE task[c] = "stop"
      BY <1>1, <1>4, <1>5, <3>1, HostingConstants DEF InMemory
    <3>2. CASE task[c] # "stop"
      <4>1. wanted' = arg[c] /\ wanted' \in Conf /\ wanted' # None
        BY <1>4, <1>5, <2>1, <3>2, HostingConstants
      <4>2. QED
        BY <1>1, <1>5, <3>2, <4>1 DEF InMemory
    <3>3. QED
      BY <3>1, <3>2
  <2>3. OnDisk'
    <3>1. CASE task[c] = "boot"
      <4>1. wanted' = wanted /\ unsaved' = unsaved /\ conFile' = conFile /\ lock' = None
        BY <1>1, <1>3, <1>4, <3>1
      <4>2. OnDisk /\ task[lock] = "boot"
        BY <1>2, <2>1, <3>1, <4>1 DEF HostingInv, WishKept
      <4>3. QED
        BY <4>1, <4>2 DEF OnDisk
    <3>2. CASE task[c] # "boot"
      BY <1>4, <1>5, <3>2 DEF OnDisk
    <3>3. QED
      BY <3>1, <3>2
  <2>4. QED
    BY <2>2, <2>3
<1>10. QED
  BY <1>3, <1>7, <1>8, <1>9 DEF HostingInv

(***************************************************************************)
(* Another process: memory is what is read from the disk, and a wish that  *)
(* is still settled was there.                                             *)
(***************************************************************************)
LEMMA RestartPreservesInv ==
  ASSUME HostingInv, Restart
  PROVE  HostingInv'
<1>1. /\ cfg' = Loaded.conf /\ auto' = Loaded.auto
      /\ listening' = {} /\ serving' = None /\ shown' = None
      /\ lock' = None /\ booted' = FALSE
      /\ pc' = [c \in Caller |-> "idle"]
      /\ arg' = [c \in Caller |-> None]
      /\ task' = [c \in Caller |-> "none"]
      /\ unsaved' = FALSE
      /\ UNCHANGED <<conFile, keyFile, certFile, keys, pins, readErrors>>
  BY DEF Restart, HostStop, disk
<1>2. /\ Loaded \in SavedConf /\ (Loaded.auto = TRUE => Loaded.conf \in Conf)
      /\ conFile \notin {None, Torn} => Loaded = conFile
      /\ conFile = None => Loaded.auto = FALSE
  <2>1. CASE conFile \in {None, Torn}
    <3>1. Loaded = [conf |-> None, auto |-> FALSE]
      BY <2>1 DEF Loaded
    <3>2. QED
      BY <2>1, <3>1 DEF SavedConf
  <2>2. CASE conFile \notin {None, Torn}
    <3>1. Loaded = conFile /\ conFile \in SavedConf
      BY <2>2 DEF Loaded, HostingInv, HostingTypeOK
    <3>2. QED
      BY <2>2, <3>1 DEF HostingInv, HostingTypeOK
  <2>3. QED
    BY <2>1, <2>2
<1>3. wanted' # "?" => /\ wanted' = wanted /\ conFile # Torn /\ ~unsaved
                       /\ \A c \in Caller : task[c] \notin {"start", "stop"}
  BY DEF Restart
<1>4. wanted' \in Conf \cup {None, "?"}
  BY <1>3 DEF HostingInv, HostingTypeOK
<1>5. HostingTypeOK'
  <2>1. cfg' \in Conf \cup {None} /\ auto' \in BOOLEAN /\ (auto' = TRUE => cfg' \in Conf)
    BY <1>1, <1>2 DEF SavedConf
  <2>2. /\ conFile' \in SavedConf \cup {None, Torn}
        /\ conFile' \in SavedConf => (conFile'.auto = TRUE => conFile'.conf \in Conf)
        /\ keyFile' \in Nat \cup {Torn} /\ certFile' \in Certificate \cup {None, Torn}
        /\ keys' \in Nat /\ readErrors' \in Nat
    BY <1>1 DEF HostingInv, HostingTypeOK
  <2>3. PcType' /\ ArgType' /\ TaskType'
    BY <1>1 DEF PcType, ArgType, TaskType
  <2>4. QED
    BY <1>1, <1>4, <2>1, <2>2, <2>3 DEF HostingTypeOK, PcType, ArgType, TaskType
<1>6. MutexSound' /\ HolderSound'
  BY <1>1, HostingConstants DEF MutexSound, HolderSound, Starting, Saving, KeySteps
<1>7. SocketsFit' /\ CertificateFits' /\ PinsSound'
  BY <1>1 DEF HostingInv, SocketsFit, CertificateFits, PinsSound
<1>8. WishKept'
  <2>1. SUFFICES ASSUME wanted' # "?" PROVE InMemory' /\ OnDisk'
    BY DEF WishKept
  <2>2. lock # None => task[lock] = "boot"
    <3>1. SUFFICES ASSUME lock # None PROVE task[lock] = "boot"
      OBVIOUS
    <3>2. lock \in Caller
      BY <3>1 DEF HostingInv, HostingTypeOK
    <3>3. task[lock] \in {"start", "stop", "boot"}
      BY <3>2 DEF HostingInv, HolderSound, CallSound
    <3>4. QED
      BY <1>3, <2>1, <3>2, <3>3
  <2>3. /\ wanted \in Conf => conFile = [conf |-> wanted, auto |-> TRUE]
        /\ wanted = None => conFile = None \/ conFile.auto = FALSE
    BY <1>3, <2>1, <2>2 DEF HostingInv, WishKept, OnDisk
  <2>4. OnDisk'
    BY <1>1, <1>3, <2>1, <2>3 DEF OnDisk
  <2>5. wanted \in Conf => cfg' = wanted /\ auto' = TRUE
    <3>1. SUFFICES ASSUME wanted \in Conf PROVE cfg' = wanted /\ auto' = TRUE
      OBVIOUS
    <3>2. conFile = [conf |-> wanted, auto |-> TRUE]
      BY <2>3, <3>1
    <3>3. conFile \in SavedConf
      BY <3>1, <3>2 DEF SavedConf
    <3>4. conFile \notin {None, Torn}
      BY <3>3, HostingConstants
    <3>5. Loaded = [conf |-> wanted, auto |-> TRUE]
      BY <1>2, <3>2, <3>4
    <3>6. QED
      BY <1>1, <3>5
  <2>6. wanted = None => auto' = FALSE
    <3>1. SUFFICES ASSUME wanted = None PROVE Loaded.auto = FALSE
      BY <1>1
    <3>2. CASE conFile = None
      BY <1>2, <3>2
    <3>3. CASE conFile # None
      BY <1>2, <1>3, <2>1, <2>3, <3>1, <3>3
    <3>4. QED
      BY <3>2, <3>3
  <2>7. InMemory'
    BY <1>1, <1>3, <2>1, <2>5, <2>6 DEF InMemory
  <2>8. QED
    BY <2>4, <2>7
<1>9. QED
  BY <1>5, <1>6, <1>7, <1>8 DEF HostingInv

-------------------------------------------------------------------------------
(* The theorems *)

LEMMA InitSound ==
  ASSUME Init
  PROVE  HostingInv
<1>1. HostingTypeOK
  <2>1. PcType /\ ArgType /\ TaskType
    BY DEF Init, PcType, ArgType, TaskType
  <2>2. None \notin SavedConf
    BY HostingConstants
  <2>3. QED
    BY <2>1, <2>2 DEF Init, HostingTypeOK, PcType, ArgType, TaskType
<1>2. MutexSound /\ HolderSound
  BY HostingConstants DEF Init, MutexSound, HolderSound, Starting, Saving, KeySteps
<1>3. SocketsFit /\ CertificateFits /\ PinsSound
  BY DEF Init, SocketsFit, CertificateFits, PinsSound
<1>4. WishKept
  BY HostingConstants DEF Init, WishKept, InMemory, OnDisk
<1>5. QED
  BY <1>1, <1>2, <1>3, <1>4 DEF HostingInv

(***************************************************************************)
(* The invariant holds in every reachable state.                           *)
(***************************************************************************)
THEOREM HostingSound == Spec => []HostingInv
<1>1. Init => HostingInv
  BY InitSound
<1>2. HostingInv /\ [Next]_vars => HostingInv'
  <2>1. SUFFICES ASSUME HostingInv, [Next]_vars PROVE HostingInv'
    OBVIOUS
  <2>2. CASE Restart
    BY <2>1, <2>2, RestartPreservesInv
  <2>3. ASSUME NEW c \in Caller,
               (\E k \in Conf : StartInvalid(c, k) \/ Start(c, k)) \/ Stop(c)
        PROVE  HostingInv'
    BY <2>1, <2>3, RequestsPreserveInv
  <2>4. ASSUME NEW c \in Caller, AutoStartRead(c) \/ AutoStartStart(c) PROVE HostingInv'
    BY <2>1, <2>4, AutoStartPreservesInv
  <2>5. ASSUME NEW c \in Caller, StepFails(c) \/ KeyUnusable(c) PROVE HostingInv'
    BY <2>1, <2>5, FailuresPreserveInv
  <2>6. ASSUME NEW c \in Caller, LoadKey(c) \/ CreateKey(c) \/ FillKey(c) PROVE HostingInv'
    BY <2>1, <2>6, KeyPreservesInv
  <2>7. ASSUME NEW c \in Caller, KeepCert(c) \/ IssueCert(c) \/ FillCert(c) PROVE HostingInv'
    BY <2>1, <2>7, CertPreservesInv
  <2>8. ASSUME NEW c \in Caller,
               ListenRelay(c) \/ ListenControl(c) \/ SaveBegin(c) \/ SaveEnd(c) \/ SaveFails(c)
        PROVE  HostingInv'
    BY <2>1, <2>8, ListenRelayPreservesInv, ListenControlPreservesInv, SaveBeginPreservesInv,
       SaveEndPreservesInv, SaveFailsPreservesInv
  <2>9. CASE UNCHANGED vars
    BY <2>1, <2>9, NothingChanged DEF vars, disk, hostVars, callVars, bounds
  <2>10. QED
    BY <2>1, <2>2, <2>3, <2>4, <2>5, <2>6, <2>7, <2>8, <2>9 DEF Next
<1>3. QED
  BY <1>1, <1>2, PTL DEF Spec

(***************************************************************************)
(* Host.Start and Host.Stop leave the sockets of what is served and no     *)
(* others, whichever step of a start fails.                                *)
(***************************************************************************)
THEOREM SocketsCorrect == Spec => []SocketsMatch
<1>1. HostingInv => SocketsMatch
  BY DEF HostingInv, SocketsFit, SocketsMatch
<1>2. QED
  BY <1>1, HostingSound, PTL

(***************************************************************************)
(* The certificate clients are shown is of the pinned key and covers the   *)
(* names, whatever interrupted writes left on disk.                        *)
(***************************************************************************)
THEOREM CertificateCorrect == Spec => []CertificateFits
<1>1. HostingInv => CertificateFits
  BY DEF HostingInv
<1>2. QED
  BY <1>1, HostingSound, PTL

(***************************************************************************)
(* The pin of an installation never changes while its key file can be      *)
(* read: loadOrCreateKey makes at most one key.                            *)
(***************************************************************************)
THEOREM PinCorrect == Spec => []PinStable
<1>1. HostingInv => PinStable
  <2>1. SUFFICES ASSUME HostingInv, readErrors = 0 PROVE Cardinality(pins) <= 1
    BY DEF PinStable
  <2>2. pins \subseteq {1}
    BY <2>1 DEF HostingInv, PinsSound
  <2>3. IsFiniteSet({1}) /\ Cardinality({1}) = 1
    BY FS_Singleton
  <2>4. QED
    BY <2>2, <2>3, FS_Subset
<1>2. QED
  BY <1>1, HostingSound, PTL

(***************************************************************************)
(* Whenever no call is running, the network last started without an error  *)
(* is served, and none after a stop, however often the machine was         *)
(* restarted in between.                                                   *)
(***************************************************************************)
THEOREM OperatorCorrect == Spec => []OperatorObeyed
<1>1. HostingInv => OperatorObeyed
  <2>1. SUFFICES ASSUME HostingInv, lock = None, booted
                 PROVE  (wanted \in Conf => serving = wanted) /\ (wanted = None => serving = None)
    BY DEF OperatorObeyed, Idle
  <2>2. booted = TRUE
    BY <2>1 DEF HostingInv, HostingTypeOK
  <2>3. (wanted \in Conf \/ wanted = None) => wanted # "?"
    BY HostingConstants
  <2>4. QED
    BY <2>1, <2>2, <2>3 DEF HostingInv, WishKept, InMemory
<1>2. QED
  BY <1>1, HostingSound, PTL

-------------------------------------------------------------------------------
(* The addresses a server hands out *)

(***************************************************************************)
(* What clients are told is a function of the setup.                       *)
(***************************************************************************)
AddressInv ==
  /\ setup \in Setup
  /\ handed # Untyped => handed = [join |-> JoinURL(setup), relay |-> relayPublic(setup)]

\* With TLS from a CA there is a domain, and only with "off" there is no TLS.
LEMMA TLSModes ==
  ASSUME NEW s \in Setup
  PROVE  /\ TLSMode(s) \in {"off", "self", "acme"}
         /\ TLSMode(s) = "off" <=> s.tls = "off"
         /\ TLSMode(s) = "acme" => s.domain \in NameHost /\ Domain(s) = s.domain /\ s.domain # Untyped
  BY AddressConstants DEF Setup, TLSMode, Domain

\* The address a client dials: its host and, on TLS, its port.
LEMMA JoinTarget ==
  ASSUME NEW s \in Setup
  PROVE  LET at == JoinURL(s).at IN
         /\ at.host # AnyHost
         /\ at.port \in Port \cup {NoPort}
         /\ at.port # NoPort => at.port = PortFor(s.public, s.control)
         /\ at.port = NoPort => PortFor(s.public, s.control) = 443 /\ s.control.port = 443
         /\ s.public # Untyped => at.host = s.public.host
         /\ s.public = Untyped /\ Domain(s) # Untyped => at.host = Domain(s)
<1> DEFINE at == JoinURL(s).at
<1>1. at = IF s.public # Untyped THEN ensurePort(s.public, s.control)
           ELSE IF Domain(s) # Untyped THEN withPort(Domain(s), s.control)
           ELSE localAddr(s.control)
  BY DEF JoinURL
<1> HIDE DEF at
<1>2. /\ s.control \in Bound /\ s.public \in Typed \cup {Untyped}
      /\ Domain(s) # Untyped => Domain(s) \in NameHost
  BY DEF Setup, Domain
<1>3. s.control.port \in Port /\ s.control.port # NoPort
  BY <1>2, AddressConstants DEF Bound
<1>4. CASE s.public # Untyped
  <2>1. s.public \in Typed /\ s.public.host # AnyHost /\ s.public.port \in Port \cup {NoPort}
    BY <1>2, <1>4, AddressConstants DEF Typed
  <2>2. at = ensurePort(s.public, s.control)
    BY <1>1, <1>4
  <2>3. QED
    BY <1>3, <1>4, <2>1, <2>2 DEF ensurePort, withPort, PortFor, at
<1>5. CASE s.public = Untyped /\ Domain(s) # Untyped
  <2>1. at = withPort(Domain(s), s.control)
    BY <1>1, <1>5
  <2>2. Domain(s) # AnyHost
    BY <1>2, <1>5, AddressConstants
  <2>3. QED
    BY <1>3, <1>5, <2>1, <2>2 DEF withPort, PortFor, at
<1>6. CASE s.public = Untyped /\ Domain(s) = Untyped
  <2>1. at = localAddr(s.control)
    BY <1>1, <1>6
  <2>2. at.port = s.control.port
    BY <1>2, <2>1 DEF localAddr, Bound
  <2>3. at.host # AnyHost
    BY <1>2, <2>1, AddressConstants DEF localAddr, Bound
  <2>4. QED
    BY <1>3, <1>6, <2>2, <2>3 DEF PortFor, at
<1>7. QED
  BY <1>4, <1>5, <1>6

LEMMA JoinWorks == AddressInv => JoinAddressWorks
<1> SUFFICES ASSUME AddressInv, handed # Untyped PROVE JoinAddressWorks
  BY DEF JoinAddressWorks
<1> DEFINE s == setup
           u == JoinURL(s)
<1>1. s \in Setup /\ handed.join = u
  BY DEF AddressInv
<1>2. /\ u.scheme = (IF TLSMode(s) = "off" THEN "http" ELSE "https")
      /\ u.pinned = (TLSMode(s) = "self")
  BY DEF JoinURL
<1>3. /\ u.at.host # AnyHost
      /\ u.at.port # NoPort => u.at.port = PortFor(s.public, s.control)
      /\ u.at.port = NoPort => PortFor(s.public, s.control) = 443 /\ s.control.port = 443
      /\ s.public # Untyped => u.at.host = s.public.host
      /\ s.public = Untyped /\ Domain(s) # Untyped => u.at.host = Domain(s)
  BY <1>1, JoinTarget
<1>4. /\ TLSMode(s) \in {"off", "self", "acme"}
      /\ TLSMode(s) = "off" <=> s.tls = "off"
      /\ TLSMode(s) = "acme" => Domain(s) = s.domain /\ s.domain # Untyped
  BY <1>1, TLSModes
<1> HIDE DEF s, u
<1>5. \/ s.tls = "off" /\ s.control.port = 443
      \/ DialledPort(u) = PortFor(s.public, s.control)
  BY <1>2, <1>3, <1>4 DEF DialledPort
<1>6. u.scheme = "https" <=> TLSMode(s) # "off"
  BY <1>2
<1>7. \/ TLSMode(s) = "acme" /\ s.public # Untyped /\ s.public.host # s.domain
      \/ HTTPClientTrusts(u, s)
  <2>1. CASE TLSMode(s) = "self"
    BY <1>2, <2>1 DEF HTTPClientTrusts
  <2>2. CASE TLSMode(s) = "off"
    BY <1>2, <2>2 DEF HTTPClientTrusts
  <2>3. CASE TLSMode(s) = "acme"
    <3>1. u.scheme = "https" /\ u.pinned = FALSE
      BY <1>2, <2>3
    <3>2. u.at.host = (IF s.public # Untyped THEN s.public.host ELSE s.domain)
      BY <1>3, <1>4, <2>3
    <3>3. HTTPClientTrusts(u, s) <=> u.at.host = s.domain
      BY <2>3, <3>1 DEF HTTPClientTrusts
    <3>4. QED
      BY <2>3, <3>2, <3>3
  <2>4. QED
    BY <1>4, <2>1, <2>2, <2>3
<1>8. QED
  BY <1>1, <1>3, <1>5, <1>6, <1>7 DEF JoinAddressWorks, s

LEMMA RelayWorks == AddressInv => RelayAddressWorks
<1> SUFFICES ASSUME AddressInv, handed # Untyped,
                    RelayTarget # Untyped => RelayTarget.host \in IpHost,
                    ~(setup.relayPublic # Untyped /\ setup.relay.port = 443)
             PROVE  /\ NewRelayAccepts(handed.relay)
                    /\ handed.relay.port = PortFor(setup.relayPublic, setup.relay)
  BY DEF RelayAddressWorks
<1> DEFINE s == setup
<1>1. s \in Setup /\ handed.relay = relayPublic(s)
  BY DEF AddressInv
<1>2. /\ s.relay \in Bound /\ s.relay.port \in Port /\ s.relay.port # NoPort
      /\ s.relayPublic \in Typed \cup {Untyped}
  BY <1>1, AddressConstants DEF Setup, Bound
<1>3. CASE s.relayPublic # Untyped
  <2>1. s.relayPublic \in Typed /\ s.relayPublic.host \in IpHost /\ s.relay.port # 443
    BY <1>2, <1>3 DEF RelayTarget
  <2>2. handed.relay = ensurePort(s.relayPublic, s.relay)
    BY <1>1, <1>3 DEF relayPublic
  <2>3. QED
    BY <1>2, <1>3, <2>1, <2>2 DEF ensurePort, withPort, PortFor, NewRelayAccepts, Typed
<1>4. CASE s.relayPublic = Untyped /\ s.public # Untyped
  <2>1. s.public.host \in IpHost
    BY <1>4 DEF RelayTarget
  <2>2. handed.relay = [host |-> s.public.host, port |-> s.relay.port]
    BY <1>1, <1>4 DEF relayPublic
  <2>3. QED
    BY <1>2, <1>4, <2>1, <2>2 DEF PortFor, NewRelayAccepts
<1>5. CASE s.relayPublic = Untyped /\ s.public = Untyped
  <2>1. handed.relay = localAddr(s.relay)
    BY <1>1, <1>5 DEF relayPublic
  <2>2. handed.relay.port = s.relay.port
    BY <1>2, <2>1 DEF localAddr, Bound
  <2>3. handed.relay.host \in IpHost
    BY <1>2, <2>1, AddressConstants DEF localAddr, Bound
  <2>4. QED
    BY <1>2, <1>5, <2>2, <2>3 DEF PortFor, NewRelayAccepts
<1>6. QED
  BY <1>3, <1>4, <1>5

(***************************************************************************)
(* Whatever the operator typed and whatever the listeners are bound to,    *)
(* clients can use the addresses they are told, but for the exceptions the *)
(* property names.                                                         *)
(***************************************************************************)
THEOREM AddressesCorrect == AddressSpec => []AddressesWork
<1>1. AddressInit => AddressInv
  BY DEF AddressInit, AddressInv
<1>2. AddressInv /\ [HandOut]_addressVars => AddressInv'
  <2> SUFFICES ASSUME AddressInv, [HandOut]_addressVars PROVE AddressInv'
    OBVIOUS
  <2>1. CASE HandOut
    BY <2>1 DEF AddressInv, HandOut, JoinURL, relayPublic, TLSMode, Domain
  <2>2. CASE UNCHANGED addressVars
    BY <2>2 DEF AddressInv, addressVars, JoinURL, relayPublic, TLSMode, Domain
  <2>3. QED
    BY <2>1, <2>2
<1>3. AddressInv => AddressesWork
  BY JoinWorks, RelayWorks DEF AddressesWork
<1>4. QED
  BY <1>1, <1>2, <1>3, PTL DEF AddressSpec

-------------------------------------------------------------------------------
(* The table of join tokens *)

TokensTypeOK ==
  /\ groupTokens \in [DOMAIN groupTokens -> RawToken] /\ DOMAIN groupTokens \subseteq Spelling
  /\ defaultToken \in RawToken
  /\ todo \subseteq DOMAIN groupTokens
  /\ table \in [JoinToken -> Group \cup {NoGroup}]
  /\ status \in {"default", "groups", "ok", "error"}

\* Group g has been added, and claims token t.
Entered(g, t) == g \in DOMAIN groupTokens \ todo /\ groupTokens[g] = t

\* The default group has been added, and claims token t.
DefaultEntered(t) == status # "default" /\ defaultToken = t

(***************************************************************************)
(* The table so far: a token in it is claimed, by its group and by no      *)
(* other that has been added; a token that is not is claimed by none.      *)
(***************************************************************************)
TableSoFar ==
  \A t \in JoinToken :
    /\ table[t] # NoGroup => \/ DefaultEntered(t) /\ table[t] = DefaultGroup
                            \/ \E g \in Spelling : Entered(g, t) /\ table[t] = GroupOrDefault(g)
    /\ DefaultEntered(t) => table[t] = DefaultGroup
    /\ \A g \in Spelling : Entered(g, t) => table[t] = GroupOrDefault(g)

TokensInv ==
  /\ TokensTypeOK /\ TableSoFar
  /\ status = "default" => todo = DOMAIN groupTokens
  /\ status = "ok" => todo = {}
  /\ status = "error" => \E t \in JoinToken : \E g, h \in Claims(t) : g # h

LEMMA GroupsNormal ==
  /\ Group \subseteq Spelling /\ NoGroup \notin Group
  /\ \A g \in Group : normalize[g] = g
  /\ \A g \in Spelling : GroupOrDefault(g) \in Group
  /\ GroupOrDefault(DefaultGroup) = DefaultGroup
<1>1. Group \subseteq Spelling /\ NoGroup \notin Group
  BY AclConstants, JoinTokenConstants DEF Group
<1>2. \A g \in Group : normalize[g] = g /\ g # Blank
  BY AclConstants DEF Group
<1>3. \A g \in Spelling : GroupOrDefault(g) \in Group
  BY JoinTokenConstants DEF GroupOrDefault, Group
<1>4. GroupOrDefault(DefaultGroup) = DefaultGroup
  BY <1>2, JoinTokenConstants DEF GroupOrDefault
<1>5. QED
  BY <1>1, <1>2, <1>3, <1>4

LEMMA TokensInitSound == TokensInit => TokensInv
<1> SUFFICES ASSUME TokensInit PROVE TokensInv
  OBVIOUS
<1>1. PICK gs \in SUBSET Spelling : groupTokens \in [gs -> RawToken]
  BY DEF TokensInit
<1>2. TokensTypeOK
  BY <1>1 DEF TokensInit, TokensTypeOK
<1>3. TableSoFar
  BY DEF TokensInit, TableSoFar, DefaultEntered, Entered
<1>4. QED
  BY <1>2, <1>3 DEF TokensInit, TokensInv

LEMMA AddDefaultSound ==
  ASSUME TokensInv, AddDefault
  PROVE  TokensInv'
<1>1. /\ status = "default" /\ status' = "groups"
      /\ UNCHANGED <<defaultToken, groupTokens, todo>> /\ Add(DefaultGroup, defaultToken)
  BY DEF AddDefault
<1>2. \A t \in JoinToken : table[t] = NoGroup
  BY <1>1 DEF TokensInv, TableSoFar, DefaultEntered, Entered
<1>3. \A t \in JoinToken : table'[t] = IF defaultToken = t THEN DefaultGroup ELSE NoGroup
  BY <1>1, <1>2, GroupsNormal, JoinTokenConstants DEF Add, TokensInv, TokensTypeOK, RawToken
<1>4. TokensTypeOK'
  BY <1>1, GroupsNormal, JoinTokenConstants DEF TokensInv, TokensTypeOK, Add, RawToken
<1>5. TableSoFar'
  <2>1. \A g, t : ~Entered(g, t)'
    BY <1>1 DEF TokensInv, Entered
  <2>2. \A t \in JoinToken : DefaultEntered(t)' <=> defaultToken = t
    BY <1>1 DEF DefaultEntered
  <2>3. QED
    BY <1>3, <2>1, <2>2 DEF TableSoFar
<1>6. QED
  BY <1>1, <1>4, <1>5 DEF TokensInv

LEMMA AddGroupSound ==
  ASSUME TokensInv, NEW g \in todo, AddGroup(g)
  PROVE  TokensInv'
<1> DEFINE tok == groupTokens[g]
<1>1. /\ status = "groups" /\ ~Shared(g, tok) /\ Add(g, tok) /\ todo' = todo \ {g}
      /\ UNCHANGED <<defaultToken, groupTokens, status>>
  BY DEF AddGroup
<1>2. g \in Spelling /\ g \in DOMAIN groupTokens /\ tok \in RawToken
  BY DEF TokensInv, TokensTypeOK
<1>3. GroupOrDefault(g) \in Group /\ GroupOrDefault(g) # NoGroup
  BY <1>2, GroupsNormal
<1>4. TokensTypeOK'
  BY <1>1, <1>2, <1>3 DEF TokensInv, TokensTypeOK, Add, RawToken
<1>5. \A t \in JoinToken : table'[t] = IF t = tok THEN GroupOrDefault(g) ELSE table[t]
  BY <1>1, <1>2, JoinTokenConstants DEF Add, TokensInv, TokensTypeOK, RawToken
<1>6. tok \in JoinToken => table[tok] = NoGroup \/ table[tok] = GroupOrDefault(g)
  BY <1>1, JoinTokenConstants DEF Shared
<1>7. \A h, t : Entered(h, t)' <=> Entered(h, t) \/ (h = g /\ t = tok)
  BY <1>1, <1>2 DEF Entered
<1>8. \A t : DefaultEntered(t)' <=> DefaultEntered(t)
  BY <1>1 DEF DefaultEntered
<1> HIDE DEF tok
<1>9. TableSoFar'
  <2>1. SUFFICES ASSUME NEW t \in JoinToken
        PROVE  /\ table'[t] # NoGroup =>
                    \/ DefaultEntered(t)' /\ table'[t] = DefaultGroup
                    \/ \E h \in Spelling : Entered(h, t)' /\ table'[t] = GroupOrDefault(h)
               /\ DefaultEntered(t)' => table'[t] = DefaultGroup
               /\ \A h \in Spelling : Entered(h, t)' => table'[t] = GroupOrDefault(h)
    BY DEF TableSoFar, GroupOrDefault
  <2>2. /\ table[t] # NoGroup =>
             \/ DefaultEntered(t) /\ table[t] = DefaultGroup
             \/ \E h \in Spelling : Entered(h, t) /\ table[t] = GroupOrDefault(h)
        /\ DefaultEntered(t) => table[t] = DefaultGroup
        /\ \A h \in Spelling : Entered(h, t) => table[t] = GroupOrDefault(h)
    BY DEF TokensInv, TableSoFar
  <2>3. CASE t # tok
    BY <1>5, <1>7, <1>8, <2>2, <2>3
  <2>4. CASE t = tok
    <3>1. table'[t] = GroupOrDefault(g) /\ Entered(g, t)'
      BY <1>5, <1>7, <2>4
    <3>2. DefaultEntered(t) => GroupOrDefault(g) = DefaultGroup
      <4>1. DefaultGroup # NoGroup
        BY GroupsNormal, JoinTokenConstants
      <4>2. QED
        BY <1>6, <2>2, <2>4, <4>1
    <3>3. \A h \in Spelling : Entered(h, t) => GroupOrDefault(h) = GroupOrDefault(g)
      BY <1>6, <2>2, <2>4, GroupsNormal
    <3>4. QED
      BY <1>2, <1>7, <1>8, <2>4, <3>1, <3>2, <3>3
  <2>5. QED
    BY <2>3, <2>4
<1>10. QED
  BY <1>1, <1>4, <1>9 DEF TokensInv

LEMMA RejectSound ==
  ASSUME TokensInv, NEW g \in todo, RejectGroup(g)
  PROVE  TokensInv'
<1> DEFINE tok == groupTokens[g]
<1>1. /\ status = "groups" /\ Shared(g, tok) /\ status' = "error"
      /\ UNCHANGED <<defaultToken, groupTokens, todo, table>>
  BY DEF RejectGroup
<1>2. g \in Spelling /\ g \in DOMAIN groupTokens /\ tok \in JoinToken
  BY <1>1 DEF TokensInv, TokensTypeOK, RawToken, Shared
<1>3. table[tok] # NoGroup /\ table[tok] # GroupOrDefault(g)
  BY <1>1 DEF Shared
<1>4. GroupOrDefault(g) \in Claims(tok)
  BY <1>2 DEF Claims
<1>5. table[tok] \in Claims(tok)
  BY <1>2, <1>3 DEF TokensInv, TableSoFar, Claims, DefaultEntered, Entered
<1>6. (\E t \in JoinToken : \E h, k \in Claims(t) : h # k)'
  <2>1. \A t : Claims(t)' = Claims(t)
    BY <1>1 DEF Claims, GroupOrDefault
  <2>2. PICK t \in JoinToken : t = groupTokens[g]
    BY <1>2
  <2>3. \E h, k \in Claims(t) : h # k
    BY <1>3, <1>4, <1>5, <2>2
  <2>4. \E u \in JoinToken : \E h, k \in Claims(u) : h # k
    BY <2>3
  <2>5. QED
    BY <2>1, <2>4
<1>7. TokensTypeOK' /\ TableSoFar'
  BY <1>1 DEF TokensInv, TokensTypeOK, TableSoFar, DefaultEntered, Entered, GroupOrDefault
<1>8. QED
  BY <1>1, <1>6, <1>7 DEF TokensInv

LEMMA TokensStep == TokensInv /\ [BuildJoinTokens]_tokenVars => TokensInv'
<1> SUFFICES ASSUME TokensInv, [BuildJoinTokens]_tokenVars PROVE TokensInv'
  OBVIOUS
<1>1. CASE TableDone
  BY <1>1 DEF TokensInv, TokensTypeOK, TableSoFar, DefaultEntered, Entered, GroupOrDefault, TableDone
<1>2. CASE UNCHANGED tokenVars
  BY <1>2 DEF TokensInv, TokensTypeOK, TableSoFar, DefaultEntered, Entered, GroupOrDefault,
     tokenVars, Claims
<1>3. QED
  BY <1>1, <1>2, AddDefaultSound, AddGroupSound, RejectSound DEF BuildJoinTokens

(***************************************************************************)
(* For any groups, spellings and tokens: the table is refused exactly when *)
(* two groups claim a token, and admits each token to the one group that   *)
(* claims it otherwise.                                                    *)
(***************************************************************************)
THEOREM TokensCorrect == TokensSpec => []AmbiguousTokensRejected
<1>1. TokensInv => AmbiguousTokensRejected
  <2> SUFFICES ASSUME TokensInv PROVE AmbiguousTokensRejected
    OBVIOUS
  <2>1. ASSUME status = "ok", NEW t \in JoinToken
        PROVE  Claims(t) = IF GroupOf(t) = NoGroup THEN {} ELSE {GroupOf(t)}
    <3>1. /\ \A g \in Spelling : Entered(g, t) <=> g \in DOMAIN groupTokens /\ groupTokens[g] = t
          /\ DefaultEntered(t) <=> defaultToken = t
      BY <2>1 DEF TokensInv, TokensTypeOK, Entered, DefaultEntered
    <3>2. table[t] \in Group \cup {NoGroup} /\ DOMAIN groupTokens \subseteq Spelling
      BY <2>1 DEF TokensInv, TokensTypeOK
    <3>3. GroupOf(t) = table[t]
      BY <2>1, <3>2, GroupsNormal, JoinTokenConstants DEF GroupOf
    <3>4. \A k \in Claims(t) : k = table[t] /\ k # NoGroup
      BY <3>1, <3>2, GroupsNormal, JoinTokenConstants DEF TokensInv, TableSoFar, Claims
    <3>5. table[t] # NoGroup => table[t] \in Claims(t)
      BY <3>1, <3>2 DEF TokensInv, TableSoFar, Claims
    <3>6. QED
      BY <3>3, <3>4, <3>5
  <2>2. GroupOf(NoToken) = NoGroup
    BY DEF GroupOf
  <2>3. QED
    BY <2>1, <2>2 DEF AmbiguousTokensRejected, TokensInv
<1>2. QED
  BY <1>1, TokensInitSound, TokensStep, PTL DEF TokensSpec
===============================================================================
