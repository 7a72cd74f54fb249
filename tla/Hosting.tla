-------------------------------- MODULE Hosting -------------------------------
(***************************************************************************)
(* The server side's life on a machine: the supervisor that an operator    *)
(* starts and stops a network with (server/supervisor/supervisor.go), the  *)
(* host that brings the listeners up (server/host/host.go), and what they  *)
(* keep on disk: the configuration (server/config/config.go) and the TLS   *)
(* key and certificate (server/tlsconf/selfsigned.go).                     *)
(*                                                                         *)
(* Start, Stop and Shutdown hold the supervisor's mutex throughout, so     *)
(* only the end of the process can come between their steps; AutoStart     *)
(* reads the configuration and calls Start without it in between.  Every   *)
(* file is written with os.WriteFile, which empties it before it fills it. *)
(***************************************************************************)
EXTENDS Integers, FiniteSets

CONSTANTS
  Conf,           \* configurations the operator starts
  Invalid,        \* those Valid refuses
  Mode,           \* Conf -> "off", "self" or "acme"
  San,            \* Conf -> names and addresses the certificate must cover
  Caller,         \* goroutines: requests, and AutoStart
  None, Torn,     \* nothing there, as a missing file; a file cut off in its writing
  MaxRequests,    \* bound: requests of the operator
  MaxFailures,    \* bound: steps of a start, and writes of the configuration, that fail
  MaxReadErrors,  \* bound: reads of the key file that fail though it exists
  MaxRuns         \* bound: times the process is started

VARIABLES
  cfg, auto,      \* Supervisor.cfg, and its AutoStart flag
  conFile,        \* the configuration on disk: [conf, auto], None or Torn
  keyFile,        \* server.key: a key, 0 when missing, Torn
  certFile,       \* server.crt: [key, sans], None or Torn
  listening,      \* sockets that are open: "relay", "control", "acme"
  serving,        \* the configuration served: httpSrv # nil
  shown,          \* what clients are shown: [pin, cert], or None
  lock,           \* who holds the supervisor's mutex
  booted,         \* AutoStart has returned
  pc, arg, task,
  keys,           \* keys generated so far
  pins,           \* pins ever given to clients
  wanted,         \* what the operator's last request left: a Conf, None or "?"
  unsaved,        \* the request's configuration could not be written
  requests, failures, readErrors, runs

disk     == <<conFile, keyFile, certFile>>
hostVars == <<listening, serving, shown>>
callVars == <<pc, arg, task>>
bounds   == <<requests, failures, readErrors, runs>>
vars == <<cfg, auto, disk, hostVars, lock, booted, callVars, keys, pins, wanted, unsaved, bounds>>

Certificate == [key : Nat, sans : {San[k] : k \in Conf}]
SavedConf   == [conf : Conf \cup {None}, auto : BOOLEAN]

ASSUME HostingConstants ==
  /\ Invalid \subseteq Conf
  /\ DOMAIN Mode = Conf /\ DOMAIN San = Conf
  /\ {None, "?"} \cap Conf = {} /\ None # "?" /\ None \notin Caller
  /\ Torn \notin Nat
  /\ {None, Torn} \cap (Certificate \cup SavedConf) = {}
  /\ MaxRequests \in Nat /\ MaxFailures \in Nat /\ MaxReadErrors \in Nat /\ MaxRuns \in Nat

Init ==
  /\ cfg = None /\ auto = FALSE
  /\ conFile = None /\ keyFile = 0 /\ certFile = None
  /\ listening = {} /\ serving = None /\ shown = None
  /\ lock = None
  /\ booted = FALSE
  /\ pc = [c \in Caller |-> "idle"]
  /\ arg = [c \in Caller |-> None]
  /\ task = [c \in Caller |-> "none"]
  /\ keys = 0 /\ pins = {}
  /\ wanted = None /\ unsaved = FALSE
  /\ requests = 0 /\ failures = 0 /\ readErrors = 0 /\ runs = 1

Goto(c, at) == pc' = [pc EXCEPT ![c] = at]

(***************************************************************************)
(* Host.Stop: every listener is closed.                                    *)
(***************************************************************************)
HostStop == listening' = {} /\ serving' = None /\ shown' = None

\* The call returns and lets go of the mutex.
Done(c) ==
  /\ lock' = None
  /\ pc' = [pc EXCEPT ![c] = "idle"]
  /\ arg' = [arg EXCEPT ![c] = None]
  /\ task' = [task EXCEPT ![c] = "none"]
  /\ booted' = (booted \/ task[c] = "boot")

-------------------------------------------------------------------------------
(* Requests *)

Request(c) ==
  /\ pc[c] = "idle"
  /\ requests < MaxRequests
  /\ requests' = requests + 1

(***************************************************************************)
(* Start: an invalid configuration is refused before the mutex; otherwise  *)
(* what runs is stopped first.                                             *)
(***************************************************************************)
StartInvalid(c, k) ==
  /\ Request(c)
  /\ k \in Invalid
  /\ UNCHANGED <<cfg, auto, disk, hostVars, lock, booted, callVars, keys, pins, wanted, unsaved,
                 failures, readErrors, runs>>

\* tlsconf.Build: only a self-signed certificate is looked after at once.
Build(c, k) == Goto(c, IF Mode[k] = "self" THEN "key" ELSE "relay")

EnterStart(c, k, t) ==
  /\ lock = None /\ lock' = c
  /\ HostStop
  /\ arg' = [arg EXCEPT ![c] = k]
  /\ task' = [task EXCEPT ![c] = t]
  /\ Build(c, k)
  /\ UNCHANGED <<cfg, auto, disk, booted, keys, pins, unsaved, failures, readErrors, runs>>

Start(c, k) ==
  /\ Request(c)
  /\ k \notin Invalid
  /\ EnterStart(c, k, "start")
  /\ UNCHANGED wanted

(***************************************************************************)
(* A step of Host.Start fails: the key or the certificate, also in the     *)
(* middle of being written, Split, the token table, or a listener; the     *)
(* relay is closed again if it was open.                                   *)
(***************************************************************************)
\* Slip: the relay stays open when the control listener fails.
FailLeakingRelay(c) ==
  /\ cfg' = arg[c] /\ auto' = TRUE
  /\ Done(c)
  /\ wanted' = "?"
  /\ UNCHANGED <<conFile, hostVars, keys, pins, unsaved>>

StartFails(c) ==
  /\ cfg' = arg[c] /\ auto' = TRUE
  /\ listening' = {}
  /\ Done(c)
  /\ wanted' = "?"
  /\ UNCHANGED <<conFile, serving, shown, keys, pins, unsaved>>

StepFails(c) ==
  /\ pc[c] \in {"key", "key fill", "cert", "cert fill", "relay", "control"}
  /\ failures < MaxFailures
  /\ failures' = failures + 1
  /\ StartFails(c)
  /\ UNCHANGED <<keyFile, certFile, requests, readErrors, runs>>

-------------------------------------------------------------------------------
(* selfSigned *)

(***************************************************************************)
(* loadOrCreateKey: any error of the read is taken for a missing file.     *)
(***************************************************************************)
LoadKey(c) ==
  /\ pc[c] = "key"
  /\ keyFile \notin {0, Torn}
  /\ Goto(c, "cert")
  /\ UNCHANGED <<cfg, auto, disk, hostVars, lock, booted, arg, task, keys, pins, wanted, unsaved,
                 bounds>>

KeyUnusable(c) ==
  /\ pc[c] = "key"
  /\ keyFile = Torn
  /\ StartFails(c)
  /\ UNCHANGED <<keyFile, certFile, bounds>>

\* Slip: a new key for every start.
CreateKeyAlways(c) ==
  /\ pc[c] = "key"
  /\ keys' = keys + 1
  /\ keyFile' = Torn
  /\ Goto(c, "key fill")
  /\ UNCHANGED <<cfg, auto, conFile, certFile, hostVars, lock, booted, arg, task, pins, wanted,
                 unsaved, bounds>>

CreateKey(c) ==
  /\ pc[c] = "key"
  /\ \/ keyFile = 0 /\ UNCHANGED readErrors
     \/ /\ keyFile # 0
        /\ readErrors < MaxReadErrors
        /\ readErrors' = readErrors + 1
  /\ keys' = keys + 1
  /\ keyFile' = Torn
  /\ Goto(c, "key fill")
  /\ UNCHANGED <<cfg, auto, conFile, certFile, hostVars, lock, booted, arg, task, pins, wanted,
                 unsaved, requests, failures, runs>>

FillKey(c) ==
  /\ pc[c] = "key fill"
  /\ keyFile' = keys
  /\ Goto(c, "cert")
  /\ UNCHANGED <<cfg, auto, conFile, certFile, hostVars, lock, booted, arg, task, keys, pins,
                 wanted, unsaved, bounds>>

(***************************************************************************)
(* certUsable: the same key, and every name covered (expiry, ten years on, *)
(* is left out).  Any other certificate is issued anew.                    *)
(***************************************************************************)
\* Slip: a certificate of another key is kept.
usableForNames(k) == certFile \notin {None, Torn} /\ San[k] \subseteq certFile.sans

certUsable(k) ==
  certFile \notin {None, Torn} /\ certFile.key = keyFile /\ San[k] \subseteq certFile.sans

KeepCert(c) ==
  /\ pc[c] = "cert"
  /\ certUsable(arg[c])
  /\ Goto(c, "relay")
  /\ UNCHANGED <<cfg, auto, disk, hostVars, lock, booted, arg, task, keys, pins, wanted, unsaved,
                 bounds>>

IssueCert(c) ==
  /\ pc[c] = "cert"
  /\ ~certUsable(arg[c])
  /\ certFile' = Torn
  /\ Goto(c, "cert fill")
  /\ UNCHANGED <<cfg, auto, conFile, keyFile, hostVars, lock, booted, arg, task, keys, pins,
                 wanted, unsaved, bounds>>

FillCert(c) ==
  /\ pc[c] = "cert fill"
  /\ certFile' = [key |-> keyFile, sans |-> San[arg[c]]]
  /\ Goto(c, "relay")
  /\ UNCHANGED <<cfg, auto, conFile, keyFile, hostVars, lock, booted, arg, task, keys, pins,
                 wanted, unsaved, bounds>>

-------------------------------------------------------------------------------
(* The rest of Host.Start *)

ListenRelay(c) ==
  /\ pc[c] = "relay"
  /\ listening' = listening \cup {"relay"}
  /\ Goto(c, "control")
  /\ UNCHANGED <<cfg, auto, disk, serving, shown, lock, booted, arg, task, keys, pins, wanted,
                 unsaved, bounds>>

(***************************************************************************)
(* The challenge listener of an ACME certificate is opened by a goroutine, *)
(* which only logs a failure.                                              *)
(***************************************************************************)
ListenControl(c) ==
  /\ pc[c] = "control"
  /\ \E challenge \in IF Mode[arg[c]] = "acme" THEN {{}, {"acme"}} ELSE {{}} :
       listening' = listening \cup {"control"} \cup challenge
  /\ serving' = arg[c]
  /\ shown' = IF Mode[arg[c]] = "self" THEN [pin |-> keyFile, cert |-> certFile] ELSE None
  /\ pins' = IF Mode[arg[c]] = "self" THEN pins \cup {keyFile} ELSE pins
  /\ cfg' = arg[c] /\ auto' = TRUE
  /\ Goto(c, "save")
  /\ UNCHANGED <<disk, lock, booted, arg, task, keys, wanted, unsaved, bounds>>

(***************************************************************************)
(* save, with which Start and Stop end.  A failed write, before the file   *)
(* is opened or in the middle of it, is logged, and the call returns as    *)
(* after a good one.                                                       *)
(***************************************************************************)
Returned(c) ==
  /\ wanted' = CASE task[c] = "start" -> arg[c] [] task[c] = "stop" -> None
                 [] OTHER -> wanted
  /\ Done(c)

SaveBegin(c) ==
  /\ pc[c] = "save"
  /\ conFile' = Torn
  /\ Goto(c, "fill")
  /\ UNCHANGED <<cfg, auto, keyFile, certFile, hostVars, lock, booted, arg, task, keys, pins,
                 wanted, unsaved, bounds>>

SaveEnd(c) ==
  /\ pc[c] = "fill"
  /\ conFile' = [conf |-> cfg, auto |-> auto]
  /\ Returned(c)
  /\ unsaved' = FALSE
  /\ UNCHANGED <<cfg, auto, keyFile, certFile, hostVars, keys, pins, bounds>>

SaveFails(c) ==
  /\ pc[c] \in {"save", "fill"}
  /\ failures < MaxFailures
  /\ failures' = failures + 1
  /\ Returned(c)
  /\ unsaved' = IF task[c] = "boot" THEN unsaved ELSE TRUE
  /\ UNCHANGED <<cfg, auto, disk, hostVars, keys, pins, requests, readErrors, runs>>

-------------------------------------------------------------------------------
(* Stop, AutoStart, and the life of the process *)

\* Slip: Stop forgets to clear the flag.
StopKeepingAuto(c) ==
  /\ Request(c)
  /\ lock = None /\ lock' = c
  /\ HostStop
  /\ task' = [task EXCEPT ![c] = "stop"]
  /\ Goto(c, "save")
  /\ UNCHANGED <<cfg, auto, disk, booted, arg, keys, pins, wanted, unsaved, failures, readErrors,
                 runs>>

Stop(c) ==
  /\ Request(c)
  /\ lock = None /\ lock' = c
  /\ HostStop
  /\ auto' = FALSE
  /\ task' = [task EXCEPT ![c] = "stop"]
  /\ Goto(c, "save")
  /\ UNCHANGED <<cfg, disk, booted, arg, keys, pins, wanted, unsaved, failures, readErrors,
                 runs>>

(***************************************************************************)
(* New reads the configuration, the defaults when there is none to read;   *)
(* then AutoStart looks at it under the mutex and calls Start without.     *)
(***************************************************************************)
Loaded == IF conFile \in {None, Torn} THEN [conf |-> None, auto |-> FALSE] ELSE conFile

AutoStartRead(c) ==
  /\ ~booted /\ lock = None
  /\ pc[c] = "idle" /\ \A d \in Caller : task[d] # "boot"
  /\ \/ /\ auto
        /\ arg' = [arg EXCEPT ![c] = cfg]
        /\ task' = [task EXCEPT ![c] = "boot"]
        /\ Goto(c, "auto")
        /\ UNCHANGED booted
     \/ ~auto /\ booted' = TRUE /\ UNCHANGED callVars
  /\ UNCHANGED <<cfg, auto, disk, hostVars, lock, keys, pins, wanted, unsaved, bounds>>

\* A request since AutoStart looked is overruled: nothing is promised of it.
Overruled(c) == ~auto \/ cfg # arg[c]

AutoStartStart(c) ==
  /\ pc[c] = "auto"
  /\ EnterStart(c, arg[c], "boot")
  /\ wanted' = IF Overruled(c) THEN "?" ELSE wanted
  /\ UNCHANGED requests

(***************************************************************************)
(* The process ends, after Shutdown or because it is killed, and another   *)
(* one is started.  What the operator then gets is left open by a kill in  *)
(* the middle of a request, and by a write of the configuration that was   *)
(* cut off or failed.                                                      *)
(***************************************************************************)
Restart ==
  /\ runs < MaxRuns
  /\ runs' = runs + 1
  /\ cfg' = Loaded.conf /\ auto' = Loaded.auto
  /\ HostStop
  /\ lock' = None
  /\ booted' = FALSE
  /\ pc' = [c \in Caller |-> "idle"]
  /\ arg' = [c \in Caller |-> None]
  /\ task' = [c \in Caller |-> "none"]
  /\ wanted' = IF conFile = Torn \/ unsaved \/ \E c \in Caller : task[c] \in {"start", "stop"}
               THEN "?" ELSE wanted
  /\ unsaved' = FALSE
  /\ UNCHANGED <<disk, keys, pins, requests, failures, readErrors>>

Next ==
  \/ Restart
  \/ \E c \in Caller :
       \/ \E k \in Conf : StartInvalid(c, k) \/ Start(c, k)
       \/ StepFails(c)
       \/ LoadKey(c) \/ KeyUnusable(c) \/ CreateKey(c) \/ FillKey(c)
       \/ KeepCert(c) \/ IssueCert(c) \/ FillCert(c)
       \/ ListenRelay(c) \/ ListenControl(c) \/ SaveBegin(c) \/ SaveEnd(c) \/ SaveFails(c)
       \/ Stop(c) \/ AutoStartRead(c) \/ AutoStartStart(c)

Spec == Init /\ [][Next]_vars

-------------------------------------------------------------------------------
(* Properties *)

Idle == lock = None /\ booted

(***************************************************************************)
(* The sockets that are open are those of the network being served, and    *)
(* none after a start that failed at whatever step (host.go:77-154).       *)
(***************************************************************************)
SocketsMatch ==
  lock = None =>
    IF serving = None
    THEN listening = {}
    ELSE /\ {"relay", "control"} \subseteq listening
         /\ "acme" \in listening => Mode[serving] = "acme"

(***************************************************************************)
(* Clients that pin the key are served a certificate of that key which     *)
(* covers the names of the configuration, whatever was left on disk by     *)
(* earlier configurations and interrupted writes.                          *)
(***************************************************************************)
CertificateFits ==
  shown # None => /\ shown.cert \notin {None, Torn}
                  /\ shown.cert.key = shown.pin
                  /\ San[serving] \subseteq shown.cert.sans

(***************************************************************************)
(* "The key is generated exactly once and reused across re-issues, so the  *)
(* SPKI pin handed out to clients stays valid for the life of the          *)
(* installation" (selfsigned.go:32), whatever is killed and reconfigured,  *)
(* as long as the key file can be read.                                    *)
(***************************************************************************)
PinStable == readErrors = 0 => Cardinality(pins) <= 1

(***************************************************************************)
(* "Starting is what marks a network as wanted, so it comes back after a   *)
(* reboot" (supervisor.go:56) and Stop "records that it should stay down"  *)
(* (supervisor.go:80): whenever no call is running, the network the        *)
(* operator last started without an error is being served, and none after  *)
(* a stop, however often the machine was restarted since.  Not settled     *)
(* ("?") is what a request that failed, was cut off by a kill, or was      *)
(* overruled by AutoStart leaves, and, from the next restart on, a         *)
(* configuration whose write was cut off or failed: save only logs it and  *)
(* the request returns without an error (supervisor.go:119-123).           *)
(***************************************************************************)
OperatorObeyed ==
  Idle => /\ wanted \in Conf => serving = wanted
          /\ wanted = None => serving = None
===============================================================================
