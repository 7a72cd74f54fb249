-------------------------------- MODULE HostTab -------------------------------
(***************************************************************************)
(* The desktop application's control of a hosted network (gui/app.go and   *)
(* the tray's item, gui/tray.go): each operation first asks whether the    *)
(* server service answers, then goes to the service, or to a supervisor of *)
(* its own inside the application.  The two supervisors share the saved    *)
(* configuration and the machine's ports, and each remembers the           *)
(* configuration it has read.  What a supervisor does in detail is in      *)
(* Hosting; here its calls are single steps.                               *)
(***************************************************************************)
EXTENDS Integers

CONSTANTS
  TabConf,       \* configurations, all with the same ports
  NoConf,        \* none yet, or no supervisor
  MaxCalls       \* bound: operations, and starts of the service

VARIABLES
  sup,       \* "service", "local" -> [conf, auto, serving], NoConf when there is none
  saved,     \* the configuration on disk: [conf, auto]
  call,      \* the operation under way: [op, conf, via], or NoConf
  last,      \* how the operator's last operation ended: "started", "stopped", "?"
  crossed,   \* the service came up when an operation or a network was the application's
  calls

tabVars == <<sup, saved, call, last, crossed, calls>>

ASSUME HostTabConstants == NoConf \notin TabConf /\ MaxCalls \in Nat

Side == {"service", "local"}

TabInit ==
  /\ sup = [s \in Side |-> NoConf]
  /\ saved = [conf |-> NoConf, auto |-> FALSE]
  /\ call = NoConf /\ last = "?" /\ crossed = FALSE /\ calls = 0

ServiceUp == sup["service"] # NoConf
Serving(s) == sup[s] # NoConf /\ sup[s].serving # NoConf

\* supervisor.New.
Fresh == [conf |-> saved.conf, auto |-> saved.auto, serving |-> NoConf]

(***************************************************************************)
(* Supervisor.Start of one side: the ports may be taken by the other.      *)
(* Only a start that works is saved.                                       *)
(***************************************************************************)
SupStart(s, k) ==
  LET free == \A t \in Side \ {s} : ~Serving(t)
  IN  /\ sup' = [sup EXCEPT ![s] =
                   [conf |-> k, auto |-> TRUE, serving |-> IF free THEN k ELSE NoConf]]
      /\ saved' = IF free THEN [conf |-> k, auto |-> TRUE] ELSE saved

\* Slip: with nothing running there is nothing to stop.
SupStopIfRunning(s, was) ==
  /\ sup' = [sup EXCEPT ![s] = [was EXCEPT !.auto = FALSE, !.serving = NoConf]]
  /\ saved' = IF was.serving # NoConf THEN [conf |-> was.conf, auto |-> FALSE] ELSE saved

(***************************************************************************)
(* Supervisor.Stop saves the configuration it remembers.                   *)
(***************************************************************************)
SupStop(s, was) ==
  /\ sup' = [sup EXCEPT ![s] = [was EXCEPT !.auto = FALSE, !.serving = NoConf]]
  /\ saved' = [conf |-> was.conf, auto |-> FALSE]

(***************************************************************************)
(* The service starts, with New and AutoStart, and ends, with Shutdown.    *)
(***************************************************************************)
ServiceStarts ==
  /\ ~ServiceUp
  /\ calls < MaxCalls /\ calls' = calls + 1
  /\ IF saved.auto THEN SupStart("service", saved.conf)
     ELSE sup' = [sup EXCEPT !["service"] = Fresh] /\ UNCHANGED saved
  /\ crossed' = (crossed \/ call # NoConf \/ Serving("local"))
  /\ UNCHANGED <<call, last>>

ServiceEnds ==
  /\ ServiceUp
  /\ sup' = [sup EXCEPT !["service"] = NoConf]
  /\ UNCHANGED <<saved, call, last, crossed, calls>>

(***************************************************************************)
(* HostStart and HostStop ask whether the service is up ...                *)
(***************************************************************************)
Ask(op, k) ==
  /\ call = NoConf
  /\ calls < MaxCalls /\ calls' = calls + 1
  /\ call' = [op |-> op, conf |-> k, via |-> IF ServiceUp THEN "service" ELSE "local"]
  /\ last' = "?"
  /\ UNCHANGED <<sup, saved, crossed>>

\* local: the supervisor of the application, made when it is first needed.
local == IF sup["local"] = NoConf THEN Fresh ELSE sup["local"]

(***************************************************************************)
(* ... and then act, when the service may be gone or back.                 *)
(***************************************************************************)
Act ==
  /\ call # NoConf /\ call' = NoConf
  /\ IF call.via = "service" /\ ~ServiceUp
     THEN last' = "?" /\ UNCHANGED <<sup, saved>>
     ELSE IF call.op = "start"
     THEN /\ SupStart(call.via, call.conf)
          /\ last' = IF sup'[call.via].serving = call.conf THEN "started" ELSE "?"
     ELSE /\ SupStop(call.via, IF call.via = "service" THEN sup["service"] ELSE local)
          /\ last' = "stopped"
  /\ UNCHANGED <<crossed, calls>>

(***************************************************************************)
(* HostStatus, which the window and the tray ask for all the time, makes   *)
(* the local supervisor too.                                               *)
(***************************************************************************)
HostStatus ==
  /\ ~ServiceUp
  /\ sup' = [sup EXCEPT !["local"] = local]
  /\ UNCHANGED <<saved, call, last, crossed, calls>>

\* The application ends, and its supervisor with it.
Quit ==
  /\ sup' = [sup EXCEPT !["local"] = NoConf]
  /\ call' = NoConf /\ crossed' = FALSE
  /\ last' = IF crossed \/ call # NoConf THEN "?" ELSE last
  /\ UNCHANGED <<saved, calls>>

TabNext ==
  \/ ServiceStarts \/ ServiceEnds \/ Act \/ HostStatus \/ Quit
  \/ Ask("stop", NoConf) \/ \E k \in TabConf : Ask("start", k)

TabSpec == TabInit /\ [][TabNext]_tabVars

-------------------------------------------------------------------------------
(* Properties *)

(***************************************************************************)
(* After a HostStop that succeeded the machine hosts nothing, and Stop     *)
(* "records that it should stay down" (supervisor.go:80): whichever        *)
(* supervisor the network ran under and whichever was asked to stop it,    *)
(* though the service was down at the time, and however often service and  *)
(* application come and go.  The exception is a service that comes up      *)
(* while the application hosts the network itself, or is in the middle of  *)
(* the operation.                                                          *)
(***************************************************************************)
StopStaysStopped ==
  last = "stopped" /\ ~crossed => \A s \in Side : ~Serving(s)
===============================================================================
