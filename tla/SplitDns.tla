-------------------------------- MODULE SplitDns ------------------------------
(***************************************************************************)
(* How the system's name resolution follows the joined networks: the zones *)
(* of the shared resolver (client/resolver/resolver.go), the goroutine     *)
(* that follows them (followZones in client/manager/manager.go) and the    *)
(* binder that reconciles the Windows policy table with them               *)
(* (client/nrpt/nrpt.go and system_windows.go).                            *)
(*                                                                         *)
(* Policy rules are machine state: they survive the process, others may    *)
(* change them, and a PowerShell script that installs several of them can  *)
(* fail half way.  Apply is therefore three kinds of steps: it reads the   *)
(* table, runs the statements of its plan one by one, and remembers.       *)
(***************************************************************************)
EXTENDS Integers, FiniteSets

CONSTANTS
  Suffix,       \* suffixes of the networks this device may join
  Plain,        \* those made of DNS characters only
  ForeignNs,    \* namespaces that a rule of somebody else covers
  MaxRuns,      \* bound: times the service is started
  MaxChanges,   \* bound: zones that appear or disappear
  MaxFailures,  \* bound: scripts that fail
  MaxMeddles    \* bound: changes others make to our rules

VARIABLES
  rules,      \* the policy table: [ns, to, tag, copy]
  served,     \* suffixes the resolver answers for
  proc,       \* "down", "up", "stopping" or "purging"
  pc,         \* the goroutine that applies: "off", "read", "apply", "mutate", "wait"
  synced, last,         \* the binder's memory of the last Apply
  want, adds, removes,  \* Apply's argument and plan
  outcome,    \* how the last Clear or Purge ended: "none", "ok", "error"
  runs, changes, failures, meddles

binderVars == <<synced, last>>
planVars   == <<want, adds, removes>>
bounds     == <<runs, changes, failures, meddles>>
vars == <<rules, served, proc, pc, binderVars, planVars, outcome, bounds>>

ASSUME SplitDnsConstants ==
  /\ Plain \subseteq Suffix /\ ForeignNs \subseteq Suffix
  /\ MaxRuns \in Nat /\ MaxChanges \in Nat /\ MaxFailures \in Nat /\ MaxMeddles \in Nat

Rule == [ns : Suffix, to : {"us", "other"}, tag : {"ours", "foreign"}, copy : 1 .. 2]

Init ==
  /\ rules = {[ns |-> n, to |-> "other", tag |-> "foreign", copy |-> 1] : n \in ForeignNs}
  /\ served = {}
  /\ proc = "down" /\ pc = "off"
  /\ synced = FALSE /\ last = {}
  /\ want = {} /\ adds = {} /\ removes = {}
  /\ outcome = "none"
  /\ runs = 0 /\ changes = 0 /\ failures = 0 /\ meddles = 0

-------------------------------------------------------------------------------
(* Helpers of the binder *)

(***************************************************************************)
(* namespaces: what cannot be a plain DNS name gets no rule.               *)
(***************************************************************************)
namespaces(suffixes) == suffixes \cap Plain

\* Slip: somebody else's rules are taken for ours.
listEverything == rules

(***************************************************************************)
(* list: only rules that carry our tag.                                    *)
(***************************************************************************)
list == {r \in rules : r.tag = "ours"}

(***************************************************************************)
(* plan: of the rules for a wanted namespace that point at the resolver    *)
(* one is kept, the first in the order of the list; everything else of     *)
(* ours goes, and every wanted namespace left without a rule gets one.     *)
(***************************************************************************)
Keepers(have, wanted) == {r \in have : r.ns \in wanted /\ r.to = "us"}

plan(have, wanted, kept, add, remove) ==
  /\ kept \subseteq Keepers(have, wanted)
  /\ \A n \in {r.ns : r \in Keepers(have, wanted)} : \E k \in kept : k.ns = n
  /\ \A j, k \in kept : j.ns = k.ns => j = k
  /\ remove = have \ kept
  /\ add = wanted \ {k.ns : k \in kept}

NewRule(n) ==
  [ns |-> n, to |-> "us", tag |-> "ours",
   copy |-> IF \E r \in list : r.ns = n /\ r.copy = 1 THEN 2 ELSE 1]

(***************************************************************************)
(* Apply is over: the follower waits for its next turn, while after Clear  *)
(* and Purge the process is gone.                                          *)
(***************************************************************************)
Return(how) ==
  /\ adds' = {} /\ removes' = {} /\ want' = {}
  /\ \/ /\ outcome = "none"
        /\ pc' = "wait"
        /\ UNCHANGED <<proc, outcome>>
     \/ /\ outcome = "busy"
        /\ pc' = "off"
        /\ proc' = "down"
        /\ outcome' = how

-------------------------------------------------------------------------------
(* Apply *)

ApplyUnchanged ==
  /\ pc = "apply"
  /\ synced /\ want = last
  /\ Return("ok")
  /\ UNCHANGED <<rules, served, binderVars, bounds>>

ApplyList ==
  /\ pc = "apply"
  /\ ~(synced /\ want = last)
  /\ \E kept \in SUBSET list : plan(list, want, kept, adds', removes')
  /\ pc' = "mutate"
  /\ UNCHANGED <<rules, served, proc, binderVars, want, outcome, bounds>>

\* list or a statement of mutate's script fails: what was done stays done.
ApplyFails ==
  /\ \/ pc = "apply" /\ ~(synced /\ want = last)
     \/ pc = "mutate" /\ adds \cup removes # {}
  /\ failures < MaxFailures
  /\ failures' = failures + 1
  /\ Return("error")
  /\ UNCHANGED <<rules, served, binderVars, runs, changes, meddles>>

(***************************************************************************)
(* mutate: removals first.  A rule that is no longer there cannot be       *)
(* removed, which fails the script.                                        *)
(***************************************************************************)
RemoveRule(r) ==
  /\ pc = "mutate"
  /\ r \in removes
  /\ \/ /\ r \in rules
        /\ rules' = rules \ {r}
        /\ removes' = removes \ {r}
        /\ UNCHANGED <<proc, pc, want, adds, outcome>>
     \/ r \notin rules /\ Return("error") /\ UNCHANGED rules
  /\ UNCHANGED <<served, binderVars, bounds>>

AddRule(n) ==
  /\ pc = "mutate"
  /\ removes = {}
  /\ n \in adds
  /\ rules' = rules \cup {NewRule(n)}
  /\ adds' = adds \ {n}
  /\ UNCHANGED <<served, proc, pc, binderVars, want, removes, outcome, bounds>>

ApplyDone ==
  /\ pc = "mutate"
  /\ adds \cup removes = {}
  /\ synced' = TRUE /\ last' = want
  /\ Return("ok")
  /\ UNCHANGED <<rules, served, bounds>>

-------------------------------------------------------------------------------
(* The follower and the life of the service *)

(***************************************************************************)
(* Manager.Start: a new resolver, a new binder, a new follower.            *)
(***************************************************************************)
Start ==
  /\ proc = "down" /\ runs < MaxRuns
  /\ runs' = runs + 1
  /\ proc' = "up" /\ pc' = "read"
  /\ served' = {}
  /\ synced' = FALSE /\ last' = {}
  /\ outcome' = "none"
  /\ UNCHANGED <<rules, planVars, changes, failures, meddles>>

(***************************************************************************)
(* An engine's SetZone and RemoveZone.                                     *)
(***************************************************************************)
ZoneChange(s) ==
  /\ proc = "up" /\ changes < MaxChanges
  /\ changes' = changes + 1
  /\ \/ s \notin served /\ served' = served \cup {s}
     \/ s \in served /\ served' = served \ {s}
  /\ UNCHANGED <<rules, proc, pc, binderVars, planVars, outcome, runs, failures, meddles>>

(***************************************************************************)
(* One turn of followZones: m.dns is nil once Stop has begun.              *)
(***************************************************************************)
FollowRead ==
  /\ pc = "read"
  /\ want' = IF proc = "up" THEN namespaces(served) ELSE {}
  /\ pc' = "apply"
  /\ UNCHANGED <<rules, served, proc, binderVars, adds, removes, outcome, bounds>>

Tick ==
  /\ pc = "wait"
  /\ pc' = "read"
  /\ UNCHANGED <<rules, served, proc, binderVars, planVars, outcome, bounds>>

\* Slip: the periodic tick does not make the binder forget.
ResyncNothing == Tick

Resync ==
  /\ pc = "wait"
  /\ pc' = "read"
  /\ synced' = FALSE
  /\ UNCHANGED <<rules, served, proc, last, planVars, outcome, bounds>>

(***************************************************************************)
(* Manager.Stop: the resolver is taken away, the follower is told to stop  *)
(* and waited for, and then the binder is cleared with Apply(nil).         *)
(***************************************************************************)
Stop ==
  /\ proc = "up"
  /\ proc' = "stopping"
  /\ UNCHANGED <<rules, served, pc, binderVars, planVars, outcome, bounds>>

\* Slip: the rules are left to the next run.
StopWithoutClear ==
  /\ proc = "stopping" /\ pc = "wait"
  /\ served' = {}
  /\ outcome' = "ok" /\ pc' = "off" /\ proc' = "down"
  /\ UNCHANGED <<rules, binderVars, planVars, bounds>>

Clear ==
  /\ proc = "stopping" /\ pc = "wait"
  /\ served' = {}
  /\ outcome' = "busy" /\ pc' = "apply"
  /\ UNCHANGED <<rules, proc, binderVars, planVars, bounds>>

(***************************************************************************)
(* The process is killed: the rules stay.                                  *)
(***************************************************************************)
Crash ==
  /\ proc # "down"
  /\ proc' = "down" /\ pc' = "off"
  /\ served' = {} /\ want' = {} /\ adds' = {} /\ removes' = {}
  /\ outcome' = "none"
  /\ UNCHANGED <<rules, binderVars, bounds>>

(***************************************************************************)
(* Purge, when the service is uninstalled: Apply(nil) of a fresh binder.   *)
(***************************************************************************)
Purge ==
  /\ proc = "down" /\ runs = MaxRuns /\ outcome # "ok"
  /\ proc' = "purging" /\ pc' = "apply"
  /\ synced' = FALSE /\ last' = {}
  /\ outcome' = "busy"
  /\ UNCHANGED <<rules, served, planVars, bounds>>

(***************************************************************************)
(* Others: one of our rules is removed, pointed elsewhere or duplicated.   *)
(***************************************************************************)
Meddle ==
  /\ meddles < MaxMeddles
  /\ proc = "up"
  /\ meddles' = meddles + 1
  /\ \E r \in list :
       \/ rules' = rules \ {r}
       \/ rules' = (rules \ {r}) \cup {[r EXCEPT !.to = "other"]}
       \/ rules' = rules \cup {[r EXCEPT !.copy = 2]}
  /\ UNCHANGED <<served, proc, pc, binderVars, planVars, outcome, runs, changes, failures>>

-------------------------------------------------------------------------------

ApplySteps ==
  \/ ApplyUnchanged \/ ApplyList \/ ApplyDone
  \/ \E r \in removes : RemoveRule(r)
  \/ \E n \in adds : AddRule(n)

Next ==
  \/ ApplySteps \/ ApplyFails
  \/ Start \/ Stop \/ Clear \/ Crash \/ Purge \/ Meddle
  \/ \E s \in Suffix : ZoneChange(s)
  \/ FollowRead \/ Tick \/ Resync

(***************************************************************************)
(* The follower keeps running; its two tickers are channels with room for  *)
(* one tick and select picks at random among the ready ones, so the slow   *)
(* one is served again and again however busy the fast one is.             *)
(***************************************************************************)
Spec == Init /\ [][Next]_vars

FairSpec == Spec /\ WF_vars(ApplySteps \/ FollowRead \/ Tick) /\ SF_vars(Resync)

-------------------------------------------------------------------------------
(* Properties *)

(***************************************************************************)
(* One rule per namespace, to our resolver, and nothing else of ours.      *)
(***************************************************************************)
Installed(ns) ==
  /\ {r.ns : r \in list} = ns
  /\ \A r \in list : r.to = "us"
  /\ Cardinality(list) = Cardinality(ns)

(***************************************************************************)
(* "Rules belonging to something else are never touched" (nrpt.go:64).     *)
(***************************************************************************)
ForeignKept ==
  [][{r \in rules' : r.tag = "foreign"} = {r \in rules : r.tag = "foreign"}]_vars

(***************************************************************************)
(* The policy ends up equal to the zones the resolver answers for, and     *)
(* stays so: after failed scripts, interference and the leftovers of a     *)
(* killed run, as long as these come to an end (manager.go:478-488).       *)
(***************************************************************************)
EventuallyInStep == <>[](proc = "up" => Installed(namespaces(served)))

(***************************************************************************)
(* "Clear removes every rule this binder installed" (nrpt.go:100) and      *)
(* Purge "every rule this program installed, whichever run installed them" *)
(* (nrpt.go:104): either leaves no rule of ours when it reports success,   *)
(* also those of a killed run, unless a script failed half-way or others   *)
(* meddled, of which the binder's memory knows nothing.                    *)
(***************************************************************************)
NothingLeftBehind ==
  proc = "down" /\ outcome = "ok" /\ failures = 0 /\ meddles = 0 => list = {}
===============================================================================
