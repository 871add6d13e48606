-------------------------- MODULE IntelligenceRun --------------------------
(***************************************************************************)
(* The daily GTM intelligence run: the scheduled tick of app/main.py,      *)
(* which works under the job lease, the manual trigger route of            *)
(* app/routes/api.py, which does not, and the gtm_intelligence_runs rows   *)
(* both keep (app/gtm_os/orchestration/sweep.py).  The lease is used       *)
(* through what it promises, JobExclusion, which SchedulerLease is shown   *)
(* to implement; a lease that lapses under a live body is a counted event. *)
(***************************************************************************)
EXTENDS Integers, FiniteSets

CONSTANTS
  Instances,   \* scheduler processes
  Requests,    \* threads that serve the manual trigger route
  RunIds,      \* ids of gtm_intelligence_runs rows
  NoRun,       \* no row
  StaleAfter,  \* stale_after_minutes
  MaxTime,     \* bound: the clock stops here
  MaxLapses,   \* bound: leases lost while their body is still alive
  MaxCrashes,  \* bound: processes dying inside a body
  MaxPauses    \* bound: how often the operator pauses the control plane

Workers == Instances \cup Requests

ASSUME RunAssumption ==
  /\ Instances \cap Requests = {}
  /\ NoRun \notin RunIds
  /\ StaleAfter \in Nat /\ MaxTime \in Nat
  /\ MaxLapses \in Nat /\ MaxCrashes \in Nat /\ MaxPauses \in Nat

VARIABLES
  clock,
  control,  \* the control plane's state
  runs,     \* the gtm_intelligence_runs rows
  holders,  \* who holds the job lease
  pc,       \* where each worker is in its handler
  stale,    \* rows a worker's recover_stale query returned
  mine,     \* the row a worker inserted
  result,   \* what run_active_plays returned to it
  lapses, crashes, pauses

local == <<pc, stale, mine, result>>
bounds == <<lapses, crashes, pauses>>
vars == <<clock, control, runs, holders, local, bounds>>

Lease == INSTANCE JobExclusion WITH Workers <- Instances

Statuses == {"none", "running", "completed", "skipped", "failed"}
PCs == {"idle", "gate", "recover", "mark", "check", "start", "plays", "finish", "release"}

TypeOK ==
  /\ clock \in Nat
  /\ control \in {"running", "paused"}
  /\ runs \in [RunIds -> [status : Statuses, started : Nat]]
  /\ holders \subseteq Instances
  /\ pc \in [Workers -> PCs]
  /\ stale \in [Workers -> SUBSET RunIds]
  /\ mine \in [Workers -> RunIds \cup {NoRun}]
  /\ result \in [Workers -> {"none", "completed", "skipped"}]
  /\ lapses \in Nat /\ crashes \in Nat /\ pauses \in Nat

Init ==
  /\ clock = 0
  /\ control = "running"
  /\ runs = [r \in RunIds |-> [status |-> "none", started |-> 0]]
  /\ Lease!Init
  /\ pc = [w \in Workers |-> "idle"]
  /\ stale = [w \in Workers |-> {}]
  /\ mine = [w \in Workers |-> NoRun]
  /\ result = [w \in Workers |-> "none"]
  /\ lapses = 0 /\ crashes = 0 /\ pauses = 0

Goto(w, label) == pc' = [pc EXCEPT ![w] = label]

(* The handler returns: a tick leaves the with-block of job_lease, a       *)
(* request answers; its local variables go out of scope.                   *)
Return(w) ==
  /\ Goto(w, IF w \in Instances THEN "release" ELSE "idle")
  /\ stale' = [stale EXCEPT ![w] = {}]
  /\ mine' = [mine EXCEPT ![w] = NoRun]
  /\ result' = [result EXCEPT ![w] = "none"]

---------------------------------------------------------------------------
(* The environment: time, the operator's pause button. *)
Tick ==
  /\ clock < MaxTime
  /\ clock' = clock + 1
  /\ UNCHANGED <<control, runs, holders, local, bounds>>

Pause ==
  /\ control = "running" /\ pauses < MaxPauses
  /\ control' = "paused"
  /\ pauses' = pauses + 1
  /\ UNCHANGED <<clock, runs, holders, local, lapses, crashes>>

Resume ==
  /\ control # "running"
  /\ control' = "running"
  /\ UNCHANGED <<clock, runs, holders, local, bounds>>

(* The lease expires: its holder is gone (died, or failed to release), or  *)
(* its renewals did not get through although the body is alive.            *)
LeaseLapses ==
  /\ Lease!Lapse
  /\ \/ /\ \A w \in holders : pc[w] = "idle"
        /\ UNCHANGED lapses
     \/ /\ lapses < MaxLapses
        /\ lapses' = lapses + 1
  /\ UNCHANGED <<clock, control, runs, local, crashes, pauses>>

---------------------------------------------------------------------------
(* A bug in the tick: it goes on although job_lease yielded False.         *)
BugAnyway(w) == Lease!Take(w) \/ UNCHANGED holders

(* job_lease yields True; the same owner may re-enter. *)
Acquire(w) == Lease!Take(w) \/ (holders = {w} /\ UNCHANGED holders)

(* The scheduled tick. *)
ScheduledTick(w) ==
  /\ pc[w] = "idle"
  /\ Acquire(w)
  /\ Goto(w, "gate")
  /\ UNCHANGED <<clock, control, runs, stale, mine, result, bounds>>

(* POST .../run: no lease. *)
ManualTrigger(w) ==
  /\ pc[w] = "idle"
  /\ Goto(w, "gate")
  /\ UNCHANGED <<clock, control, runs, holders, stale, mine, result, bounds>>

(* check_can_run *)
CheckCanRun(w) ==
  /\ pc[w] = "gate"
  /\ \/ control = "running" /\ Goto(w, "recover") /\ UNCHANGED <<stale, mine, result>>
     \/ control # "running" /\ Return(w)
  /\ UNCHANGED <<clock, control, runs, holders, bounds>>

(* Bugs in the query: it forgets the status, or compares the wrong way.    *)
BugAnyStatus(r) == runs[r].status # "none" /\ runs[r].started + StaleAfter < clock
BugYoung(r) == runs[r].status = "running" /\ runs[r].started + StaleAfter > clock

Stale(r) == runs[r].status = "running" /\ runs[r].started + StaleAfter < clock

(* recover_stale_gtm_intelligence_runs: the query ... *)
ReadStale(w) ==
  /\ pc[w] = "recover"
  /\ stale' = [stale EXCEPT ![w] = {r \in RunIds : Stale(r)}]
  /\ Goto(w, "mark")
  /\ UNCHANGED <<clock, control, runs, holders, mine, result, bounds>>

(* ... and the UPDATE by primary key, whatever the rows say by now. *)
MarkStale(w) ==
  /\ pc[w] = "mark"
  /\ runs' = [r \in RunIds |->
       IF r \in stale[w] THEN [runs[r] EXCEPT !.status = "failed"] ELSE runs[r]]
  /\ stale' = [stale EXCEPT ![w] = {}]
  /\ Goto(w, "check")
  /\ UNCHANGED <<clock, control, holders, mine, result, bounds>>

(* A bug: the check for a run in progress is missing. *)
BugUnchecked == FALSE

(* The already-running query. *)
AlreadyRunning == \E r \in RunIds : runs[r].status = "running"

CheckRunning(w) ==
  /\ pc[w] = "check"
  /\ IF AlreadyRunning
       THEN Return(w)
       ELSE Goto(w, "start") /\ UNCHANGED <<stale, mine, result>>
  /\ UNCHANGED <<clock, control, runs, holders, bounds>>

(* A bug in the row: it is dated into the past. *)
BugBackdated == [status |-> "running", started |-> clock - StaleAfter]

NewRow == [status |-> "running", started |-> clock]

(* start_gtm_intelligence_run inserts a row. *)
StartRun(w, r) ==
  /\ pc[w] = "start"
  /\ runs[r].status = "none"
  /\ runs' = [runs EXCEPT ![r] = NewRow]
  /\ mine' = [mine EXCEPT ![w] = r]
  /\ Goto(w, "plays")
  /\ UNCHANGED <<clock, control, holders, stale, result, bounds>>

(* The INSERT fails: the handler raises. *)
StartRaises(w) ==
  /\ pc[w] = "start"
  /\ Return(w)
  /\ UNCHANGED <<clock, control, runs, holders, bounds>>

(* run_active_plays: run_play_b asks check_can_run once more.              *)
RunPlays(w) ==
  /\ pc[w] = "plays"
  /\ result' = [result EXCEPT ![w] = IF control = "running" THEN "completed" ELSE "skipped"]
  /\ Goto(w, "finish")
  /\ UNCHANGED <<clock, control, runs, holders, stale, mine, bounds>>

(* A play raises: nothing marks the row, the lease is released. *)
PlaysRaise(w) ==
  /\ pc[w] = "plays"
  /\ Return(w)
  /\ UNCHANGED <<clock, control, runs, holders, bounds>>

(* finish_gtm_intelligence_run, with its retry; overwrites any status.     *)
FinishRun(w) ==
  /\ pc[w] = "finish"
  /\ runs' = [runs EXCEPT ![mine[w]].status = result[w]]
  /\ Return(w)
  /\ UNCHANGED <<clock, control, holders, bounds>>

(* Both commits fail. *)
FinishRaises(w) ==
  /\ pc[w] = "finish"
  /\ Return(w)
  /\ UNCHANGED <<clock, control, runs, holders, bounds>>

(* job_lease's finally: release, which frees only the instance's own row.  *)
ReleaseLease(w) ==
  /\ pc[w] = "release"
  /\ holders' = holders \ {w}
  /\ Goto(w, "idle")
  /\ UNCHANGED <<clock, control, runs, stale, mine, result, bounds>>

(* release raised: the expiry is the backstop. *)
ReleaseRaises(w) ==
  /\ pc[w] = "release"
  /\ Goto(w, "idle")
  /\ UNCHANGED <<clock, control, runs, holders, stale, mine, result, bounds>>

(* The process dies inside the handler and is started again. *)
Crash(w) ==
  /\ pc[w] # "idle" /\ crashes < MaxCrashes
  /\ crashes' = crashes + 1
  /\ Goto(w, "idle")
  /\ stale' = [stale EXCEPT ![w] = {}]
  /\ mine' = [mine EXCEPT ![w] = NoRun]
  /\ result' = [result EXCEPT ![w] = "none"]
  /\ UNCHANGED <<clock, control, runs, holders, lapses, pauses>>

Step(w) ==
  \/ CheckCanRun(w) \/ ReadStale(w) \/ MarkStale(w) \/ CheckRunning(w)
  \/ \E r \in RunIds : StartRun(w, r)
  \/ StartRaises(w) \/ RunPlays(w) \/ PlaysRaise(w) \/ FinishRun(w) \/ FinishRaises(w)
  \/ ReleaseLease(w) \/ ReleaseRaises(w) \/ Crash(w)

Next ==
  \/ Tick \/ Pause \/ Resume \/ LeaseLapses
  \/ \E w \in Instances : ScheduledTick(w)
  \/ \E w \in Requests : ManualTrigger(w)
  \/ \E w \in Workers : Step(w)

Spec == Init /\ [][Next]_vars

---------------------------------------------------------------------------
(* A worker is between deciding to start a run and finishing it. *)
Running(w) == pc[w] \in {"plays", "finish"}

(* "The lease is what actually makes this single-lane": while no lease is  *)
(* lost under a live body, at most one instance works on the cycle,        *)
(* whatever requests, crashes and failed releases do.                      *)
ScheduledSingleLane ==
  lapses = 0 =>
    \A v, w \in Instances : pc[v] # "idle" /\ pc[w] # "idle" => v = w

(* The manual route's claim: it refuses to start a run that overlaps one   *)
(* in progress, so two workers never run the plays at once.                *)
NoOverlappingRuns ==
  \A v, w \in Workers : Running(v) /\ Running(w) => v = w

(* With neither manual triggers nor lapses, stale recovery fails only rows *)
(* whose worker is gone: a live worker's row still says "running".         *)
LiveRunNotFailed ==
  (lapses = 0 /\ Requests = {}) =>
    \A w \in Workers : Running(w) => runs[mine[w]].status = "running"

(* ... and at most one row ever says "running".                            *)
OneRunningRow ==
  (lapses = 0 /\ Requests = {}) =>
    \A r, s \in RunIds : runs[r].status = "running" /\ runs[s].status = "running" => r = s

(* A verdict is final: a row that stopped "running" keeps its status.      *)
VerdictIsFinal ==
  [][\A r \in RunIds : runs[r].status \in {"completed", "skipped", "failed"}
       => runs'[r].status = runs[r].status]_vars

(* A row left "running" by a crash or an exception does not stay so: while *)
(* the control plane is eventually left running, a later tick closes it.   *)
(* Rows too young to turn stale before the clock's bound are excused.      *)
OrphanClosed ==
  <>[](control = "running") =>
    \A r \in RunIds :
      runs[r].status = "running"
        ~> runs[r].status # "running" \/ runs[r].started + StaleAfter >= MaxTime

(* Time passes, ticks fire, handlers make progress, dead leases expire.    *)
(* Nothing forces an operator, a request, a crash or an exception.         *)
Fairness ==
  /\ WF_vars(Tick)
  /\ WF_vars(LeaseLapses)
  /\ \A w \in Instances : SF_vars(ScheduledTick(w))
  /\ \A w \in Workers :
       /\ WF_vars(CheckCanRun(w)) /\ WF_vars(ReadStale(w)) /\ WF_vars(MarkStale(w))
       /\ WF_vars(CheckRunning(w)) /\ WF_vars(StartRaises(w) \/ \E r \in RunIds : StartRun(w, r))
       /\ WF_vars(RunPlays(w)) /\ WF_vars(FinishRun(w)) /\ WF_vars(ReleaseLease(w))

LiveSpec == Spec /\ Fairness
=============================================================================
