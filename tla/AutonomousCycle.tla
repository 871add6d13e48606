--------------------------- MODULE AutonomousCycle ---------------------------
(***************************************************************************)
(* The V1 autonomous cycle of one tenant, autonomous_orchestrator.py, and  *)
(* the campaign execution it leads to, campaign_execution.py.  A cycle     *)
(* (the daily tick, or the trigger route, which takes no lease) makes a    *)
(* Batch and an AutonomousRun, finds leads, and leaves the run in its      *)
(* approval window.  The five-minute sweep of every instance, which takes  *)
(* no lease either, pushes the leads of each run whose window is over; the *)
(* outreach route pushes a batch by hand.  Meanwhile an operator cancels,  *)
(* recovers and excludes.  A cycle is named by its run: it makes one.      *)
(***************************************************************************)
EXTENDS Naturals, FiniteSets

CONSTANTS
  Cycles,
  Sweeps,          \* the sweep of each instance, and requests to the resume route
  PushRoutes,      \* requests to the outreach route
  Leads,           \* the contacts a batch can have
  NoCycle, NoLead,
  MaxCycleFaults,  \* bound: crashes and failed commits
  MaxOrders        \* bound: cancellations and recoveries asked for

ASSUME CycleAssumption ==
  /\ NoCycle \notin Cycles /\ NoLead \notin Leads /\ Sweeps \cap PushRoutes = {}
  /\ MaxCycleFaults \in Nat /\ MaxOrders \in Nat

VARIABLES
  runRow,      \* per run: status of the run and of its batch, current_phase, contacts
  excluded,    \* contacts.excluded_from_push
  pushRows,    \* CampaignPush of each contact: none, one that is pushed, or only others
  cancelFlag,  \* autonomous_runs.cancelled
  windowOver,  \* runs whose awaiting_approval_until has passed
  oldRuns,     \* runs that started more than STALE_RUN_TIMEOUT_MINUTES ago
  cyclePc,
  exec,        \* per executor: its step, due runs to come, the run, contacts known as
               \* pushed, contacts to come, the contact in hand and what the channel said of it
  order,       \* the operator's request: what it does, to which run
  recovered,   \* history: runs recovered
  heldBack,    \* history: cancelled in the window, before a sweep picked them up
  onTime,      \* history: excluded when the window closed, and ever since
  deliveries,  \* history: times the channel took a contact; 2 is twice or more
  doubled,     \* history: runs that two executors pushed at once
  resumed,     \* history: runs a sweep completed
  cyclesMet,   \* history: two cycles were once active together
  orders, cycleFaults

pushVars == <<pushRows, deliveries>>
cycleTime == <<windowOver, oldRuns>>
operatorVars == <<order, recovered, heldBack, orders, cancelFlag>>
cycleVars == <<runRow, excluded, pushVars, cycleTime, cyclePc, exec, operatorVars,
               onTime, doubled, resumed, cyclesMet, cycleFaults>>

BatchLeads == Cycles \X Leads
Executors == Sweeps \cup PushRoutes
Outcomes == {"pushed", "unpushed"}  \* failed and skipped are alike: tried again

CycleTypeOK ==
  /\ runRow \in [Cycles ->
       [status : {"absent", "running", "awaiting_approval", "completed", "failed", "cancelled"},
        batch : {"absent", "in_progress", "complete", "failed"},
        phase : {"signal_discovery", "awaiting_approval", "autonomous_cycle_done", "outreach_done"},
        leads : SUBSET Leads]]
  /\ excluded \subseteq BatchLeads /\ onTime \subseteq BatchLeads
  /\ pushRows \in [BatchLeads -> Outcomes \cup {"none"}] /\ deliveries \in [BatchLeads -> 0..2]
  /\ \A s \in {cancelFlag, windowOver, oldRuns, recovered, heldBack, doubled, resumed} : s \subseteq Cycles
  /\ cyclePc \in [Cycles -> {"idle", "asking", "batch", "run", "discovering", "deciding", "notifying", "done"}]
  /\ exec \in [Executors -> [pc : {"idle", "next", "loop", "push", "record"}, todo : SUBSET Cycles, run : Cycles \cup {NoCycle}, skip : SUBSET Leads,
                             left : SUBSET Leads, lead : Leads \cup {NoLead}, result : Outcomes \cup {"none"}]]
  /\ order \in [what : {"none", "cancel", "recover"}, run : Cycles \cup {NoCycle}]
  /\ orders \in 0..MaxOrders /\ cyclesMet \in BOOLEAN /\ cycleFaults \in 0..MaxCycleFaults
  (* a run has a batch, and a run that waits has leads to push             *)
  /\ \A r \in Cycles : runRow[r].status # "absent" => runRow[r].batch # "absent"
  /\ \A r \in Cycles : runRow[r].status = "awaiting_approval" => runRow[r].leads # {}

NoOrder == [what |-> "none", run |-> NoCycle]
IdleExec == [pc |-> "idle", todo |-> {}, run |-> NoCycle, skip |-> {},
             left |-> {}, lead |-> NoLead, result |-> "none"]

CycleInit ==
  /\ runRow = [r \in Cycles |-> [status |-> "absent", batch |-> "absent", phase |-> "signal_discovery", leads |-> {}]]
  /\ excluded = {} /\ onTime = {}
  /\ pushRows = [x \in BatchLeads |-> "none"] /\ deliveries = [x \in BatchLeads |-> 0]
  /\ cancelFlag = {} /\ windowOver = {} /\ oldRuns = {}
  /\ cyclePc = [r \in Cycles |-> "idle"]
  /\ exec = [e \in Executors |-> IdleExec]
  /\ order = NoOrder /\ recovered = {} /\ heldBack = {} /\ doubled = {} /\ resumed = {}
  /\ cyclesMet = FALSE /\ orders = 0 /\ cycleFaults = 0

CycleFault == cycleFaults < MaxCycleFaults /\ cycleFaults' = cycleFaults + 1
OpenRuns == {r \in Cycles : runRow[r].status \in {"running", "awaiting_approval"}}

-----------------------------------------------------------------------------
(* Time: a run grows old while it says running; a window closes.           *)
RunAges(r) ==
  /\ runRow[r].status = "running" /\ r \notin oldRuns
  /\ oldRuns' = oldRuns \cup {r}
  /\ UNCHANGED <<runRow, excluded, pushVars, windowOver, cyclePc, exec, operatorVars,
                 onTime, doubled, resumed, cyclesMet, cycleFaults>>

InHand(x) == \E e \in Executors : <<exec[e].run, exec[e].lead>> = x

WindowCloses(r) ==
  /\ runRow[r].phase = "awaiting_approval" /\ r \notin windowOver
  /\ windowOver' = windowOver \cup {r}
  /\ onTime' = onTime \cup {x \in excluded : x[1] = r /\ ~InHand(x)}
  /\ UNCHANGED <<runRow, excluded, pushVars, oldRuns, cyclePc, exec, operatorVars,
                 doubled, resumed, cyclesMet, cycleFaults>>

-----------------------------------------------------------------------------
(* run_daily_autonomous_cycle                                              *)
CycleFrame == UNCHANGED <<excluded, pushVars, cycleTime, exec, operatorVars, onTime, doubled, resumed>>
CycleTo(r, step) == cyclePc' = [cyclePc EXCEPT ![r] = step]
Alive(r) == cyclePc[r] \notin {"idle", "done"}

(* _clear_stale_running_flags: the run fails, its batch is left as it is.  *)
ClearStale(r) ==
  /\ cyclePc[r] = "idle"
  /\ runRow' = [q \in Cycles |->
       IF runRow[q].status = "running" /\ q \in oldRuns THEN [runRow[q] EXCEPT !.status = "failed"] ELSE runRow[q]]
  /\ CycleTo(r, "asking")
  /\ cyclesMet' = (cyclesMet \/ \E q \in Cycles : Alive(q))
  /\ UNCHANGED cycleFaults /\ CycleFrame

(* A bug: a run in its approval window does not count as open.             *)
BugAskOpen(r) ==
  /\ cyclePc[r] = "asking"
  /\ CycleTo(r, IF \E q \in Cycles : runRow[q].status = "running" THEN "done" ELSE "batch")
  /\ UNCHANGED <<runRow, cyclesMet, cycleFaults>> /\ CycleFrame

AskOpen(r) ==
  /\ cyclePc[r] = "asking"
  /\ CycleTo(r, IF OpenRuns # {} THEN "done" ELSE "batch")
  /\ UNCHANGED <<runRow, cyclesMet, cycleFaults>> /\ CycleFrame

(* The Batch and the run are two commits.                                  *)
InsertCycleBatch(r) ==
  /\ cyclePc[r] = "batch"
  /\ runRow' = [runRow EXCEPT ![r].batch = "in_progress"]
  /\ CycleTo(r, "run")
  /\ UNCHANGED <<cyclesMet, cycleFaults>> /\ CycleFrame

InsertRun(r) ==
  /\ cyclePc[r] = "run"
  /\ runRow' = [runRow EXCEPT ![r].status = "running"]
  /\ CycleTo(r, "discovering")
  /\ UNCHANGED <<cyclesMet, cycleFaults>> /\ CycleFrame

(* Discovery and the people search, which commit as they go.               *)
DiscoverLeads(r) ==
  /\ cyclePc[r] = "discovering"
  /\ \E found \in SUBSET Leads : runRow' = [runRow EXCEPT ![r].leads = found]
  /\ CycleTo(r, "deciding")
  /\ UNCHANGED <<cyclesMet, cycleFaults>> /\ CycleFrame

(* Nobody found, the budget reached, or a tenant without outreach.         *)
NothingToPush(r) ==
  /\ cyclePc[r] = "deciding"
  /\ runRow' = [runRow EXCEPT ![r].status = "completed", ![r].batch = "complete", ![r].phase = "autonomous_cycle_done"]
  /\ CycleTo(r, "notifying")
  /\ UNCHANGED <<cyclesMet, cycleFaults>> /\ CycleFrame

(* A bug: the number of decision makers found is not asked for.            *)
BugAwaitApproval(r) ==
  /\ cyclePc[r] = "deciding"
  /\ runRow' = [runRow EXCEPT ![r].status = "awaiting_approval", ![r].phase = "awaiting_approval"]
  /\ CycleTo(r, "done")
  /\ UNCHANGED <<cyclesMet, cycleFaults>> /\ CycleFrame

(* The status is written, whatever became of the row since it was made.    *)
AwaitApproval(r) ==
  /\ cyclePc[r] = "deciding" /\ runRow[r].leads # {}
  /\ runRow' = [runRow EXCEPT ![r].status = "awaiting_approval", ![r].phase = "awaiting_approval"]
  /\ CycleTo(r, "done")
  /\ UNCHANGED <<cyclesMet, cycleFaults>> /\ CycleFrame

(* The provider's error, or any exception up to and including the          *)
(* notification of a run that found nothing.                               *)
CycleFails(r) ==
  /\ cyclePc[r] \in {"discovering", "deciding", "notifying"}
  /\ runRow' = [runRow EXCEPT ![r].status = "failed", ![r].batch = "failed"]
  /\ CycleTo(r, "done")
  /\ UNCHANGED <<cyclesMet, cycleFaults>> /\ CycleFrame

Notified(r) ==
  /\ cyclePc[r] = "notifying"
  /\ CycleTo(r, "done")
  /\ UNCHANGED <<runRow, cyclesMet, cycleFaults>> /\ CycleFrame

CycleDies(r) ==
  /\ Alive(r) /\ CycleFault
  /\ CycleTo(r, "done")
  /\ UNCHANGED <<runRow, cyclesMet>> /\ CycleFrame

-----------------------------------------------------------------------------
(* resume_pending_approvals, and the outreach route on one batch.          *)
ExecFrame == UNCHANGED <<cancelFlag, excluded, cycleTime, cyclePc, operatorVars, onTime, cyclesMet>>

(* Bugs in what is due: the window alone; only runs nobody began to push.  *)
BugDueRuns == windowOver
BugFreshRuns == {r \in windowOver : /\ runRow[r].status = "awaiting_approval"
                                    /\ \A l \in Leads : pushRows[<<r, l>>] = "none"}

DueRuns == {r \in windowOver : runRow[r].status = "awaiting_approval"}

StartSweep(e) ==
  /\ exec[e].pc = "idle" /\ DueRuns # {}
  /\ exec' = [exec EXCEPT ![e].pc = "next", ![e].todo = DueRuns]
  /\ UNCHANGED <<runRow, pushVars, doubled, resumed, cycleFaults>> /\ ExecFrame

StartRoute(e, r) ==
  /\ exec[e].pc = "idle" /\ runRow[r].batch # "absent"
  /\ exec' = [exec EXCEPT ![e].pc = "next", ![e].todo = {r}]
  /\ UNCHANGED <<runRow, pushVars, doubled, resumed, cycleFaults>> /\ ExecFrame

(* A bug: the rows of the other attempts are read instead.                 *)
BugAlreadyPushed(r) == {l \in Leads : pushRows[<<r, l>>] = "unpushed"}

AlreadyPushed(r) == {l \in Leads : pushRows[<<r, l>>] = "pushed"}

(* run_campaign_execution reads the contacts and who was pushed before.    *)
StartExecution(e, r) ==
  /\ exec[e].pc = "next" /\ r \in exec[e].todo
  /\ exec' = [exec EXCEPT ![e].pc = "loop", ![e].todo = @ \ {r}, ![e].run = r,
                          ![e].skip = AlreadyPushed(r), ![e].left = runRow[r].leads]
  /\ doubled' = doubled \cup {q \in {r} : \E f \in Executors \ {e} : exec[f].run = r}
  /\ UNCHANGED <<runRow, pushVars, resumed, cycleFaults>> /\ ExecFrame

SkipPushed(e, l) ==
  /\ exec[e].pc = "loop" /\ l \in exec[e].left \cap exec[e].skip
  /\ exec' = [exec EXCEPT ![e].left = @ \ {l}]
  /\ UNCHANGED <<runRow, pushVars, doubled, resumed, cycleFaults>> /\ ExecFrame

(* A bug: the exclusion is not asked for.                                  *)
BugTakeLead(e, l) ==
  /\ exec[e].pc = "loop" /\ l \in exec[e].left \ exec[e].skip
  /\ exec' = [exec EXCEPT ![e].pc = "push", ![e].left = @ \ {l}, ![e].lead = l]
  /\ UNCHANGED <<runRow, pushVars, doubled, resumed, cycleFaults>> /\ ExecFrame

(* The contact's row is read again after each commit of the loop.          *)
TakeLead(e, l) ==
  /\ exec[e].pc = "loop" /\ l \in exec[e].left \ exec[e].skip
  /\ exec' = IF <<exec[e].run, l>> \in excluded
             THEN [exec EXCEPT ![e].pc = "record", ![e].left = @ \ {l}, ![e].lead = l, ![e].result = "unpushed"]
             ELSE [exec EXCEPT ![e].pc = "push", ![e].left = @ \ {l}, ![e].lead = l]
  /\ UNCHANGED <<runRow, pushVars, doubled, resumed, cycleFaults>> /\ ExecFrame

(* push_lead, whose every exception is caught: the channel takes the       *)
(* contact, or it fails, or the contact has no LinkedIn URL.               *)
PushLead(e) ==
  /\ exec[e].pc = "push"
  /\ \E out \in Outcomes :
       /\ exec' = [exec EXCEPT ![e].pc = "record", ![e].result = out]
       /\ deliveries' = IF out # "pushed" THEN deliveries
            ELSE [deliveries EXCEPT ![<<exec[e].run, exec[e].lead>>] = IF @ = 2 THEN 2 ELSE @ + 1]
  /\ UNCHANGED <<runRow, pushRows, doubled, resumed, cycleFaults>> /\ ExecFrame

(* A bug: only a contact the channel took is written down.                 *)
BugRecordPush(e) ==
  /\ exec[e].pc = "record"
  /\ pushRows' = [pushRows EXCEPT ![<<exec[e].run, exec[e].lead>>] = IF exec[e].result = "pushed" THEN "pushed" ELSE @]
  /\ exec' = [exec EXCEPT ![e].pc = "loop", ![e].lead = NoLead, ![e].result = "none"]
  /\ UNCHANGED <<runRow, deliveries, doubled, resumed, cycleFaults>> /\ ExecFrame

RecordPush(e) ==
  /\ exec[e].pc = "record"
  /\ pushRows' = [pushRows EXCEPT ![<<exec[e].run, exec[e].lead>>] = IF @ = "pushed" THEN @ ELSE exec[e].result]
  /\ exec' = [exec EXCEPT ![e].pc = "loop", ![e].lead = NoLead, ![e].result = "none"]
  /\ UNCHANGED <<runRow, deliveries, doubled, resumed, cycleFaults>> /\ ExecFrame

(* On to the next due run, if there is one.                                *)
LeaveRun(e) ==
  exec' = [exec EXCEPT ![e] = IF @.todo = {} THEN IdleExec
                              ELSE [IdleExec EXCEPT !.pc = "next", !.todo = exec[e].todo]]

LoopEnds(e) == exec[e].pc = "loop" /\ exec[e].left = {}

ResumeRun(e) ==
  /\ LoopEnds(e)
  /\ runRow' = [runRow EXCEPT ![exec[e].run].status = "completed", ![exec[e].run].batch = "complete",
                              ![exec[e].run].phase = "outreach_done"]
  /\ resumed' = resumed \cup {exec[e].run}
  /\ LeaveRun(e)
  /\ UNCHANGED <<pushVars, doubled, cycleFaults>> /\ ExecFrame

RouteDone(e) ==
  /\ LoopEnds(e)
  /\ runRow' = [runRow EXCEPT ![exec[e].run].phase = "outreach_done"]
  /\ LeaveRun(e)
  /\ UNCHANGED <<pushVars, doubled, resumed, cycleFaults>> /\ ExecFrame

(* A commit of the loop fails: the run fails, its batch stays as it is,    *)
(* and the row of the contact in hand is lost.                             *)
ExecutionFails(e) ==
  /\ exec[e].pc = "record" /\ CycleFault
  /\ runRow' = IF e \in Sweeps THEN [runRow EXCEPT ![exec[e].run].status = "failed"] ELSE runRow
  /\ LeaveRun(e)
  /\ UNCHANGED <<pushVars, doubled, resumed>> /\ ExecFrame

ExecutorDies(e) ==
  /\ exec[e].pc # "idle" /\ CycleFault
  /\ exec' = [exec EXCEPT ![e] = IdleExec]
  /\ UNCHANGED <<runRow, pushVars, doubled, resumed>> /\ ExecFrame

-----------------------------------------------------------------------------
(* The operator.  cancel_run and recover_run_to_awaiting_approval check    *)
(* and then write; the exclusion is one write.                             *)
OperatorFrame == UNCHANGED <<pushVars, cycleTime, cyclePc, exec, doubled, resumed, cyclesMet, cycleFaults>>

Ask(what, r) ==
  /\ order = NoOrder /\ orders < MaxOrders
  /\ order' = [what |-> what, run |-> r] /\ orders' = orders + 1
  /\ UNCHANGED <<runRow, cancelFlag, excluded, recovered, heldBack, onTime>> /\ OperatorFrame

AskCancel(r) == r \in OpenRuns /\ Ask("cancel", r)
AskRecover(r) == runRow[r].phase = "awaiting_approval" /\ Ask("recover", r)

PickedUp(r) == \E e \in Sweeps : r \in exec[e].todo \cup {exec[e].run}

CancelRun ==
  /\ order.what = "cancel"
  /\ runRow' = [runRow EXCEPT ![order.run].status = "cancelled"]
  /\ cancelFlag' = cancelFlag \cup {order.run}
  /\ heldBack' = heldBack \cup {r \in {order.run} : runRow[r].status = "awaiting_approval" /\ ~PickedUp(r)}
  /\ order' = NoOrder
  /\ UNCHANGED <<excluded, recovered, onTime, orders>> /\ OperatorFrame

RecoverRun ==
  /\ order.what = "recover"
  /\ runRow' = [runRow EXCEPT ![order.run].status = "awaiting_approval"]
  /\ recovered' = recovered \cup {order.run} /\ heldBack' = heldBack \ {order.run}
  /\ order' = NoOrder
  /\ UNCHANGED <<cancelFlag, excluded, onTime, orders>> /\ OperatorFrame

SetExcluded(r, l) ==
  /\ l \in runRow[r].leads
  /\ excluded' = IF <<r, l>> \in excluded THEN excluded \ {<<r, l>>} ELSE excluded \cup {<<r, l>>}
  /\ onTime' = onTime \ {<<r, l>>}
  /\ UNCHANGED <<runRow, operatorVars>> /\ OperatorFrame

CycleStep(r) ==
  \/ ClearStale(r) \/ AskOpen(r) \/ InsertCycleBatch(r) \/ InsertRun(r) \/ DiscoverLeads(r)
  \/ NothingToPush(r) \/ AwaitApproval(r) \/ CycleFails(r) \/ Notified(r)

ExecStep(e) ==
  \/ \E r \in Cycles : StartExecution(e, r)
  \/ \E l \in Leads : SkipPushed(e, l) \/ TakeLead(e, l)
  \/ PushLead(e) \/ RecordPush(e)

SweepStep(e) == StartSweep(e) \/ ExecStep(e) \/ ResumeRun(e)

CycleNext ==
  \/ \E r \in Cycles : RunAges(r) \/ WindowCloses(r) \/ CycleStep(r) \/ CycleDies(r)
  \/ \E e \in Sweeps : SweepStep(e)
  \/ \E e \in PushRoutes : ExecStep(e) \/ RouteDone(e) \/ \E r \in Cycles : StartRoute(e, r)
  \/ \E e \in Executors : ExecutionFails(e) \/ ExecutorDies(e)
  \/ \E r \in Cycles : AskCancel(r) \/ AskRecover(r) \/ \E l \in Leads : SetExcluded(r, l)
  \/ CancelRun \/ RecoverRun

CycleSpec == CycleInit /\ [][CycleNext]_cycleVars

(* APScheduler fires the sweep every five minutes and lets it finish.      *)
CycleFairness == \A e \in Sweeps : WF_cycleVars(SweepStep(e))

-----------------------------------------------------------------------------
(* A contact is handed to the channel once, however many sweeps and routes *)
(* push its batch; twice only when two of them pushed the same batch at    *)
(* once, or a crash or a failed commit lost the record of the first.       *)
PushedOnce ==
  \A x \in BatchLeads : deliveries[x] > 1 => x[1] \in doubled \/ cycleFaults > 0

(* A contact excluded by the time its run's approval window closes, and    *)
(* never included again, is not pushed by anyone.                          *)
ExcludedInTime == [][\A x \in onTime : deliveries'[x] = deliveries[x]]_cycleVars

(* A run cancelled in its approval window, before a sweep had picked it    *)
(* up, is pushed by no sweep.                                              *)
CancelledInWindow == \A r \in heldBack : ~PickedUp(r)

(* A tenant has one open run at a time, unless two cycles overlapped (the  *)
(* trigger route beside the tick) or an old run was recovered.             *)
OneOpenRun == Cardinality(OpenRuns) > 1 => cyclesMet \/ recovered # {}

(* A run that a sweep completed has a CampaignPush for each of its         *)
(* contacts: none is dropped without a trace by a crash, a retry or        *)
(* another executor.                                                       *)
ResumedLeavesTrace == \A r \in resumed : \A l \in runRow[r].leads : pushRows[<<r, l>>] # "none"

(* A run whose window is over does not wait for ever.                      *)
DueRunResolved ==
  \A r \in Cycles : (r \in windowOver /\ runRow[r].status = "awaiting_approval") ~> (runRow[r].status # "awaiting_approval")

(* The rules of the V1 cycle: each contact is pushed once, never when      *)
(* excluded in time or when its run was cancelled in its window, and a     *)
(* completed run left a row for each contact.                              *)
CycleRules ==
  /\ ExcludedInTime
  /\ [](CycleTypeOK /\ PushedOnce /\ CancelledInWindow /\ ResumedLeavesTrace)
=============================================================================
