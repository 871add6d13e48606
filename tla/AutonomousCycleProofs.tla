------------------------ MODULE AutonomousCycleProofs ------------------------
(***************************************************************************)
(* Proofs about the V1 autonomous cycle, for every number of cycles, of    *)
(* sweeps, of requests, of contacts and of failures; then about what its   *)
(* runs do before the approval, for every number of runs and of companies. *)
(***************************************************************************)
EXTENDS AutonomousCycle, V1Discovery, FiniteSetTheorems, TLAPS

RunRow ==
  [status : {"absent", "running", "awaiting_approval", "completed", "failed", "cancelled"},
   batch : {"absent", "in_progress", "complete", "failed"},
   phase : {"signal_discovery", "awaiting_approval", "autonomous_cycle_done", "outreach_done"},
   leads : SUBSET Leads]
ExecRow ==
  [pc : {"idle", "next", "loop", "push", "record"}, todo : SUBSET Cycles, run : Cycles \cup {NoCycle},
   skip : SUBSET Leads, left : SUBSET Leads, lead : Leads \cup {NoLead}, result : Outcomes \cup {"none"}]
Pcs == {"idle", "asking", "batch", "run", "discovering", "deciding", "notifying", "done"}

(* The types, without the relations between them.                          *)
Typed ==
  /\ runRow \in [Cycles -> RunRow] /\ exec \in [Executors -> ExecRow] /\ cyclePc \in [Cycles -> Pcs]
  /\ excluded \subseteq BatchLeads /\ onTime \subseteq BatchLeads
  /\ pushRows \in [BatchLeads -> Outcomes \cup {"none"}] /\ deliveries \in [BatchLeads -> 0..2]
  /\ cancelFlag \subseteq Cycles /\ windowOver \subseteq Cycles /\ oldRuns \subseteq Cycles
  /\ recovered \subseteq Cycles /\ heldBack \subseteq Cycles /\ doubled \subseteq Cycles /\ resumed \subseteq Cycles
  /\ order \in [what : {"none", "cancel", "recover"}, run : Cycles \cup {NoCycle}]
  /\ orders \in 0..MaxOrders /\ cyclesMet \in BOOLEAN /\ cycleFaults \in 0..MaxCycleFaults

(* What a run's row and its cycle's progress say of each other.            *)
RowInv ==
  \A r \in Cycles :
    /\ cyclePc[r] \in {"run", "discovering", "deciding", "notifying"} => runRow[r].batch # "absent"
    /\ runRow[r].status # "absent" => runRow[r].batch # "absent"
    /\ runRow[r].phase = "awaiting_approval" =>
         cyclePc[r] = "done" /\ runRow[r].leads # {} /\ runRow[r].batch # "absent"
    /\ runRow[r].status = "awaiting_approval" => cyclePc[r] = "done" /\ runRow[r].leads # {}

(* A request of the operator is about a run that was there; one that is to *)
(* be recovered has leads.                                                 *)
OrderInv ==
  order.what # "none" =>
    /\ order.run \in Cycles /\ runRow[order.run].batch # "absent"
    /\ order.what = "recover" => cyclePc[order.run] = "done" /\ runRow[order.run].leads # {}

(* Where an executor is, and what it holds.                                *)
ExecRowOK(e) ==
  /\ exec[e].pc \in {"idle", "next"} => exec[e].run = NoCycle /\ exec[e].lead = NoLead
  /\ exec[e].pc = "idle" => exec[e].todo = {}
  /\ exec[e].pc \in {"loop", "push", "record"} => exec[e].run \in Cycles
  /\ exec[e].pc = "loop" => exec[e].lead = NoLead
  /\ exec[e].pc \in {"push", "record"} => exec[e].lead \in Leads /\ exec[e].lead \notin exec[e].left
  /\ exec[e].pc = "record" => exec[e].result \in Outcomes
Holds(e, r) == r \in exec[e].todo \/ r = exec[e].run
ExecInv ==
  \A e \in Executors :
    /\ ExecRowOK(e)
    /\ \A r \in Cycles : Holds(e, r) => runRow[r].batch # "absent" /\ (e \in Sweeps => cyclePc[r] = "done")

(* A contact that an executor no longer has before it was written down.    *)
TraceInv ==
  /\ \A e \in Executors : exec[e].pc \in {"loop", "push", "record"} =>
       /\ \A l \in exec[e].skip : pushRows[<<exec[e].run, l>>] = "pushed"
       /\ e \in Sweeps => \A l \in runRow[exec[e].run].leads :
                            l \in exec[e].left \/ l = exec[e].lead \/ pushRows[<<exec[e].run, l>>] # "none"
  /\ \A r \in resumed : cyclePc[r] = "done" /\ \A l \in runRow[r].leads : pushRows[<<r, l>>] # "none"

(* Without a fault, and unless two executors met on its run, a contact     *)
(* that the channel took is known as pushed, or in the hands of the one    *)
(* executor that will say so; who has it before it finds it untouched.     *)
Fresh(r) == r \notin doubled /\ cycleFaults = 0
Told(e, r, l) == exec[e].run = r /\ exec[e].lead = l /\ exec[e].pc = "record" /\ exec[e].result = "pushed"
Ahead(e, r, l) == /\ exec[e].run = r
                  /\ \/ l \in exec[e].left /\ l \notin exec[e].skip
                     \/ exec[e].pc = "push" /\ exec[e].lead = l
OnceInv ==
  \A r \in Cycles : Fresh(r) =>
    /\ \A e, f \in Executors : exec[e].run = r /\ exec[f].run = r => e = f
    /\ \A l \in Leads :
         /\ deliveries[<<r, l>>] <= 1
         /\ deliveries[<<r, l>>] = 1 => pushRows[<<r, l>>] = "pushed" \/ \E e \in Executors : Told(e, r, l)
         /\ \A e \in Executors : Ahead(e, r, l) => deliveries[<<r, l>>] = 0

(* A run cancelled in its window never waits again.                        *)
HeldInv ==
  \A r \in heldBack : /\ cyclePc[r] = "done" /\ runRow[r].status # "awaiting_approval"
                      /\ \A e \in Sweeps : ~Holds(e, r)

TimeInv ==
  \A x \in onTime : /\ x \in excluded
                    /\ \A e \in Executors : exec[e].pc = "push" => <<exec[e].run, exec[e].lead>> # x

(* While no two cycles met and nothing was recovered, one run is open, and *)
(* the cycle that passed its question has the only one.                    *)
OneInv ==
  ~cyclesMet /\ recovered = {} =>
    /\ \A q, r \in Cycles : Alive(q) /\ Alive(r) => q = r
    /\ \A q, r \in OpenRuns : q = r
    /\ \A r \in Cycles : cyclePc[r] \in {"batch", "run", "discovering", "deciding", "notifying"} =>
         \A q \in OpenRuns : q = r

CycleInv == Typed /\ RowInv /\ OrderInv /\ ExecInv /\ TraceInv /\ OnceInv /\ HeldInv /\ TimeInv /\ OneInv

LEMMA CycleInitInv == CycleInit => CycleInv
<1>1. SUFFICES ASSUME CycleInit PROVE CycleInv
  OBVIOUS
<1>2. IdleExec \in ExecRow
  BY DEF IdleExec, ExecRow
<1>3. Typed
  <2>1. runRow \in [Cycles -> RunRow] /\ cyclePc \in [Cycles -> Pcs]
    BY <1>1 DEF CycleInit, RunRow, Pcs
  <2>2. exec \in [Executors -> ExecRow]
    BY <1>1, <1>2 DEF CycleInit
  <2>3. pushRows \in [BatchLeads -> Outcomes \cup {"none"}] /\ deliveries \in [BatchLeads -> 0..2]
    BY <1>1 DEF CycleInit
  <2>4. order \in [what : {"none", "cancel", "recover"}, run : Cycles \cup {NoCycle}]
    BY <1>1 DEF CycleInit, NoOrder
  <2>5. /\ excluded = {} /\ onTime = {} /\ cancelFlag = {} /\ windowOver = {} /\ oldRuns = {} /\ recovered = {}
        /\ heldBack = {} /\ doubled = {} /\ resumed = {} /\ cyclesMet = FALSE
    BY <1>1 DEF CycleInit
  <2>6. orders \in 0..MaxOrders /\ cycleFaults \in 0..MaxCycleFaults
    BY <1>1, CycleAssumption DEF CycleInit
  <2>7. QED
    BY <2>1, <2>2, <2>3, <2>4, <2>5, <2>6 DEF Typed
<1>4. \A e \in Executors : exec[e] = IdleExec
  BY <1>1 DEF CycleInit
<1>5. \A e \in Executors : exec[e].pc = "idle" /\ exec[e].todo = {} /\ exec[e].run = NoCycle /\ exec[e].lead = NoLead
        /\ exec[e].left = {}
  BY <1>4 DEF IdleExec
<1>6. \A r \in Cycles : /\ runRow[r].status = "absent" /\ runRow[r].phase = "signal_discovery" /\ cyclePc[r] = "idle"
  BY <1>1 DEF CycleInit
<1>7. RowInv /\ OrderInv
  BY <1>1, <1>6 DEF CycleInit, RowInv, OrderInv, NoOrder
<1>8. ExecInv
  BY <1>5, CycleAssumption DEF ExecInv, ExecRowOK, Holds
<1>9. TraceInv /\ HeldInv /\ TimeInv
  BY <1>1, <1>5 DEF CycleInit, TraceInv, HeldInv, TimeInv
<1>10. OnceInv
  <2>1. \A r \in Cycles, l \in Leads : deliveries[<<r, l>>] = 0
    BY <1>1 DEF CycleInit, BatchLeads
  <2>2. QED
    BY <1>5, <2>1, CycleAssumption DEF OnceInv
<1>11. OneInv
  BY <1>6 DEF OneInv, Alive, OpenRuns
<1>12. QED
  BY <1>3, <1>7, <1>8, <1>9, <1>10, <1>11 DEF CycleInv

---------------------------------------------------------------------------
(* A step of a cycle: what it leaves alone, and what it may do to a run.   *)
Progress(q) ==
  /\ cyclePc[q] = "done" => cyclePc'[q] = "done" /\ runRow'[q].leads = runRow[q].leads
  /\ runRow[q].batch # "absent" => runRow'[q].batch # "absent"
  /\ runRow'[q].status = "awaiting_approval" => runRow[q].status = "awaiting_approval" \/ cyclePc[q] # "done"
CycleEffect ==
  /\ UNCHANGED <<excluded, pushRows, deliveries, windowOver, oldRuns, exec, order, recovered, heldBack, orders,
                 cancelFlag, onTime, doubled, resumed>>
  /\ cyclePc' \in [Cycles -> Pcs] /\ runRow' \in [Cycles -> RunRow]
  /\ cyclesMet' \in BOOLEAN /\ cycleFaults' \in 0..MaxCycleFaults /\ (cycleFaults' = 0 => cycleFaults = 0)
  /\ RowInv' /\ \A q \in Cycles : Progress(q)

LEMMA FaultType == ASSUME Typed, CycleFault PROVE cycleFaults' \in 0..MaxCycleFaults /\ cycleFaults' # 0
BY CycleAssumption DEF Typed, CycleFault

LEMMA CycleSteps ==
  ASSUME Typed, RowInv, NEW r \in Cycles, CycleStep(r) \/ CycleDies(r)
  PROVE  CycleEffect
<1>1. /\ runRow \in [Cycles -> RunRow] /\ cyclePc \in [Cycles -> Pcs] /\ cyclesMet \in BOOLEAN
      /\ cycleFaults \in 0..MaxCycleFaults
  BY DEF Typed
<1>2. \A q \in Cycles : runRow[q] \in RunRow
  BY <1>1
<1>3. ASSUME CycleFrame, NEW step \in Pcs, CycleTo(r, step), cyclesMet' \in BOOLEAN,
             (step # "done" => cyclePc[r] # "done"), runRow' \in [Cycles -> RunRow],
             cycleFaults' \in 0..MaxCycleFaults, (cycleFaults' = 0 => cycleFaults = 0),
             \A q \in Cycles \ {r} : /\ runRow'[q].batch = runRow[q].batch /\ runRow'[q].phase = runRow[q].phase
                                     /\ runRow'[q].leads = runRow[q].leads
                                     /\ runRow'[q].status \in {runRow[q].status, "failed"}
                                     /\ (runRow[q].status = "absent" => runRow'[q].status = "absent"),
             step \in {"run", "discovering", "deciding", "notifying"} => runRow'[r].batch # "absent",
             runRow'[r].status # "absent" => runRow'[r].batch # "absent",
             runRow'[r].phase = "awaiting_approval" => step = "done" /\ runRow'[r].leads # {} /\ runRow'[r].batch # "absent",
             runRow'[r].status = "awaiting_approval" => step = "done" /\ runRow'[r].leads # {},
             runRow[r].batch # "absent" => runRow'[r].batch # "absent",
             cyclePc[r] # "done"
      PROVE  CycleEffect
  <2>1. /\ cyclePc' \in [Cycles -> Pcs] /\ cyclePc'[r] = step /\ \A q \in Cycles \ {r} : cyclePc'[q] = cyclePc[q]
    BY <1>1, <1>3 DEF CycleTo
  <2>2. RowInv'
    BY <1>3, <2>1 DEF RowInv
  <2>3. \A q \in Cycles : Progress(q)
    BY <1>3, <2>1 DEF Progress
  <2>4. QED
    BY <1>3, <2>1, <2>2, <2>3 DEF CycleEffect, CycleFrame, pushVars, cycleTime, operatorVars
<1>4. CASE ClearStale(r)
  <2>1. /\ cyclePc[r] = "idle" /\ CycleTo(r, "asking") /\ CycleFrame /\ UNCHANGED cycleFaults
        /\ cyclesMet' \in BOOLEAN
    BY <1>1, <1>4 DEF ClearStale
  <2>2. \A q \in Cycles : runRow'[q] = IF runRow[q].status = "running" /\ q \in oldRuns
                                       THEN [runRow[q] EXCEPT !.status = "failed"] ELSE runRow[q]
    BY <1>4 DEF ClearStale
  <2>3. \A q \in Cycles : runRow'[q] \in RunRow
    BY <1>2, <2>2 DEF RunRow
  <2>4. runRow' \in [Cycles -> RunRow]
    BY <1>4, <2>3 DEF ClearStale
  <2>5. \A q \in Cycles : /\ runRow'[q].batch = runRow[q].batch /\ runRow'[q].phase = runRow[q].phase
                          /\ runRow'[q].leads = runRow[q].leads
                          /\ runRow'[q].status \in {runRow[q].status, "failed"}
                          /\ (runRow[q].status = "absent" => runRow'[q].status = "absent")
    BY <1>2, <2>2 DEF RunRow
  <2>6. "asking" \in Pcs /\ "asking" \notin {"run", "discovering", "deciding", "notifying"}
    BY DEF Pcs
  <2>7. /\ runRow[r].batch # "absent" \/ runRow[r].status = "absent"
        /\ runRow[r].phase # "awaiting_approval" /\ runRow[r].status # "awaiting_approval"
    BY <2>1 DEF RowInv
  <2>8. QED
    BY <1>1, <1>3, <2>1, <2>4, <2>5, <2>6, <2>7
<1>5. CASE AskOpen(r)
  <2>1. PICK step \in {"done", "batch"} : CycleTo(r, step)
    BY <1>5 DEF AskOpen
  <2>2. cyclePc[r] = "asking" /\ UNCHANGED <<runRow, cyclesMet, cycleFaults>> /\ CycleFrame /\ step \in Pcs
    BY <1>5 DEF AskOpen, Pcs
  <2>3. QED
    BY <1>1, <1>3, <2>1, <2>2 DEF RowInv
<1>6. CASE InsertCycleBatch(r)
  <2>1. /\ cyclePc[r] = "batch" /\ UNCHANGED <<cyclesMet, cycleFaults>> /\ CycleFrame
        /\ CycleTo(r, "run") /\ "run" \in Pcs
        /\ runRow' = [runRow EXCEPT ![r].batch = "in_progress"]
    BY <1>6 DEF InsertCycleBatch, Pcs
  <2>2. /\ runRow' \in [Cycles -> RunRow] /\ \A q \in Cycles \ {r} : runRow'[q] = runRow[q]
        /\ runRow'[r].batch = "in_progress" /\ runRow'[r].status = runRow[r].status
        /\ runRow'[r].phase = runRow[r].phase /\ runRow'[r].leads = runRow[r].leads
    BY <1>1, <2>1 DEF RunRow
  <2>3. QED
    BY <1>1, <1>3, <2>1, <2>2 DEF RowInv
<1>7. CASE InsertRun(r)
  <2>1. /\ cyclePc[r] = "run" /\ UNCHANGED <<cyclesMet, cycleFaults>> /\ CycleFrame
        /\ CycleTo(r, "discovering") /\ "discovering" \in Pcs
        /\ runRow' = [runRow EXCEPT ![r].status = "running"]
    BY <1>7 DEF InsertRun, Pcs
  <2>2. /\ runRow' \in [Cycles -> RunRow] /\ \A q \in Cycles \ {r} : runRow'[q] = runRow[q]
        /\ runRow'[r].batch = runRow[r].batch /\ runRow'[r].status = "running"
        /\ runRow'[r].phase = runRow[r].phase /\ runRow'[r].leads = runRow[r].leads
    BY <1>1, <2>1 DEF RunRow
  <2>3. QED
    BY <1>1, <1>3, <2>1, <2>2 DEF RowInv
<1>8. CASE DiscoverLeads(r)
  <2>1. PICK found \in SUBSET Leads : runRow' = [runRow EXCEPT ![r].leads = found]
    BY <1>8 DEF DiscoverLeads
  <2>2. /\ cyclePc[r] = "discovering" /\ UNCHANGED <<cyclesMet, cycleFaults>> /\ CycleFrame
        /\ CycleTo(r, "deciding") /\ "deciding" \in Pcs
    BY <1>8 DEF DiscoverLeads, Pcs
  <2>3. /\ runRow' \in [Cycles -> RunRow] /\ \A q \in Cycles \ {r} : runRow'[q] = runRow[q]
        /\ runRow'[r].batch = runRow[r].batch /\ runRow'[r].status = runRow[r].status
        /\ runRow'[r].phase = runRow[r].phase
    BY <1>1, <2>1 DEF RunRow
  <2>4. QED
    BY <1>1, <1>3, <2>2, <2>3 DEF RowInv
<1>9. CASE NothingToPush(r)
  <2>1. /\ cyclePc[r] = "deciding" /\ UNCHANGED <<cyclesMet, cycleFaults>> /\ CycleFrame
        /\ CycleTo(r, "notifying") /\ "notifying" \in Pcs
    BY <1>9 DEF NothingToPush, Pcs
  <2>2. /\ runRow' \in [Cycles -> RunRow] /\ \A q \in Cycles \ {r} : runRow'[q] = runRow[q]
        /\ runRow'[r].batch = "complete" /\ runRow'[r].status = "completed"
        /\ runRow'[r].phase = "autonomous_cycle_done"
    BY <1>1, <1>9 DEF NothingToPush, RunRow
  <2>3. QED
    BY <1>1, <1>3, <2>1, <2>2 DEF RowInv
<1>10. CASE AwaitApproval(r)
  <2>1. /\ cyclePc[r] = "deciding" /\ runRow[r].leads # {} /\ UNCHANGED <<cyclesMet, cycleFaults>> /\ CycleFrame
        /\ CycleTo(r, "done") /\ "done" \in Pcs
    BY <1>10 DEF AwaitApproval, Pcs
  <2>2. /\ runRow' \in [Cycles -> RunRow] /\ \A q \in Cycles \ {r} : runRow'[q] = runRow[q]
        /\ runRow'[r].batch = runRow[r].batch /\ runRow'[r].leads = runRow[r].leads
    BY <1>1, <1>10 DEF AwaitApproval, RunRow
  <2>3. runRow[r].batch # "absent"
    BY <2>1 DEF RowInv
  <2>4. QED
    BY <1>1, <1>3, <2>1, <2>2, <2>3
<1>11. CASE CycleFails(r)
  <2>1. /\ cyclePc[r] \in {"discovering", "deciding", "notifying"} /\ UNCHANGED <<cyclesMet, cycleFaults>> /\ CycleFrame
        /\ CycleTo(r, "done") /\ "done" \in Pcs
    BY <1>11 DEF CycleFails, Pcs
  <2>2. /\ runRow' \in [Cycles -> RunRow] /\ \A q \in Cycles \ {r} : runRow'[q] = runRow[q]
        /\ runRow'[r].batch = "failed" /\ runRow'[r].status = "failed"
        /\ runRow'[r].phase = runRow[r].phase /\ runRow'[r].leads = runRow[r].leads
    BY <1>1, <1>11 DEF CycleFails, RunRow
  <2>3. QED
    BY <1>1, <1>3, <2>1, <2>2 DEF RowInv
<1>12. CASE Notified(r)
  <2>1. /\ cyclePc[r] = "notifying" /\ UNCHANGED <<runRow, cyclesMet, cycleFaults>> /\ CycleFrame
        /\ CycleTo(r, "done") /\ "done" \in Pcs
    BY <1>12 DEF Notified, Pcs
  <2>2. QED
    BY <1>1, <1>3, <2>1 DEF RowInv
<1>13. CASE CycleDies(r)
  <2>1. /\ cyclePc[r] \notin {"idle", "done"} /\ UNCHANGED <<runRow, cyclesMet>> /\ CycleFrame
        /\ CycleTo(r, "done") /\ "done" \in Pcs /\ CycleFault
    BY <1>13 DEF CycleDies, Alive, Pcs
  <2>2. QED
    BY <1>1, <1>3, <2>1, FaultType DEF RowInv
<1>14. QED
  BY <1>4, <1>5, <1>6, <1>7, <1>8, <1>9, <1>10, <1>11, <1>12, <1>13 DEF CycleStep

(* Such a step keeps what is said of executors, requests and contacts.     *)
LEMMA CycleKeeps ==
  ASSUME CycleInv, CycleEffect
  PROVE  Typed' /\ RowInv' /\ OrderInv' /\ ExecInv' /\ TraceInv' /\ OnceInv' /\ HeldInv' /\ TimeInv'
<1>1. /\ UNCHANGED <<excluded, pushRows, deliveries, windowOver, oldRuns, exec, order, recovered, heldBack, orders,
                     cancelFlag, onTime, doubled, resumed>>
      /\ (cycleFaults' = 0 => cycleFaults = 0) /\ RowInv' /\ \A q \in Cycles : Progress(q)
  BY DEF CycleEffect
<1>2. Typed'
  BY DEF CycleInv, Typed, CycleEffect
<1>3. OrderInv'
  BY <1>1 DEF CycleInv, OrderInv, Progress
<1>4. ExecInv'
  BY <1>1 DEF CycleInv, ExecInv, ExecRowOK, Holds, Progress
<1>5. TraceInv'
  <2>1. \A e \in Sweeps : exec[e].pc \in {"loop", "push", "record"} => runRow'[exec[e].run].leads = runRow[exec[e].run].leads
    BY <1>1 DEF CycleInv, ExecInv, ExecRowOK, Holds, Progress, Executors
  <2>2. \A r \in resumed : cyclePc'[r] = "done" /\ runRow'[r].leads = runRow[r].leads
    BY <1>1 DEF CycleInv, TraceInv, Typed, Progress
  <2>3. QED
    BY <1>1, <2>1, <2>2 DEF CycleInv, TraceInv
<1>6. OnceInv'
  BY <1>1 DEF CycleInv, OnceInv, Fresh, Told, Ahead
<1>7. HeldInv'
  BY <1>1 DEF CycleInv, HeldInv, Typed, Holds, Progress
<1>8. TimeInv'
  BY <1>1 DEF CycleInv, TimeInv
<1>9. QED
  BY <1>1, <1>2, <1>3, <1>4, <1>5, <1>6, <1>7, <1>8

LEMMA OneCycleStep ==
  ASSUME CycleInv, NEW r \in Cycles, CycleStep(r) \/ CycleDies(r)
  PROVE  OneInv'
<1>1. /\ runRow \in [Cycles -> RunRow] /\ cyclePc \in [Cycles -> Pcs] /\ \A q \in Cycles : runRow[q] \in RunRow
  BY DEF CycleInv, Typed
<1>2. SUFFICES ASSUME ~cyclesMet', recovered' = {} PROVE OneInv'
  BY DEF OneInv
<1>3. /\ UNCHANGED recovered /\ \A q \in Cycles \ {r} : cyclePc'[q] = cyclePc[q]
  BY <1>1 DEF CycleStep, ClearStale, AskOpen, InsertCycleBatch, InsertRun, DiscoverLeads, NothingToPush, AwaitApproval,
              CycleFails, Notified, CycleDies, CycleFrame, CycleTo, operatorVars
<1>4. CASE ClearStale(r)
  <2>1. /\ \A q \in Cycles : ~Alive(q)
        /\ ~cyclesMet /\ cyclePc'[r] = "asking"
    BY <1>1, <1>2, <1>4 DEF ClearStale, CycleTo
  <2>2. \A q \in Cycles : runRow'[q].status \in {runRow[q].status, "failed"}
    BY <1>1, <1>4 DEF ClearStale, RunRow
  <2>3. OpenRuns' \subseteq OpenRuns
    BY <2>2 DEF OpenRuns
  <2>4. QED
    BY <1>2, <1>3, <2>1, <2>3 DEF CycleInv, OneInv, Alive
<1>5. CASE ~ClearStale(r)
  <2>1. UNCHANGED cyclesMet /\ Alive(r)
    BY <1>5 DEF CycleStep, AskOpen, InsertCycleBatch, InsertRun, DiscoverLeads, NothingToPush, AwaitApproval,
              CycleFails, Notified, CycleDies, Alive
  <2>2. \A q \in Cycles \ {r} : runRow'[q] = runRow[q]
    BY <1>1, <1>5 DEF CycleStep, AskOpen, InsertCycleBatch, InsertRun, DiscoverLeads, NothingToPush, AwaitApproval,
              CycleFails, Notified, CycleDies
  <2>3. /\ \A q \in Cycles : Alive(q) => q = r
        /\ \A p, q \in OpenRuns : p = q
        /\ cyclePc[r] \in {"batch", "run", "discovering", "deciding", "notifying"} => \A q \in OpenRuns : q = r
    BY <1>2, <1>3, <2>1 DEF CycleInv, OneInv
  <2>4. \A q \in Cycles : Alive(q)' => q = r
    BY <1>3, <2>3 DEF Alive
  <2>5. CASE \A q \in OpenRuns : q = r
    <3>1. \A q \in OpenRuns' : q = r
      BY <2>2, <2>5 DEF OpenRuns
    <3>2. QED
      BY <2>4, <3>1 DEF OneInv, Alive
  <2>6. CASE ~(\A q \in OpenRuns : q = r)
    <3>1. (cyclePc[r] = "asking" /\ AskOpen(r)) \/ CycleDies(r)
      BY <1>1, <1>5, <2>1, <2>3, <2>6 DEF Alive, Pcs, CycleStep, AskOpen, InsertCycleBatch, InsertRun, DiscoverLeads,
         NothingToPush, AwaitApproval, CycleFails, Notified
    <3>2. cyclePc'[r] = "done" /\ runRow' = runRow
      BY <1>1, <2>6, <3>1 DEF AskOpen, CycleDies, CycleTo, OpenRuns
    <3>3. OpenRuns' = OpenRuns
      BY <3>2 DEF OpenRuns
    <3>4. QED
      BY <2>3, <2>4, <3>2, <3>3 DEF OneInv, Alive
  <2>7. QED
    BY <2>5, <2>6
<1>6. QED
  BY <1>4, <1>5

---------------------------------------------------------------------------
(* What a step that is not a cycle's does to the runs: it ends some.       *)
RowsKept ==
  /\ cyclePc' = cyclePc /\ runRow' \in [Cycles -> RunRow]
  /\ \A q \in Cycles :
       /\ runRow'[q].leads = runRow[q].leads
       /\ runRow[q].batch # "absent" => runRow'[q].batch # "absent"
       /\ runRow'[q].status # runRow[q].status => runRow'[q].status \in {"completed", "failed", "cancelled"}
       /\ runRow'[q].status # "absent" => runRow'[q].batch # "absent"
       /\ runRow'[q].phase \in {runRow[q].phase, "outreach_done"}

LEMMA RowsKeptKeeps ==
  ASSUME CycleInv, RowsKept
  PROVE  /\ RowInv'
         /\ UNCHANGED order => OrderInv'
         /\ UNCHANGED <<cyclesMet, recovered>> => OneInv'
<1>1. RowInv' /\ (UNCHANGED order => OrderInv')
  BY DEF CycleInv, RowInv, OrderInv, RowsKept
<1>2. OpenRuns' \subseteq OpenRuns
  BY DEF RowsKept, OpenRuns
<1>3. ASSUME UNCHANGED <<cyclesMet, recovered>> PROVE OneInv'
  BY <1>2, <1>3 DEF CycleInv, OneInv, RowsKept, Alive
<1>4. QED
  BY <1>1, <1>3

(* The steps of an executor, field by field.                               *)
Others(e) == \A f \in Executors : f # e => exec'[f] = exec[f]
Same(e) == /\ exec'[e].todo = exec[e].todo /\ exec'[e].run = exec[e].run /\ exec'[e].skip = exec[e].skip
Begins(e) ==
  /\ exec[e].pc = "idle" /\ exec'[e].pc = "next" /\ exec'[e].run = exec[e].run /\ exec'[e].lead = exec[e].lead
  /\ exec'[e].left = exec[e].left
  /\ \A r \in exec'[e].todo : /\ r \in Cycles /\ runRow[r].batch # "absent"
                              /\ e \in Sweeps => runRow[r].status = "awaiting_approval"
  /\ UNCHANGED <<runRow, pushRows, deliveries, doubled, resumed, cycleFaults>>
Enters(e, r) ==
  /\ exec[e].pc = "next" /\ r \in exec[e].todo /\ exec'[e].pc = "loop" /\ exec'[e].todo = exec[e].todo \ {r}
  /\ exec'[e].run = r /\ exec'[e].skip = AlreadyPushed(r) /\ exec'[e].left = runRow[r].leads
  /\ exec'[e].lead = exec[e].lead
  /\ doubled' = doubled \cup {q \in {r} : \E f \in Executors \ {e} : exec[f].run = r}
  /\ UNCHANGED <<runRow, pushRows, deliveries, resumed, cycleFaults>>
Skips(e, l) ==
  /\ exec[e].pc = "loop" /\ l \in exec[e].skip /\ exec'[e].pc = "loop" /\ Same(e)
  /\ exec'[e].left = exec[e].left \ {l} /\ exec'[e].lead = exec[e].lead
  /\ UNCHANGED <<runRow, pushRows, deliveries, doubled, resumed, cycleFaults>>
Takes(e, l) ==
  /\ exec[e].pc = "loop" /\ l \in exec[e].left /\ l \notin exec[e].skip /\ Same(e) /\ l \in Leads
  /\ exec'[e].left = exec[e].left \ {l} /\ exec'[e].lead = l
  /\ \/ exec'[e].pc = "record" /\ exec'[e].result = "unpushed"
     \/ exec'[e].pc = "push" /\ <<exec[e].run, l>> \notin excluded
  /\ UNCHANGED <<runRow, pushRows, deliveries, doubled, resumed, cycleFaults>>
Pushes(e, out) ==
  /\ exec[e].pc = "push" /\ exec'[e].pc = "record" /\ Same(e) /\ exec'[e].result = out
  /\ exec'[e].left = exec[e].left /\ exec'[e].lead = exec[e].lead
  /\ deliveries' = IF out # "pushed" THEN deliveries
       ELSE [deliveries EXCEPT ![<<exec[e].run, exec[e].lead>>] = IF @ = 2 THEN 2 ELSE @ + 1]
  /\ UNCHANGED <<runRow, pushRows, doubled, resumed, cycleFaults>>
Writes(e) ==
  /\ exec[e].pc = "record" /\ exec'[e].pc = "loop" /\ Same(e)
  /\ exec'[e].left = exec[e].left /\ exec'[e].lead = NoLead
  /\ pushRows' = [pushRows EXCEPT ![<<exec[e].run, exec[e].lead>>] = IF @ = "pushed" THEN @ ELSE exec[e].result]
  /\ UNCHANGED <<runRow, deliveries, doubled, resumed, cycleFaults>>
Leaves(e) ==
  /\ exec[e].pc # "idle"
  /\ exec'[e].pc \in {"idle", "next"} /\ exec'[e].run = NoCycle /\ exec'[e].lead = NoLead
  /\ exec'[e].left = {} /\ exec'[e].todo \subseteq exec[e].todo /\ (exec'[e].pc = "idle" => exec'[e].todo = {})
  /\ \/ exec[e].pc = "loop" /\ exec[e].left = {} /\ cycleFaults' = cycleFaults
     \/ cycleFaults' # 0 /\ cycleFaults' \in 0..MaxCycleFaults
  /\ \/ resumed' = resumed
     \/ /\ e \in Sweeps /\ exec[e].pc = "loop" /\ exec[e].left = {}
        /\ resumed' = resumed \cup {exec[e].run}
  /\ UNCHANGED <<pushRows, deliveries, doubled>>

ExecAct(e) ==
  \/ e \in Sweeps /\ SweepStep(e)
  \/ e \in PushRoutes /\ (ExecStep(e) \/ RouteDone(e) \/ \E r \in Cycles : StartRoute(e, r))
  \/ ExecutionFails(e) \/ ExecutorDies(e)

ExecEffect(e) ==
  /\ UNCHANGED <<cancelFlag, excluded, windowOver, oldRuns, cyclePc, order, recovered, heldBack, orders, onTime, cyclesMet>>
  /\ exec' \in [Executors -> ExecRow] /\ Others(e) /\ RowsKept
  /\ \/ Begins(e) \/ Leaves(e) \/ Writes(e)
     \/ \E r \in Cycles : Enters(e, r)
     \/ \E l \in Leads : Skips(e, l) \/ Takes(e, l)
     \/ \E out \in Outcomes : Pushes(e, out)

LEMMA RowsAsTheyWere ==
  ASSUME CycleInv, UNCHANGED <<runRow, cyclePc>>
  PROVE  RowsKept
BY DEF CycleInv, Typed, RowInv, RowsKept

(* Leaving a run: on to the next one, or idle.                             *)
LEMMA LeaveFields ==
  ASSUME Typed, NEW e \in Executors, LeaveRun(e) \/ exec' = [exec EXCEPT ![e] = IdleExec]
  PROVE  /\ exec' \in [Executors -> ExecRow] /\ Others(e)
         /\ exec'[e].pc \in {"idle", "next"} /\ exec'[e].run = NoCycle /\ exec'[e].lead = NoLead
         /\ exec'[e].left = {} /\ exec'[e].todo \subseteq exec[e].todo
         /\ (exec'[e].pc = "idle" => exec'[e].todo = {})
<1>1. exec \in [Executors -> ExecRow] /\ exec[e] \in ExecRow
  BY DEF Typed
<1>2. PICK new : /\ exec' = [exec EXCEPT ![e] = new]
                 /\ new = IdleExec \/ new = [IdleExec EXCEPT !.pc = "next", !.todo = exec[e].todo]
  BY <1>1 DEF LeaveRun
<1>3. /\ new \in ExecRow /\ new.pc \in {"idle", "next"} /\ new.run = NoCycle /\ new.lead = NoLead /\ new.left = {}
      /\ new.todo \subseteq exec[e].todo /\ (new.pc = "idle" => new.todo = {})
  <2>1. CASE new = IdleExec
    BY <1>1, <2>1 DEF IdleExec, ExecRow
  <2>2. CASE new = [IdleExec EXCEPT !.pc = "next", !.todo = exec[e].todo]
    <3>1. exec[e].todo \in SUBSET Cycles
      BY <1>1 DEF ExecRow
    <3>2. QED
      BY <2>2, <3>1 DEF IdleExec, ExecRow
  <2>3. QED
    BY <1>2, <2>1, <2>2
<1>4. QED
  BY <1>1, <1>2, <1>3 DEF Others

LEMMA ExecSteps ==
  ASSUME CycleInv, NEW e \in Executors, ExecAct(e)
  PROVE  ExecEffect(e)
<1>1. /\ exec \in [Executors -> ExecRow] /\ exec[e] \in ExecRow /\ runRow \in [Cycles -> RunRow]
      /\ \A q \in Cycles : runRow[q] \in RunRow
  BY DEF CycleInv, Typed
<1>2. UNCHANGED <<cancelFlag, excluded, windowOver, oldRuns, cyclePc, order, recovered, heldBack, orders, onTime, cyclesMet>>
  BY DEF ExecAct, SweepStep, ExecStep, StartSweep, StartRoute, StartExecution, SkipPushed, TakeLead, PushLead, RecordPush,
         ResumeRun, RouteDone, ExecutionFails, ExecutorDies, ExecFrame, cycleTime, operatorVars
<1>3. CASE e \in Sweeps /\ StartSweep(e)
  <2>1. /\ exec[e].pc = "idle" /\ exec' = [exec EXCEPT ![e].pc = "next", ![e].todo = DueRuns]
        /\ UNCHANGED <<runRow, pushRows, deliveries, doubled, resumed, cycleFaults>>
    BY <1>3 DEF StartSweep, pushVars
  <2>2. DueRuns \in SUBSET Cycles /\ \A r \in DueRuns : runRow[r].status = "awaiting_approval" /\ runRow[r].batch # "absent"
    BY DEF DueRuns, CycleInv, Typed, RowInv
  <2>3. exec' \in [Executors -> ExecRow] /\ Others(e)
    BY <1>1, <2>1, <2>2 DEF ExecRow, Others
  <2>4. Begins(e)
    BY <1>1, <2>1, <2>2 DEF ExecRow, Begins
  <2>5. QED
    BY <1>2, <2>1, <2>3, <2>4, RowsAsTheyWere DEF ExecEffect
<1>4. ASSUME NEW r \in Cycles, e \in PushRoutes, StartRoute(e, r) PROVE ExecEffect(e)
  <2>1. /\ exec[e].pc = "idle" /\ exec' = [exec EXCEPT ![e].pc = "next", ![e].todo = {r}] /\ runRow[r].batch # "absent"
        /\ UNCHANGED <<runRow, pushRows, deliveries, doubled, resumed, cycleFaults>> /\ e \notin Sweeps
    BY <1>4, CycleAssumption DEF StartRoute, pushVars
  <2>2. {r} \in SUBSET Cycles
    OBVIOUS
  <2>3. exec' \in [Executors -> ExecRow] /\ Others(e)
    BY <1>1, <2>1, <2>2 DEF ExecRow, Others
  <2>4. Begins(e)
    BY <1>1, <2>1, <2>2 DEF ExecRow, Begins
  <2>5. QED
    BY <1>2, <2>1, <2>3, <2>4, RowsAsTheyWere DEF ExecEffect
<1>5. ASSUME NEW r \in Cycles, StartExecution(e, r) PROVE ExecEffect(e)
  <2>1. /\ exec[e].pc = "next" /\ r \in exec[e].todo
        /\ exec' = [exec EXCEPT ![e].pc = "loop", ![e].todo = @ \ {r}, ![e].run = r,
                                ![e].skip = AlreadyPushed(r), ![e].left = runRow[r].leads]
        /\ UNCHANGED <<runRow, pushRows, deliveries, resumed, cycleFaults>>
        /\ doubled' = doubled \cup {q \in {r} : \E f \in Executors \ {e} : exec[f].run = r}
    BY <1>5 DEF StartExecution, pushVars
  <2>2. AlreadyPushed(r) \in SUBSET Leads /\ runRow[r].leads \in SUBSET Leads /\ exec[e].todo \ {r} \in SUBSET Cycles
    BY <1>1 DEF AlreadyPushed, RunRow, ExecRow
  <2>3. exec' \in [Executors -> ExecRow] /\ Others(e)
    BY <1>1, <2>1, <2>2 DEF ExecRow, Others
  <2>4. Enters(e, r)
    BY <1>1, <2>1 DEF ExecRow, Enters
  <2>5. QED
    BY <1>2, <2>1, <2>3, <2>4, RowsAsTheyWere DEF ExecEffect
<1>6. ASSUME NEW l \in Leads, SkipPushed(e, l) PROVE ExecEffect(e)
  <2>1. /\ exec[e].pc = "loop" /\ l \in exec[e].left \cap exec[e].skip
        /\ exec' = [exec EXCEPT ![e].left = @ \ {l}]
        /\ UNCHANGED <<runRow, pushRows, deliveries, doubled, resumed, cycleFaults>>
    BY <1>6 DEF SkipPushed, pushVars
  <2>2. exec' \in [Executors -> ExecRow] /\ Others(e)
    BY <1>1, <2>1 DEF ExecRow, Others
  <2>3. Skips(e, l)
    BY <1>1, <2>1 DEF ExecRow, Skips, Same
  <2>4. QED
    BY <1>2, <2>1, <2>2, <2>3, RowsAsTheyWere DEF ExecEffect
<1>7. ASSUME NEW l \in Leads, TakeLead(e, l) PROVE ExecEffect(e)
  <2>1. /\ exec[e].pc = "loop" /\ l \in exec[e].left \ exec[e].skip
        /\ UNCHANGED <<runRow, pushRows, deliveries, doubled, resumed, cycleFaults>>
    BY <1>7 DEF TakeLead, pushVars
  <2>2. CASE <<exec[e].run, l>> \in excluded
    <3>1. exec' = [exec EXCEPT ![e].pc = "record", ![e].left = @ \ {l}, ![e].lead = l, ![e].result = "unpushed"]
      BY <1>7, <2>2 DEF TakeLead
    <3>2. exec' \in [Executors -> ExecRow] /\ Others(e)
      BY <1>1, <3>1 DEF ExecRow, Others, Outcomes
    <3>3. Takes(e, l)
      BY <1>1, <2>1, <3>1 DEF ExecRow, Takes, Same
    <3>4. QED
      BY <1>2, <2>1, <3>2, <3>3, RowsAsTheyWere DEF ExecEffect
  <2>3. CASE <<exec[e].run, l>> \notin excluded
    <3>1. exec' = [exec EXCEPT ![e].pc = "push", ![e].left = @ \ {l}, ![e].lead = l]
      BY <1>7, <2>3 DEF TakeLead
    <3>2. exec' \in [Executors -> ExecRow] /\ Others(e)
      BY <1>1, <3>1 DEF ExecRow, Others
    <3>3. Takes(e, l)
      BY <1>1, <2>1, <2>3, <3>1 DEF ExecRow, Takes, Same
    <3>4. QED
      BY <1>2, <2>1, <3>2, <3>3, RowsAsTheyWere DEF ExecEffect
  <2>4. QED
    BY <2>2, <2>3
<1>8. CASE PushLead(e)
  <2>1. exec[e].pc = "push" /\ UNCHANGED <<runRow, pushRows, doubled, resumed, cycleFaults>>
    BY <1>8 DEF PushLead
  <2>2. PICK out \in Outcomes :
          /\ exec' = [exec EXCEPT ![e].pc = "record", ![e].result = out]
          /\ deliveries' = IF out # "pushed" THEN deliveries
               ELSE [deliveries EXCEPT ![<<exec[e].run, exec[e].lead>>] = IF @ = 2 THEN 2 ELSE @ + 1]
    BY <1>8 DEF PushLead
  <2>3. exec' \in [Executors -> ExecRow] /\ Others(e)
    BY <1>1, <2>2 DEF ExecRow, Others
  <2>4. Pushes(e, out)
    BY <1>1, <2>1, <2>2 DEF ExecRow, Pushes, Same
  <2>5. QED
    BY <1>2, <2>1, <2>3, <2>4, RowsAsTheyWere DEF ExecEffect
<1>9. CASE RecordPush(e)
  <2>1. /\ exec[e].pc = "record" /\ UNCHANGED <<runRow, deliveries, doubled, resumed, cycleFaults>>
        /\ pushRows' = [pushRows EXCEPT ![<<exec[e].run, exec[e].lead>>] = IF @ = "pushed" THEN @ ELSE exec[e].result]
        /\ exec' = [exec EXCEPT ![e].pc = "loop", ![e].lead = NoLead, ![e].result = "none"]
    BY <1>9 DEF RecordPush
  <2>2. exec' \in [Executors -> ExecRow] /\ Others(e)
    BY <1>1, <2>1 DEF ExecRow, Others
  <2>3. Writes(e)
    BY <1>1, <2>1 DEF ExecRow, Writes, Same
  <2>4. QED
    BY <1>2, <2>1, <2>2, <2>3, RowsAsTheyWere DEF ExecEffect
<1>10. ASSUME exec[e].pc \in {"loop", "push", "record"} PROVE exec[e].run \in Cycles /\ runRow[exec[e].run].batch # "absent"
  BY <1>10 DEF CycleInv, ExecInv, ExecRowOK, Holds
<1>11. CASE e \in Sweeps /\ ResumeRun(e)
  <2>1. /\ exec[e].pc = "loop" /\ exec[e].left = {} /\ resumed' = resumed \cup {exec[e].run} /\ LeaveRun(e)
        /\ UNCHANGED <<pushRows, deliveries, doubled, cycleFaults>>
    BY <1>11 DEF ResumeRun, LoopEnds, pushVars
  <2>2. PICK r \in Cycles : r = exec[e].run /\ runRow[r].batch # "absent"
    BY <1>10, <2>1
  <2>3. runRow' = [runRow EXCEPT ![r].status = "completed", ![r].batch = "complete", ![r].phase = "outreach_done"]
    BY <1>11, <2>2 DEF ResumeRun
  <2>4. RowsKept
    BY <1>1, <1>2, <2>2, <2>3 DEF RowsKept, RunRow, CycleInv, RowInv
  <2>5. Leaves(e)
    BY <1>11, <2>1, LeaveFields DEF Leaves, CycleInv
  <2>6. QED
    BY <1>2, <2>1, <2>4, <2>5, LeaveFields DEF ExecEffect, CycleInv
<1>12. CASE RouteDone(e)
  <2>1. /\ exec[e].pc = "loop" /\ exec[e].left = {} /\ LeaveRun(e)
        /\ UNCHANGED <<pushRows, deliveries, doubled, resumed, cycleFaults>>
    BY <1>12 DEF RouteDone, LoopEnds, pushVars
  <2>2. PICK r \in Cycles : r = exec[e].run
    BY <1>10, <2>1
  <2>3. runRow' = [runRow EXCEPT ![r].phase = "outreach_done"]
    BY <1>12, <2>2 DEF RouteDone
  <2>4. RowsKept
    BY <1>1, <1>2, <2>2, <2>3 DEF RowsKept, RunRow, CycleInv, RowInv
  <2>5. Leaves(e)
    BY <2>1, LeaveFields DEF Leaves, CycleInv
  <2>6. QED
    BY <1>2, <2>1, <2>4, <2>5, LeaveFields DEF ExecEffect, CycleInv
<1>13. CASE ExecutionFails(e)
  <2>1. /\ exec[e].pc = "record" /\ LeaveRun(e) /\ CycleFault
        /\ UNCHANGED <<pushRows, deliveries, doubled, resumed>>
    BY <1>13 DEF ExecutionFails, pushVars
  <2>2. PICK r \in Cycles : r = exec[e].run /\ runRow[r].batch # "absent"
    BY <1>10, <2>1
  <2>3. runRow' = runRow \/ runRow' = [runRow EXCEPT ![r].status = "failed"]
    BY <1>13, <2>2 DEF ExecutionFails
  <2>4. RowsKept
    BY <1>1, <1>2, <2>2, <2>3 DEF RowsKept, RunRow, CycleInv, RowInv
  <2>5. Leaves(e)
    BY <2>1, LeaveFields, FaultType DEF Leaves, CycleInv
  <2>6. QED
    BY <1>2, <2>1, <2>4, <2>5, LeaveFields DEF ExecEffect, CycleInv
<1>14. CASE ExecutorDies(e)
  <2>1. /\ exec[e].pc # "idle" /\ CycleFault /\ exec' = [exec EXCEPT ![e] = IdleExec]
        /\ UNCHANGED <<runRow, pushRows, deliveries, doubled, resumed>>
    BY <1>14 DEF ExecutorDies, pushVars
  <2>2. Leaves(e)
    BY <2>1, LeaveFields, FaultType DEF Leaves, CycleInv
  <2>3. QED
    BY <1>2, <2>1, <2>2, LeaveFields, RowsAsTheyWere DEF ExecEffect, CycleInv
<1>15. QED
  BY <1>3, <1>4, <1>5, <1>6, <1>7, <1>8, <1>9, <1>11, <1>12, <1>13, <1>14 DEF ExecAct, SweepStep, ExecStep

(* What a step of an executor keeps: its types and its own row.            *)
LEMMA ExecKeepsRows ==
  ASSUME CycleInv, NEW e \in Executors, ExecEffect(e)
  PROVE  Typed' /\ RowInv' /\ OrderInv' /\ ExecInv' /\ OneInv'
<1>1. RowsKept /\ RowInv' /\ OrderInv' /\ OneInv'
  BY RowsKeptKeeps DEF ExecEffect
<1>2. /\ exec \in [Executors -> ExecRow] /\ exec[e] \in ExecRow /\ resumed \subseteq Cycles /\ doubled \subseteq Cycles
      /\ pushRows \in [BatchLeads -> Outcomes \cup {"none"}] /\ deliveries \in [BatchLeads -> 0..2]
      /\ cycleFaults \in 0..MaxCycleFaults /\ ExecRowOK(e)
  BY DEF CycleInv, Typed, ExecInv
<1>3. Typed'
  <2>1. pushRows' \in [BatchLeads -> Outcomes \cup {"none"}]
    <3>1. pushRows' = pushRows \/ Writes(e)
      BY DEF ExecEffect, Begins, Leaves, Enters, Skips, Takes, Pushes
    <3>2. CASE Writes(e)
      <4>1. exec[e].result \in Outcomes
        BY <1>2, <3>2 DEF Writes, ExecRowOK
      <4>2. QED
        BY <1>2, <3>2, <4>1 DEF Writes
    <3>3. QED
      BY <1>2, <3>1, <3>2
  <2>2. deliveries' \in [BatchLeads -> 0..2]
    <3>1. deliveries' = deliveries \/ \E out \in Outcomes : Pushes(e, out)
      BY DEF ExecEffect, Begins, Leaves, Enters, Skips, Takes, Writes
    <3>2. ASSUME NEW out \in Outcomes, Pushes(e, out) PROVE deliveries' \in [BatchLeads -> 0..2]
      <4>1. PICK x \in BatchLeads : x = <<exec[e].run, exec[e].lead>>
        BY <1>2, <3>2 DEF Pushes, ExecRowOK, BatchLeads
      <4>2. PICK n \in 0..2 : n = deliveries[x]
        BY <1>2
      <4>3. PICK m \in 0..2 : m = IF n = 2 THEN 2 ELSE n + 1
        BY <4>2
      <4>4. deliveries' = deliveries \/ deliveries' = [deliveries EXCEPT ![x] = m]
        BY <3>2, <4>1, <4>2, <4>3 DEF Pushes
      <4>5. QED
        BY <1>2, <4>4
    <3>3. QED
      BY <1>2, <3>1, <3>2
  <2>3. resumed' \subseteq Cycles /\ doubled' \subseteq Cycles /\ cycleFaults' \in 0..MaxCycleFaults
    BY <1>2 DEF ExecEffect, Begins, Leaves, Enters, Skips, Takes, Pushes, Writes, ExecRowOK
  <2>4. /\ UNCHANGED <<cancelFlag, excluded, windowOver, oldRuns, cyclePc, order, recovered, heldBack, orders, onTime, cyclesMet>>
        /\ exec' \in [Executors -> ExecRow] /\ runRow' \in [Cycles -> RunRow]
    BY DEF ExecEffect, RowsKept
  <2>5. QED
    BY <2>1, <2>2, <2>3, <2>4 DEF CycleInv, Typed
<1>4. ExecRowOK(e)'
  BY <1>2, CycleAssumption DEF ExecEffect, Begins, Leaves, Enters, Skips, Takes, Pushes, Writes, Same, ExecRowOK, ExecRow, Outcomes
<1>5. ASSUME NEW r \in Cycles, Holds(e, r)'
      PROVE  runRow[r].batch # "absent" /\ (e \in Sweeps => cyclePc[r] = "done")
  <2>1. CASE Begins(e)
    <3>1. r \in exec'[e].todo
      BY <1>2, <1>5, <2>1, CycleAssumption DEF Begins, ExecRowOK, Holds
    <3>2. QED
      BY <2>1, <3>1 DEF Begins, CycleInv, RowInv
  <2>2. CASE ~Begins(e)
    <3>1. Holds(e, r)
      BY <1>2, <1>5, <2>2, CycleAssumption DEF Holds, ExecEffect, Leaves, Enters, Skips, Takes, Pushes, Writes, Same
    <3>2. QED
      BY <3>1 DEF CycleInv, ExecInv
  <2>3. QED
    BY <2>1, <2>2
<1>6. ExecInv'
  BY <1>1, <1>4, <1>5 DEF CycleInv, ExecInv, ExecRowOK, Holds, ExecEffect, Others, RowsKept
<1>7. QED
  BY <1>1, <1>3, <1>6

(* Nothing is lost on the way.                                             *)
LEMMA ExecKeepsTrace ==
  ASSUME CycleInv, NEW e \in Executors, ExecEffect(e)
  PROVE  TraceInv'
<1>1. /\ exec[e] \in ExecRow /\ pushRows \in [BatchLeads -> Outcomes \cup {"none"}] /\ ExecRowOK(e) /\ Others(e)
      /\ \A q \in Cycles : runRow'[q].leads = runRow[q].leads /\ runRow[q].leads \in SUBSET Leads
      /\ cyclePc' = cyclePc /\ resumed \subseteq Cycles
  BY DEF CycleInv, Typed, ExecInv, ExecEffect, RowsKept, RunRow
<1>2. /\ \A x \in BatchLeads : /\ pushRows[x] = "pushed" => pushRows'[x] = "pushed"
                               /\ pushRows[x] # "none" => pushRows'[x] # "none"
  <2>1. pushRows' = pushRows \/ Writes(e)
    BY DEF ExecEffect, Begins, Leaves, Enters, Skips, Takes, Pushes
  <2>2. CASE Writes(e)
    BY <1>1, <2>2 DEF Writes, ExecRowOK, Outcomes
  <2>3. QED
    BY <2>1, <2>2
<1>3. \A r \in Cycles, l \in Leads : <<r, l>> \in BatchLeads
  BY DEF BatchLeads
<1>4. \A f \in Executors : exec[f].pc \in {"loop", "push", "record"} => exec[f].run \in Cycles
  BY DEF CycleInv, ExecInv, ExecRowOK
<1>5. \A f \in Executors : exec[f].skip \in SUBSET Leads
  BY DEF CycleInv, Typed, ExecRow
<1>6. ASSUME NEW f \in Executors, f # e, exec'[f].pc \in {"loop", "push", "record"}
      PROVE  /\ \A l \in exec'[f].skip : pushRows'[<<exec'[f].run, l>>] = "pushed"
             /\ f \in Sweeps => \A l \in runRow'[exec'[f].run].leads :
                  l \in exec'[f].left \/ l = exec'[f].lead \/ pushRows'[<<exec'[f].run, l>>] # "none"
  <2>1. exec'[f] = exec[f]
    BY <1>1, <1>6 DEF Others
  <2>2. /\ \A l \in exec[f].skip : pushRows[<<exec[f].run, l>>] = "pushed"
        /\ f \in Sweeps => \A l \in runRow[exec[f].run].leads :
             l \in exec[f].left \/ l = exec[f].lead \/ pushRows[<<exec[f].run, l>>] # "none"
    BY <1>6, <2>1 DEF CycleInv, TraceInv
  <2>3. QED
    BY <1>1, <1>2, <1>3, <1>4, <1>5, <1>6, <2>1, <2>2
<1>7. ASSUME exec'[e].pc \in {"loop", "push", "record"}
      PROVE  /\ \A l \in exec'[e].skip : pushRows'[<<exec'[e].run, l>>] = "pushed"
             /\ e \in Sweeps => \A l \in runRow'[exec'[e].run].leads :
                  l \in exec'[e].left \/ l = exec'[e].lead \/ pushRows'[<<exec'[e].run, l>>] # "none"
  <2>1. ASSUME NEW r \in Cycles, Enters(e, r)
        PROVE  /\ \A l \in exec'[e].skip : pushRows'[<<exec'[e].run, l>>] = "pushed"
               /\ e \in Sweeps => \A l \in runRow'[exec'[e].run].leads :
                    l \in exec'[e].left \/ l = exec'[e].lead \/ pushRows'[<<exec'[e].run, l>>] # "none"
    BY <1>1, <1>2, <1>3, <2>1 DEF Enters, AlreadyPushed
  <2>2. ASSUME exec[e].pc \in {"loop", "push", "record"}, exec'[e].run = exec[e].run, exec'[e].skip = exec[e].skip,
               \A l \in Leads : l \in exec[e].left \/ l = exec[e].lead =>
                 \/ l \in exec'[e].left \/ l = exec'[e].lead \/ pushRows'[<<exec[e].run, l>>] # "none"
        PROVE  /\ \A l \in exec'[e].skip : pushRows'[<<exec'[e].run, l>>] = "pushed"
               /\ e \in Sweeps => \A l \in runRow'[exec'[e].run].leads :
                    l \in exec'[e].left \/ l = exec'[e].lead \/ pushRows'[<<exec'[e].run, l>>] # "none"
    <3>1. /\ \A l \in exec[e].skip : pushRows[<<exec[e].run, l>>] = "pushed"
          /\ e \in Sweeps => \A l \in runRow[exec[e].run].leads :
               l \in exec[e].left \/ l = exec[e].lead \/ pushRows[<<exec[e].run, l>>] # "none"
      BY <2>2 DEF CycleInv, TraceInv
    <3>2. QED
      BY <1>1, <1>2, <1>3, <1>4, <1>5, <2>2, <3>1
  <2>3. ASSUME NEW l \in Leads, Skips(e, l)
        PROVE  \A m \in Leads : m \in exec[e].left \/ m = exec[e].lead =>
                 \/ m \in exec'[e].left \/ m = exec'[e].lead \/ pushRows'[<<exec[e].run, m>>] # "none"
    <3>1. pushRows[<<exec[e].run, l>>] = "pushed" /\ exec[e].run \in Cycles
      BY <1>1, <2>3 DEF Skips, CycleInv, TraceInv, ExecRowOK
    <3>2. QED
      BY <2>3, <3>1 DEF Skips
  <2>4. ASSUME NEW l \in Leads, Takes(e, l)
        PROVE  \A m \in Leads : m \in exec[e].left \/ m = exec[e].lead =>
                 \/ m \in exec'[e].left \/ m = exec'[e].lead \/ pushRows'[<<exec[e].run, m>>] # "none"
    BY <1>1, <2>4, CycleAssumption DEF Takes, ExecRowOK
  <2>5. ASSUME NEW out \in Outcomes, Pushes(e, out)
        PROVE  \A m \in Leads : m \in exec[e].left \/ m = exec[e].lead =>
                 \/ m \in exec'[e].left \/ m = exec'[e].lead \/ pushRows'[<<exec[e].run, m>>] # "none"
    BY <2>5 DEF Pushes
  <2>6. ASSUME Writes(e)
        PROVE  \A m \in Leads : m \in exec[e].left \/ m = exec[e].lead =>
                 \/ m \in exec'[e].left \/ m = exec'[e].lead \/ pushRows'[<<exec[e].run, m>>] # "none"
    <3>1. <<exec[e].run, exec[e].lead>> \in BatchLeads /\ exec[e].result \in Outcomes
      BY <1>1, <1>3, <2>6 DEF Writes, ExecRowOK
    <3>2. pushRows'[<<exec[e].run, exec[e].lead>>] # "none"
      BY <1>1, <2>6, <3>1 DEF Writes, Outcomes
    <3>3. QED
      BY <2>6, <3>2 DEF Writes
  <2>7. QED
    BY <1>7, <2>1, <2>2, <2>3, <2>4, <2>5, <2>6 DEF ExecEffect, Begins, Leaves, Skips, Takes, Pushes, Writes, Same
<1>8. \A r \in resumed' : cyclePc'[r] = "done" /\ \A l \in runRow'[r].leads : pushRows'[<<r, l>>] # "none"
  <2>1. ASSUME NEW r \in resumed PROVE cyclePc[r] = "done" /\ \A l \in runRow[r].leads : pushRows'[<<r, l>>] # "none"
    BY <1>1, <1>2, <1>3 DEF CycleInv, TraceInv
  <2>2. CASE resumed' = resumed
    BY <1>1, <2>1, <2>2
  <2>3. CASE /\ e \in Sweeps /\ exec[e].pc = "loop" /\ exec[e].left = {}
             /\ resumed' = resumed \cup {exec[e].run}
    <3>1. exec[e].run \in Cycles /\ exec[e].lead = NoLead
      BY <1>1, <2>3 DEF ExecRowOK
    <3>2. cyclePc[exec[e].run] = "done"
      BY <2>3, <3>1 DEF CycleInv, ExecInv, Holds
    <3>3. \A l \in runRow[exec[e].run].leads : pushRows[<<exec[e].run, l>>] # "none"
      BY <1>1, <2>3, <3>1, CycleAssumption DEF CycleInv, TraceInv
    <3>4. QED
      BY <1>1, <1>2, <1>3, <2>1, <2>3, <3>1, <3>2, <3>3
  <2>4. QED
    BY <2>2, <2>3 DEF ExecEffect, Begins, Leaves, Enters, Skips, Takes, Pushes, Writes
<1>9. QED
  BY <1>6, <1>7, <1>8 DEF TraceInv

(* Who pushes a contact, and how often it was delivered.                   *)
LEMMA ExecKeepsOnce ==
  ASSUME CycleInv, NEW e \in Executors, ExecEffect(e)
  PROVE  OnceInv'
<1>1. /\ exec \in [Executors -> ExecRow] /\ exec[e] \in ExecRow /\ exec'[e] \in ExecRow
      /\ pushRows \in [BatchLeads -> Outcomes \cup {"none"}]
      /\ deliveries \in [BatchLeads -> 0..2] /\ ExecRowOK(e) /\ Others(e) /\ doubled \subseteq Cycles
  BY DEF CycleInv, Typed, ExecInv, ExecEffect
<1>2. SUFFICES ASSUME NEW r \in Cycles, Fresh(r)'
               PROVE  /\ \A d, f \in Executors : exec'[d].run = r /\ exec'[f].run = r => d = f
                      /\ \A l \in Leads :
                           /\ deliveries'[<<r, l>>] <= 1
                           /\ deliveries'[<<r, l>>] = 1 => pushRows'[<<r, l>>] = "pushed" \/ \E f \in Executors : Told(f, r, l)'
                           /\ \A f \in Executors : Ahead(f, r, l)' => deliveries'[<<r, l>>] = 0
  BY DEF OnceInv
<1>3. Fresh(r) /\ cycleFaults' = 0
  BY <1>1, <1>2 DEF Fresh, ExecEffect, Begins, Leaves, Enters, Skips, Takes, Pushes, Writes
<1>4. /\ \A d, f \in Executors : exec[d].run = r /\ exec[f].run = r => d = f
      /\ \A l \in Leads :
           /\ deliveries[<<r, l>>] <= 1
           /\ deliveries[<<r, l>>] = 1 => pushRows[<<r, l>>] = "pushed" \/ \E f \in Executors : Told(f, r, l)
           /\ \A f \in Executors : Ahead(f, r, l) => deliveries[<<r, l>>] = 0
  BY <1>3 DEF CycleInv, OnceInv
<1>5. /\ \A l \in Leads : <<r, l>> \in BatchLeads
      /\ \A f \in Executors, l \in Leads : f # e => /\ Told(f, r, l) <=> Told(f, r, l)'
                                                    /\ Ahead(f, r, l) <=> Ahead(f, r, l)'
  BY <1>1 DEF BatchLeads, Others, Told, Ahead
(* A step that changes no delivery and no row.                             *)
<1>6. ASSUME \A d, f \in Executors : exec'[d].run = r /\ exec'[f].run = r => d = f,
             UNCHANGED <<deliveries, pushRows>>, \A l \in Leads : Told(e, r, l) => Told(e, r, l)',
             \A l \in Leads : Ahead(e, r, l)' => Ahead(e, r, l) \/ deliveries[<<r, l>>] = 0
      PROVE  /\ \A d, f \in Executors : exec'[d].run = r /\ exec'[f].run = r => d = f
             /\ \A l \in Leads :
                  /\ deliveries'[<<r, l>>] <= 1
                  /\ deliveries'[<<r, l>>] = 1 => pushRows'[<<r, l>>] = "pushed" \/ \E f \in Executors : Told(f, r, l)'
                  /\ \A f \in Executors : Ahead(f, r, l)' => deliveries'[<<r, l>>] = 0
  BY <1>4, <1>5, <1>6
<1>7. exec'[e].run = exec[e].run \/ exec'[e].run = NoCycle
      => \A d, f \in Executors : exec'[d].run = r /\ exec'[f].run = r => d = f
  BY <1>1, <1>4, CycleAssumption DEF Others
<1>8. CASE Begins(e)
  <2>1. exec'[e].run = exec[e].run /\ UNCHANGED <<deliveries, pushRows>>
    BY <1>8 DEF Begins
  <2>2. exec[e].run = NoCycle
    BY <1>1, <1>8 DEF Begins, ExecRowOK
  <2>3. \A l \in Leads : ~Told(e, r, l) /\ ~Ahead(e, r, l)'
    BY <2>1, <2>2, CycleAssumption DEF Told, Ahead
  <2>4. QED
    BY <1>6, <1>7, <2>1, <2>3
<1>9. CASE Leaves(e)
  <2>1. exec'[e].run = NoCycle /\ UNCHANGED <<deliveries, pushRows>> /\ exec[e].pc = "loop"
    BY <1>3, <1>9 DEF Leaves
  <2>2. \A l \in Leads : ~Told(e, r, l) /\ ~Ahead(e, r, l)'
    BY <2>1, CycleAssumption DEF Told, Ahead
  <2>3. QED
    BY <1>6, <1>7, <2>1, <2>2
<1>10. ASSUME NEW q \in Cycles, Enters(e, q)
       PROVE  /\ \A d, f \in Executors : exec'[d].run = r /\ exec'[f].run = r => d = f
              /\ \A l \in Leads :
                   /\ deliveries'[<<r, l>>] <= 1
                   /\ deliveries'[<<r, l>>] = 1 => pushRows'[<<r, l>>] = "pushed" \/ \E f \in Executors : Told(f, r, l)'
                   /\ \A f \in Executors : Ahead(f, r, l)' => deliveries'[<<r, l>>] = 0
  <2>1. exec[e].run = NoCycle /\ exec'[e].run = q /\ UNCHANGED <<deliveries, pushRows>>
    BY <1>1, <1>10 DEF Enters, ExecRowOK
  <2>2. \A l \in Leads : ~Told(e, r, l)
    BY <2>1, CycleAssumption DEF Told
  <2>3. CASE q # r
    <3>1. \A d, f \in Executors : exec'[d].run = r /\ exec'[f].run = r => d = f
      BY <1>1, <1>4, <2>1, <2>3 DEF Others
    <3>2. \A l \in Leads : ~Ahead(e, r, l)'
      BY <2>1, <2>3 DEF Ahead
    <3>3. QED
      BY <1>6, <2>1, <2>2, <3>1, <3>2
  <2>4. CASE q = r
    <3>1. \A f \in Executors : f # e => exec[f].run # r
      BY <1>2, <1>10, <2>4 DEF Enters, Fresh
    <3>2. \A d, f \in Executors : exec'[d].run = r /\ exec'[f].run = r => d = f
      BY <1>1, <3>1 DEF Others
    <3>3. \A f \in Executors, l \in Leads : ~Told(f, r, l)
      BY <2>2, <3>1 DEF Told
    <3>4. ASSUME NEW l \in Leads, Ahead(e, r, l)' PROVE deliveries[<<r, l>>] = 0
      <4>1. l \notin AlreadyPushed(r)
        BY <1>10, <2>4, <3>4 DEF Ahead, Enters
      <4>2. pushRows[<<r, l>>] # "pushed"
        BY <4>1 DEF AlreadyPushed
      <4>3. deliveries[<<r, l>>] \in 0..2 /\ deliveries[<<r, l>>] <= 1 /\ deliveries[<<r, l>>] # 1
        BY <1>1, <1>4, <1>5, <3>3, <4>2
      <4>4. QED
        BY <4>3
    <3>5. QED
      BY <1>6, <2>1, <2>2, <3>2, <3>4
  <2>5. QED
    BY <2>3, <2>4
<1>11. ASSUME NEW l \in Leads, Skips(e, l) \/ Takes(e, l)
       PROVE  /\ UNCHANGED <<deliveries, pushRows>> /\ exec'[e].run = exec[e].run
              /\ \A m \in Leads : ~Told(e, r, m)
              /\ \A m \in Leads : Ahead(e, r, m)' => Ahead(e, r, m)
  BY <1>1, <1>11 DEF Skips, Takes, Same, Told, Ahead
<1>12. ASSUME NEW out \in Outcomes, Pushes(e, out)
       PROVE  /\ \A d, f \in Executors : exec'[d].run = r /\ exec'[f].run = r => d = f
              /\ \A l \in Leads :
                   /\ deliveries'[<<r, l>>] <= 1
                   /\ deliveries'[<<r, l>>] = 1 => pushRows'[<<r, l>>] = "pushed" \/ \E f \in Executors : Told(f, r, l)'
                   /\ \A f \in Executors : Ahead(f, r, l)' => deliveries'[<<r, l>>] = 0
  <2>1. /\ exec'[e].run = exec[e].run /\ exec'[e].lead = exec[e].lead /\ exec[e].pc = "push" /\ exec'[e].pc = "record"
        /\ exec'[e].result = out /\ exec'[e].left = exec[e].left /\ exec'[e].skip = exec[e].skip /\ UNCHANGED pushRows
        /\ exec[e].run \in Cycles /\ exec[e].lead \in Leads /\ exec[e].lead \notin exec[e].left
    BY <1>1, <1>12 DEF Pushes, Same, ExecRowOK
  <2>2. \A m \in Leads : ~Told(e, r, m) /\ (Ahead(e, r, m)' => Ahead(e, r, m) /\ m # exec[e].lead)
    BY <2>1 DEF Told, Ahead
  <2>3. CASE out # "pushed" \/ exec[e].run # r
    <3>1. \A m \in Leads : deliveries'[<<r, m>>] = deliveries[<<r, m>>]
      BY <1>1, <1>5, <1>12, <2>1, <2>3 DEF Pushes, BatchLeads
    <3>2. QED
      BY <1>4, <1>5, <1>7, <2>1, <2>2, <3>1
  <2>4. CASE out = "pushed" /\ exec[e].run = r
    <3>0. PICK h \in Leads : h = exec[e].lead /\ h = exec'[e].lead
      BY <2>1
    <3>1. Ahead(e, r, h)
      BY <2>1, <2>4, <3>0 DEF Ahead
    <3>2. deliveries[<<r, h>>] = 0
      BY <1>4, <3>1
    <3>3. deliveries'[<<r, h>>] = 1
      BY <1>1, <1>5, <1>12, <2>1, <2>4, <3>0, <3>2 DEF Pushes
    <3>4. \A m \in Leads : m # h => deliveries'[<<r, m>>] = deliveries[<<r, m>>]
      BY <1>1, <1>5, <1>12, <2>1, <2>4, <3>0 DEF Pushes
    <3>5. Told(e, r, h)'
      BY <2>1, <2>4, <3>0 DEF Told
    <3>6. \A f \in Executors : ~Ahead(f, r, h)'
      <4>1. \A f \in Executors : f # e => exec'[f].run # r
        BY <1>1, <1>4, <2>4 DEF Others
      <4>2. ~Ahead(e, r, h)'
        BY <2>2, <3>0
      <4>3. QED
        BY <4>1, <4>2 DEF Ahead
    <3>7. ASSUME NEW m \in Leads
          PROVE  /\ deliveries'[<<r, m>>] <= 1
                 /\ deliveries'[<<r, m>>] = 1 => pushRows'[<<r, m>>] = "pushed" \/ \E f \in Executors : Told(f, r, m)'
                 /\ \A f \in Executors : Ahead(f, r, m)' => deliveries'[<<r, m>>] = 0
      <4>1. CASE m = h
        BY <3>3, <3>5, <3>6, <4>1
      <4>2. CASE m # h
        BY <1>4, <1>5, <2>1, <2>2, <3>0, <3>4, <4>2
      <4>3. QED
        BY <4>1, <4>2
    <3>8. QED
      BY <1>7, <2>1, <3>7
  <2>5. QED
    BY <2>3, <2>4
<1>13. CASE Writes(e)
  <2>1. /\ exec'[e].run = exec[e].run /\ exec'[e].pc = "loop" /\ exec[e].pc = "record" /\ UNCHANGED deliveries
        /\ exec'[e].left = exec[e].left /\ exec'[e].skip = exec[e].skip
        /\ exec[e].run \in Cycles /\ exec[e].lead \in Leads
        /\ pushRows' = [pushRows EXCEPT ![<<exec[e].run, exec[e].lead>>] = IF @ = "pushed" THEN @ ELSE exec[e].result]
    BY <1>1, <1>13 DEF Writes, Same, ExecRowOK
  <2>2. <<exec[e].run, exec[e].lead>> \in BatchLeads
    BY <2>1 DEF BatchLeads
  <2>3. \A m \in Leads : pushRows[<<r, m>>] = "pushed" \/ Told(e, r, m) => pushRows'[<<r, m>>] = "pushed"
    BY <1>1, <1>5, <2>1, <2>2 DEF Told
  <2>4. \A m \in Leads : Ahead(e, r, m)' => Ahead(e, r, m)
    BY <2>1 DEF Ahead
  <2>5. ASSUME NEW m \in Leads
        PROVE  /\ deliveries'[<<r, m>>] <= 1
               /\ deliveries'[<<r, m>>] = 1 => pushRows'[<<r, m>>] = "pushed" \/ \E f \in Executors : Told(f, r, m)'
               /\ \A f \in Executors : Ahead(f, r, m)' => deliveries'[<<r, m>>] = 0
    BY <1>4, <1>5, <2>1, <2>3, <2>4
  <2>6. QED
    BY <1>7, <2>1, <2>5
<1>14. QED
  BY <1>6, <1>7, <1>8, <1>9, <1>10, <1>11, <1>12, <1>13 DEF ExecEffect

(* Nobody picks up a run that was held back, nor a contact that was        *)
(* excluded in time; and what was excluded in time is not delivered.       *)
LEMMA ExecKeepsHeld ==
  ASSUME CycleInv, NEW e \in Executors, ExecEffect(e)
  PROVE  HeldInv' /\ TimeInv' /\ \A x \in onTime : deliveries'[x] = deliveries[x]
<1>1. /\ exec[e] \in ExecRow /\ ExecRowOK(e) /\ Others(e) /\ heldBack \subseteq Cycles /\ onTime \subseteq BatchLeads
      /\ UNCHANGED <<heldBack, onTime, excluded, cyclePc>> /\ deliveries \in [BatchLeads -> 0..2] /\ RowsKept
  BY DEF CycleInv, Typed, ExecInv, ExecEffect
<1>2. HeldInv'
  <2>1. ASSUME NEW r \in heldBack, e \in Sweeps PROVE ~Holds(e, r)'
    <3>1. ~Holds(e, r) /\ runRow[r].status # "awaiting_approval" /\ r \in Cycles
      BY <1>1, <2>1 DEF CycleInv, HeldInv
    <3>2. CASE Begins(e)
      BY <2>1, <3>1, <3>2 DEF Begins, Holds
    <3>3. CASE ~Begins(e)
      BY <1>1, <3>1, <3>3, CycleAssumption DEF Holds, ExecEffect, Leaves, Enters, Skips, Takes, Pushes, Writes, Same
    <3>4. QED
      BY <3>2, <3>3
  <2>2. \A r \in heldBack : cyclePc'[r] = "done" /\ runRow'[r].status # "awaiting_approval"
    BY <1>1 DEF CycleInv, HeldInv, RowsKept
  <2>3. \A r \in heldBack, f \in Sweeps : f # e => ~Holds(f, r)'
    BY <1>1 DEF CycleInv, HeldInv, Holds, Others, Executors
  <2>4. QED
    BY <1>1, <2>1, <2>2, <2>3 DEF HeldInv
<1>3. TimeInv'
  <2>1. ASSUME NEW x \in onTime, exec'[e].pc = "push" PROVE <<exec'[e].run, exec'[e].lead>> # x
    <3>1. \E l \in Leads : Takes(e, l)
      BY <2>1 DEF ExecEffect, Begins, Leaves, Enters, Skips, Pushes, Writes
    <3>2. <<exec'[e].run, exec'[e].lead>> \notin excluded
      BY <2>1, <3>1 DEF Takes, Same
    <3>3. QED
      BY <2>1, <3>2 DEF CycleInv, TimeInv
  <2>2. QED
    BY <1>1, <2>1 DEF CycleInv, TimeInv, Others
<1>4. ASSUME NEW x \in onTime PROVE deliveries'[x] = deliveries[x]
  <2>1. CASE deliveries' = deliveries
    BY <2>1
  <2>2. ASSUME NEW out \in Outcomes, Pushes(e, out) PROVE deliveries'[x] = deliveries[x]
    <3>1. <<exec[e].run, exec[e].lead>> # x
      BY <2>2 DEF Pushes, CycleInv, TimeInv
    <3>2. QED
      BY <1>1, <2>2, <3>1 DEF Pushes
  <2>3. QED
    BY <2>1, <2>2 DEF ExecEffect, Begins, Leaves, Enters, Skips, Takes, Writes
<1>5. QED
  BY <1>2, <1>3, <1>4

LEMMA ExecStepKeeps ==
  ASSUME CycleInv, NEW e \in Executors, ExecAct(e)
  PROVE  CycleInv' /\ \A x \in onTime : deliveries'[x] = deliveries[x]
<1>1. ExecEffect(e)
  BY ExecSteps
<1>2. QED
  BY <1>1, ExecKeepsRows, ExecKeepsTrace, ExecKeepsOnce, ExecKeepsHeld DEF CycleInv

---------------------------------------------------------------------------
(* The operator, and time.                                                 *)
LEMMA OperatorKeeps ==
  ASSUME CycleInv,
         \/ CancelRun \/ RecoverRun
         \/ \E r \in Cycles : AskCancel(r) \/ AskRecover(r) \/ \E l \in Leads : SetExcluded(r, l)
  PROVE  CycleInv' /\ UNCHANGED deliveries
<1>1. /\ UNCHANGED <<pushRows, deliveries, windowOver, oldRuns, cyclePc, exec, doubled, resumed, cyclesMet, cycleFaults>>
  BY DEF CancelRun, RecoverRun, AskCancel, AskRecover, Ask, SetExcluded, OperatorFrame, pushVars, cycleTime
<1>2. /\ runRow \in [Cycles -> RunRow] /\ \A q \in Cycles : runRow[q] \in RunRow
      /\ order \in [what : {"none", "cancel", "recover"}, run : Cycles \cup {NoCycle}]
      /\ exec \in [Executors -> ExecRow] /\ cyclePc \in [Cycles -> Pcs]
      /\ orders \in 0..MaxOrders /\ heldBack \subseteq Cycles /\ recovered \subseteq Cycles /\ cancelFlag \subseteq Cycles
      /\ excluded \subseteq BatchLeads /\ onTime \subseteq BatchLeads
  BY DEF CycleInv, Typed
(* What does not depend on the operator's variables.                       *)
<1>3. ASSUME \A q \in Cycles : /\ runRow'[q].leads = runRow[q].leads
                               /\ (runRow[q].batch # "absent" => runRow'[q].batch # "absent")
      PROVE  ExecInv' /\ TraceInv' /\ OnceInv'
  <2>1. ExecInv'
    BY <1>1, <1>3 DEF CycleInv, ExecInv, ExecRowOK, Holds
  <2>2. TraceInv'
    <3>1. \A e \in Executors : exec[e].pc \in {"loop", "push", "record"} => exec[e].run \in Cycles
      BY DEF CycleInv, ExecInv, ExecRowOK
    <3>2. resumed \subseteq Cycles
      BY DEF CycleInv, Typed
    <3>3. QED
      BY <1>1, <1>3, <3>1, <3>2 DEF CycleInv, TraceInv
  <2>3. OnceInv'
    BY <1>1 DEF CycleInv, OnceInv, Fresh, Told, Ahead
  <2>4. QED
    BY <2>1, <2>2, <2>3
<1>4. ASSUME NEW what \in {"cancel", "recover"}, NEW r \in Cycles, Ask(what, r), runRow[r].batch # "absent",
             what = "recover" => cyclePc[r] = "done" /\ runRow[r].leads # {}
      PROVE  CycleInv'
  <2>1. /\ order' = [what |-> what, run |-> r] /\ orders' \in 0..MaxOrders
        /\ UNCHANGED <<runRow, cancelFlag, excluded, recovered, heldBack, onTime>>
    BY <1>2, <1>4, CycleAssumption DEF Ask
  <2>2. Typed'
    BY <1>1, <2>1 DEF CycleInv, Typed
  <2>3. OrderInv'
    BY <1>1, <1>4, <2>1 DEF OrderInv
  <2>4. ExecInv' /\ TraceInv' /\ OnceInv'
    BY <1>3, <2>1
  <2>5. RowInv' /\ HeldInv' /\ TimeInv' /\ OneInv'
    BY <1>1, <2>1 DEF CycleInv, RowInv, HeldInv, Holds, TimeInv, OneInv, Alive, OpenRuns
  <2>6. QED
    BY <2>2, <2>3, <2>4, <2>5 DEF CycleInv
<1>5. ASSUME NEW r \in Cycles, AskCancel(r) PROVE CycleInv'
  <2>1. runRow[r].batch # "absent" /\ Ask("cancel", r)
    BY <1>5 DEF AskCancel, OpenRuns, CycleInv, RowInv
  <2>2. QED
    BY <1>4, <2>1
<1>6. ASSUME NEW r \in Cycles, AskRecover(r) PROVE CycleInv'
  <2>1. runRow[r].batch # "absent" /\ Ask("recover", r) /\ cyclePc[r] = "done" /\ runRow[r].leads # {}
    BY <1>6 DEF AskRecover, CycleInv, RowInv
  <2>2. QED
    BY <1>4, <2>1
<1>7. ASSUME NEW r \in Cycles, NEW l \in Leads, SetExcluded(r, l) PROVE CycleInv'
  <2>1. /\ excluded' = excluded \ {<<r, l>>} \/ excluded' = excluded \cup {<<r, l>>}
        /\ onTime' = onTime \ {<<r, l>>} /\ UNCHANGED <<runRow, order, recovered, heldBack, orders, cancelFlag>>
        /\ <<r, l>> \in BatchLeads
    BY <1>7 DEF SetExcluded, operatorVars, BatchLeads
  <2>2. Typed'
    BY <1>1, <1>2, <2>1 DEF CycleInv, Typed
  <2>3. TimeInv'
    BY <1>1, <2>1 DEF CycleInv, TimeInv
  <2>4. ExecInv' /\ TraceInv' /\ OnceInv'
    BY <1>3, <2>1
  <2>5. RowInv' /\ OrderInv' /\ HeldInv' /\ OneInv'
    BY <1>1, <2>1 DEF CycleInv, RowInv, OrderInv, HeldInv, Holds, OneInv, Alive, OpenRuns
  <2>6. QED
    BY <2>2, <2>3, <2>4, <2>5 DEF CycleInv
<1>8. CASE CancelRun
  <2>1. PICK r \in Cycles : r = order.run /\ runRow[r].batch # "absent"
    BY <1>8 DEF CancelRun, CycleInv, OrderInv
  <2>2. /\ runRow' = [runRow EXCEPT ![r].status = "cancelled"] /\ cancelFlag' = cancelFlag \cup {r} /\ order' = NoOrder
        /\ heldBack' = heldBack \cup {q \in {r} : runRow[q].status = "awaiting_approval" /\ ~PickedUp(q)}
        /\ UNCHANGED <<excluded, recovered, onTime, orders>>
    BY <1>8, <2>1 DEF CancelRun
  <2>3. runRow' \in [Cycles -> RunRow] /\ runRow'[r].status = "cancelled"
    BY <1>2, <2>2 DEF RunRow
  <2>4. RowsKept
    BY <1>1, <1>2, <2>1, <2>2, <2>3 DEF RowsKept, RunRow, CycleInv, RowInv
  <2>5. RowInv' /\ OneInv'
    BY <1>1, <2>2, <2>4, RowsKeptKeeps
  <2>6. Typed'
    <3>1. order' \in [what : {"none", "cancel", "recover"}, run : Cycles \cup {NoCycle}] /\ heldBack' \subseteq Cycles
      BY <1>2, <2>2 DEF NoOrder
    <3>2. QED
      BY <1>1, <1>2, <2>2, <2>3, <3>1 DEF CycleInv, Typed
  <2>7. OrderInv'
    BY <2>2 DEF OrderInv, NoOrder
  <2>8. ExecInv' /\ TraceInv' /\ OnceInv'
    BY <1>3, <2>4 DEF RowsKept
  <2>9. HeldInv'
    <3>1. ASSUME NEW q \in heldBack'
          PROVE  /\ cyclePc[q] = "done" /\ runRow'[q].status # "awaiting_approval" /\ \A e \in Sweeps : ~Holds(e, q)
      <4>1. CASE q \in heldBack
        BY <1>2, <2>4, <4>1 DEF CycleInv, HeldInv, RowsKept
      <4>2. CASE q \notin heldBack
        <5>1. q = r /\ runRow[q].status = "awaiting_approval" /\ ~PickedUp(q)
          BY <2>2, <3>1, <4>2
        <5>2. QED
          BY <2>3, <5>1 DEF CycleInv, RowInv, PickedUp, Holds
      <4>3. QED
        BY <4>1, <4>2
    <3>2. QED
      BY <1>1, <3>1 DEF HeldInv, Holds
  <2>10. TimeInv'
    BY <1>1, <2>2 DEF CycleInv, TimeInv
  <2>11. QED
    BY <1>1, <2>5, <2>6, <2>7, <2>8, <2>9, <2>10 DEF CycleInv
<1>9. CASE RecoverRun
  <2>1. PICK r \in Cycles : r = order.run /\ runRow[r].batch # "absent" /\ cyclePc[r] = "done" /\ runRow[r].leads # {}
    BY <1>9 DEF RecoverRun, CycleInv, OrderInv
  <2>2. /\ runRow' = [runRow EXCEPT ![r].status = "awaiting_approval"] /\ order' = NoOrder
        /\ recovered' = recovered \cup {r} /\ heldBack' = heldBack \ {r}
        /\ UNCHANGED <<cancelFlag, excluded, onTime, orders>>
    BY <1>9, <2>1 DEF RecoverRun
  <2>3. /\ runRow' \in [Cycles -> RunRow] /\ \A q \in Cycles \ {r} : runRow'[q] = runRow[q]
        /\ runRow'[r].status = "awaiting_approval" /\ runRow'[r].batch = runRow[r].batch
        /\ runRow'[r].phase = runRow[r].phase /\ runRow'[r].leads = runRow[r].leads
    BY <1>2, <2>2 DEF RunRow
  <2>4. RowInv'
    BY <1>1, <2>1, <2>3 DEF CycleInv, RowInv
  <2>5. Typed'
    <3>1. order' \in [what : {"none", "cancel", "recover"}, run : Cycles \cup {NoCycle}]
      BY <2>2 DEF NoOrder
    <3>2. QED
      BY <1>1, <1>2, <2>2, <2>3, <3>1 DEF CycleInv, Typed
  <2>6. OrderInv' /\ OneInv'
    BY <2>2 DEF OrderInv, NoOrder, OneInv
  <2>7. ExecInv' /\ TraceInv' /\ OnceInv'
    BY <1>3, <2>3
  <2>8. HeldInv' /\ TimeInv'
    BY <1>1, <1>2, <2>2, <2>3 DEF CycleInv, HeldInv, Holds, TimeInv
  <2>9. QED
    BY <1>1, <2>4, <2>5, <2>6, <2>7, <2>8 DEF CycleInv
<1>10. QED
  BY <1>1, <1>5, <1>6, <1>7, <1>8, <1>9

LEMMA TimeKeeps ==
  ASSUME CycleInv, NEW r \in Cycles, RunAges(r) \/ WindowCloses(r)
  PROVE  CycleInv' /\ UNCHANGED deliveries
<1>1. /\ UNCHANGED <<runRow, excluded, pushRows, deliveries, cyclePc, exec, order, recovered, heldBack, orders, cancelFlag,
                     doubled, resumed, cyclesMet, cycleFaults>>
      /\ oldRuns' \subseteq Cycles /\ windowOver' \subseteq Cycles
  BY DEF RunAges, WindowCloses, pushVars, operatorVars, CycleInv, Typed
<1>2. onTime' = onTime \/ onTime' = onTime \cup {x \in excluded : x[1] = r /\ ~InHand(x)}
  BY DEF RunAges, WindowCloses
<1>3. Typed'
  BY <1>1, <1>2 DEF CycleInv, Typed
<1>4. TimeInv'
  BY <1>1, <1>2 DEF CycleInv, TimeInv, InHand
<1>5. RowInv' /\ OrderInv' /\ ExecInv' /\ TraceInv'
  BY <1>1 DEF CycleInv, RowInv, OrderInv, ExecInv, ExecRowOK, Holds, TraceInv
<1>6. OnceInv' /\ HeldInv' /\ OneInv'
  BY <1>1 DEF CycleInv, OnceInv, Fresh, Told, Ahead, HeldInv, Holds, OneInv, Alive, OpenRuns
<1>7. QED
  BY <1>1, <1>3, <1>4, <1>5, <1>6 DEF CycleInv

---------------------------------------------------------------------------
LEMMA CycleInvStep ==
  ASSUME CycleInv, [CycleNext]_cycleVars
  PROVE  CycleInv' /\ \A x \in onTime : deliveries'[x] = deliveries[x]
<1>1. CASE UNCHANGED cycleVars
  <2>1. UNCHANGED <<runRow, excluded, pushRows, deliveries, windowOver, oldRuns, cyclePc, exec, order, recovered, heldBack,
                    orders, cancelFlag, onTime, doubled, resumed, cyclesMet, cycleFaults>>
    BY <1>1 DEF cycleVars, pushVars, cycleTime, operatorVars
  <2>2. Typed' /\ RowInv' /\ OrderInv' /\ ExecInv' /\ TraceInv'
    BY <2>1 DEF CycleInv, Typed, RowInv, OrderInv, ExecInv, ExecRowOK, Holds, TraceInv
  <2>3. OnceInv' /\ HeldInv' /\ TimeInv' /\ OneInv'
    BY <2>1 DEF CycleInv, OnceInv, Fresh, Told, Ahead, HeldInv, Holds, TimeInv, OneInv, Alive, OpenRuns
  <2>4. QED
    BY <2>1, <2>2, <2>3 DEF CycleInv
<1>2. ASSUME NEW r \in Cycles, CycleStep(r) \/ CycleDies(r)
      PROVE  CycleInv' /\ \A x \in onTime : deliveries'[x] = deliveries[x]
  <2>1. CycleEffect
    BY <1>2, CycleSteps DEF CycleInv
  <2>2. QED
    BY <1>2, <2>1, CycleKeeps, OneCycleStep DEF CycleInv, CycleEffect
<1>3. ASSUME NEW e \in Executors, ExecAct(e) PROVE CycleInv' /\ \A x \in onTime : deliveries'[x] = deliveries[x]
  BY <1>3, ExecStepKeeps
<1>4. ASSUME NEW r \in Cycles, RunAges(r) \/ WindowCloses(r)
      PROVE  CycleInv' /\ \A x \in onTime : deliveries'[x] = deliveries[x]
  BY <1>4, TimeKeeps
<1>5. ASSUME \/ CancelRun \/ RecoverRun
             \/ \E r \in Cycles : AskCancel(r) \/ AskRecover(r) \/ \E l \in Leads : SetExcluded(r, l)
      PROVE  CycleInv' /\ \A x \in onTime : deliveries'[x] = deliveries[x]
  BY <1>5, OperatorKeeps
<1>6. CASE CycleNext
  BY <1>2, <1>3, <1>4, <1>5, <1>6 DEF CycleNext, ExecAct, Executors
<1>7. QED
  BY <1>1, <1>6

LEMMA CycleSound ==
  ASSUME CycleInv
  PROVE  CycleTypeOK /\ PushedOnce /\ CancelledInWindow /\ ResumedLeavesTrace /\ OneOpenRun
<1>1. CycleTypeOK
  BY DEF CycleInv, Typed, RowInv, RunRow, ExecRow, Pcs, CycleTypeOK
<1>2. PushedOnce
  <2>1. SUFFICES ASSUME NEW x \in BatchLeads, deliveries[x] > 1, x[1] \notin doubled, ~(cycleFaults > 0) PROVE FALSE
    BY DEF PushedOnce
  <2>2. PICK r \in Cycles, l \in Leads : x = <<r, l>>
    BY DEF BatchLeads
  <2>3. cycleFaults = 0 /\ deliveries[<<r, l>>] \in 0..2
    BY <2>1, <2>2, CycleAssumption DEF CycleInv, Typed
  <2>4. deliveries[<<r, l>>] <= 1
    BY <2>1, <2>2, <2>3 DEF CycleInv, OnceInv, Fresh
  <2>5. QED
    BY <2>1, <2>2, <2>3, <2>4
<1>3. CancelledInWindow
  BY DEF CycleInv, HeldInv, CancelledInWindow, PickedUp, Holds
<1>4. ResumedLeavesTrace
  BY DEF CycleInv, TraceInv, ResumedLeavesTrace
<1>5. OneOpenRun
  <2>1. SUFFICES ASSUME ~cyclesMet, recovered = {}, Cardinality(OpenRuns) > 1 PROVE FALSE
    BY DEF OneOpenRun
  <2>2. \A q, r \in OpenRuns : q = r
    BY <2>1 DEF CycleInv, OneInv
  <2>3. CASE OpenRuns = {}
    BY <2>1, <2>3, FS_EmptySet
  <2>4. CASE OpenRuns # {}
    <3>1. PICK r : OpenRuns = {r}
      BY <2>2, <2>4
    <3>2. Cardinality(OpenRuns) = 1
      BY <3>1, FS_Singleton
    <3>3. QED
      BY <2>1, <3>2
  <2>5. QED
    BY <2>3, <2>4
<1>6. QED
  BY <1>1, <1>2, <1>3, <1>4, <1>5

THEOREM CycleInvHolds == CycleSpec => []CycleInv
<1>1. CycleInv /\ [CycleNext]_cycleVars => CycleInv'
  BY CycleInvStep
<1>2. QED
  BY <1>1, CycleInitInv, PTL DEF CycleSpec

(* Unless two cycles overlapped or an old run was recovered, a tenant has  *)
(* one open run, whatever sweeps, routes and operator do meanwhile.        *)
THEOREM OneRunIsOpen == CycleSpec => []OneOpenRun
BY CycleInvHolds, CycleSound, PTL

(* However many sweeps and routes push a batch, and whatever the operator  *)
(* does: a contact is handed over once, never when it was excluded in time *)
(* or its run was cancelled in its window, and none is lost on the way.    *)
THEOREM CycleRulesHold == CycleSpec => CycleRules
<1>1. CycleInv /\ [CycleNext]_cycleVars => [\A x \in onTime : deliveries'[x] = deliveries[x]]_cycleVars
  BY CycleInvStep
<1>2. CycleSpec => ExcludedInTime
  BY <1>1, CycleInvHolds, PTL DEF CycleSpec, ExcludedInTime
<1>3. CycleSpec => [](CycleTypeOK /\ PushedOnce /\ CancelledInWindow /\ ResumedLeavesTrace)
  BY CycleInvHolds, CycleSound, PTL
<1>4. QED
  BY <1>2, <1>3 DEF CycleRules


-----------------------------------------------------------------------------
(* The phases in which a run adds companies, and those in which it also    *)
(* may write the tenant's rejected domains.                                *)
Gathering == {"search", "next", "lead", "assess", "exclude", "signal", "surplus"}
Dropping == {"enforce", "drop", "reject"}
Crossing == Gathering \cup Dropping
Phases == Crossing \cup {"off", "end", "dedupe", "hiring", "gate", "people", "stamp", "over", "dead"}

Work == [pc : Phases, source : AllSources, seen : SUBSET Domains, todo : SUBSET Domains,
         at : Domains \cup {NoDomain}, kept : Nat, copy : SUBSET Domains, before : SUBSET Domains]

(* Each source has phases of its own.                                      *)
Course(r) ==
  /\ v1[r].pc \in {"signal", "surplus"} => v1[r].source \in {"apify", "route"}
  /\ v1[r].pc \in {"assess", "exclude"} => v1[r].source \in {"apify", "route", "jd_first"}
  /\ v1[r].pc \in {"lead", "end"} => v1[r].source = "jobo"
  /\ v1[r].pc \in {"dedupe", "hiring"} => v1[r].source = "deepline"
  /\ v1[r].pc \in Dropping => v1[r].source = "apify"
  /\ v1[r].pc = "gate" => v1[r].source \in {"route", "jd_first"}
  /\ v1[r].pc \in {"people", "stamp"} => v1[r].source # "jobo"

(* What is not live is no row.                                             *)
Blank(r) == \A d \in Domains : ~row[r][d].live => row[r][d] = NoCompanyRow

V1InHand(w) == IF w.pc \in {"lead", "assess", "signal"} THEN 1 ELSE 0

(* What a run kept, has in hand and has still to look at are different     *)
(* domains.                                                                *)
Counted(r) ==
  /\ v1[r].kept <= Cardinality(Domains)
  /\ v1[r].pc = "search" => v1[r].kept = 0
  /\ v1[r].pc \in Gathering \ {"search"} =>
       v1[r].kept + Cardinality(v1[r].todo) + V1InHand(v1[r]) <= Cardinality(Domains)

(* A posting is linked to a company that is past its assessment.           *)
Linked(r) ==
  \A d \in Domains : linked[d] = r =>
    /\ row[r][d].live /\ v1[r].source \in {"apify", "route"} /\ v1[r].pc # "off"
    /\ v1[r].pc \in {"assess", "exclude"} => v1[r].at # d

(* Without faults: a company is looked up in the search only, once.        *)
V1Fresh(r) ==
  /\ \A d \in Domains : row[r][d].lookups < 2
  /\ \A d \in Domains : row[r][d].lookups = 1 => row[r][d].stamped \/ (v1[r].pc = "stamp" /\ v1[r].at = d)
  /\ v1[r].pc = "stamp" => v1[r].at \in Domains /\ row[r][v1[r].at].live
  /\ v1[r].pc \notin {"people", "stamp", "over", "dead"} => \A d \in Domains : row[r][d].lookups = 0
  /\ v1[r].pc = "people" /\ v1[r].source # "deepline" => \A d \in v1[r].todo : row[r][d].lookups = 0
  /\ v1[r].pc = "stamp" /\ v1[r].source # "deepline" =>
       \A d \in v1[r].todo : d # v1[r].at => row[r][d].lookups = 0

(* A batch is complete when its run is over; until then what it has to     *)
(* search is on its list.                                                  *)
Settled(r, d) == row[r][d].stamped \/ (v1[r].source \in {"route", "jd_first"} /\ ~row[r][d].hiring)
New(r, d) == row[r][d].live /\ d \notin v1[r].before

Searched(r) ==
  v1[r].source # "deepline" =>
    /\ Going(r) => batch[r] = "in_progress"
    /\ batch[r] = "complete" => v1[r].pc = "over" /\ \A d \in Domains : New(r, d) => Settled(r, d)
    /\ v1[r].pc \in {"people", "stamp"} => \A d \in Domains \ v1[r].todo : New(r, d) => Settled(r, d)
    /\ v1[r].source = "jobo" /\ v1[r].pc \in Gathering \cup {"end"} =>
         \A d \in Domains : New(r, d) => row[r][d].stamped \/ (v1[r].pc = "lead" /\ v1[r].at = d)

V1Typed(r) ==
  /\ v1[r] \in Work /\ row[r] \in [Domains -> Company]
  /\ batch[r] \in {"none", "in_progress", "complete", "failed"}

Own(r) == V1Typed(r) /\ Course(r) /\ Blank(r) /\ Counted(r) /\ Linked(r) /\ Searched(r) /\ (v1Faults = 0 => V1Fresh(r))

(* Runs that gather or drop at the same time have crossed.  One that       *)
(* gathers has seen the companies of those that it did not cross, and its  *)
(* own, but for the ones it just added.                                    *)
Together(q, r) == {q, r} \subseteq crossed
V1Ahead(r) ==
  /\ v1[r].pc = "search" => Rows(r) \subseteq v1[r].seen
  /\ v1[r].pc \in Gathering \ {"search"} => v1[r].todo \cap v1[r].seen = {} /\ v1[r].todo \cap Rows(r) = {}
Apart ==
  /\ \A q, r \in V1Runs : q # r /\ v1[q].pc \in Crossing /\ v1[r].pc \in Crossing => Together(q, r)
  /\ \A q, r \in V1Runs : q # r /\ v1[r].pc \in Gathering /\ ~Together(q, r) => Rows(q) \subseteq v1[r].seen
  /\ OneRowPerDomain

(* A drop is remembered also in the copy a run is about to write back.     *)
Remembered ==
  /\ DropIsRemembered
  /\ \A q, r \in V1Runs : \A d \in Domains : v1[q].pc = "reject" /\ row[r][d].dropped /\ r \notin crossed => d \in v1[q].copy

Shared ==
  /\ DOMAIN v1 = V1Runs /\ DOMAIN row = V1Runs /\ DOMAIN batch = V1Runs
  /\ linked \in [Domains -> V1Runs \cup {"nothing"}] /\ rejected \in SUBSET Domains
  /\ crossed \in SUBSET V1Runs /\ v1Faults \in 0..MaxV1Faults

Whole == row = [r \in V1Runs |-> row[r]] /\ batch = [r \in V1Runs |-> batch[r]]

V1Inv == Shared /\ Whole /\ Apart /\ Remembered /\ \A r \in V1Runs : Own(r) /\ V1Ahead(r)

(* What a step of a run, other than its beginning, does to the others'.    *)
Gathers(r) ==
  /\ v1'[r].pc \in Crossing => v1[r].pc \in Crossing
  /\ v1'[r].pc \in Gathering => v1[r].pc \in Gathering /\ v1'[r].seen = v1[r].seen
  /\ \A d \in Domains : row'[r][d].live => row[r][d].live \/ (v1[r].pc = "next" /\ d \in v1[r].todo)
  /\ crossed' = crossed

Drops(r) ==
  /\ rejected' = rejected \/ (v1[r].pc = "reject" /\ rejected' = v1[r].copy \cup {v1[r].at})
  /\ \A d \in Domains : row'[r][d].dropped =>
       row[r][d].dropped \/ (v1[r].pc = "reject" /\ d = v1[r].at /\ rejected' = v1[r].copy \cup {v1[r].at})
  /\ v1'[r].pc = "reject" =>
       /\ v1'[r].copy = rejected \/ (v1[r].pc = "reject" /\ v1'[r].copy = v1[r].copy)
       /\ rejected' = rejected /\ \A d \in Domains : row'[r][d].dropped => row[r][d].dropped

Kept(r) == Own(r)' /\ V1Ahead(r)' /\ Drops(r)

(* What a step starts from.                                                *)
Before(r) ==
  /\ Shared /\ Whole /\ V1Typed(r) /\ Course(r) /\ Blank(r) /\ Counted(r) /\ Linked(r) /\ Searched(r)
  /\ (v1Faults = 0 => V1Fresh(r)) /\ V1Ahead(r)
  /\ v1[r].pc \in Phases /\ v1[r].source \in AllSources /\ v1[r].seen \in SUBSET Domains /\ v1[r].todo \in SUBSET Domains
  /\ v1[r].at \in Domains \cup {NoDomain} /\ v1[r].kept \in Nat /\ v1[r].copy \in SUBSET Domains
  /\ v1[r].before \in SUBSET Domains

(* The parts of the invariant that a step of one run reads.                *)
LEMMA BeforeStep == ASSUME V1Inv, NEW r \in V1Runs PROVE Before(r)
BY DEF V1Inv, Own, Before, V1Typed, Work


(* What a run works on is there, or it raises.                             *)
LEMMA AtHand ==
  ASSUME NEW r \in V1Runs, ~Vanished(r)
  PROVE  /\ v1[r].pc \in {"lead", "assess", "exclude", "signal", "surplus", "reject", "stamp"} =>
              v1[r].at \in Domains /\ row[r][v1[r].at].live
         /\ v1[r].pc \in {"people", "gate", "drop"} => \A d \in v1[r].todo : d \in Domains /\ row[r][d].live
<1>1. AtWorkOn(r) \subseteq Rows(r)
  BY DEF Vanished
<1>2. v1[r].pc \in {"lead", "assess", "exclude", "signal", "surplus", "reject", "stamp"} => AtWorkOn(r) = {v1[r].at}
  BY DEF AtWorkOn
<1>3. v1[r].pc \in {"people", "gate", "drop"} => AtWorkOn(r) = v1[r].todo
  BY DEF AtWorkOn
<1>4. QED
  BY <1>1, <1>2, <1>3 DEF Rows

(* The domains are finite, and so are the sets of them.                    *)
LEMMA DomainsFinite ==
  /\ Cardinality(Domains) \in Nat /\ Cardinality({}) = 0
  /\ \A S \in SUBSET Domains : Cardinality(S) \in Nat /\ Cardinality(S) <= Cardinality(Domains)
  /\ \A S \in SUBSET Domains : \A x \in S : Cardinality(S \ {x}) = Cardinality(S) - 1
BY V1Assumption, FS_Subset, FS_CardinalityType, FS_RemoveElement, FS_EmptySet

(* The search fills the list with domains the run has not seen.            *)
LEMMA SearchKeeps ==
  ASSUME V1Inv, NEW r \in V1Runs, Search(r)
  PROVE  Kept(r) /\ Gathers(r)
<1> DEFINE w == v1[r]
           u == v1'[r]
           c == row[r]
           e == row'[r]
<1>1. Before(r)
  BY BeforeStep
<1>2. PICK found \in SUBSET (Domains \ w.seen) : u = [w EXCEPT !.pc = "next", !.todo = found] /\ w.pc = "search"
  BY <1>1 DEF Before, Search, Shared
<1>3. /\ u.pc = "next" /\ u.source = w.source /\ u.seen = w.seen /\ u.todo = found
      /\ u.at = w.at /\ u.kept = w.kept /\ u.copy = w.copy /\ u.before = w.before
  BY <1>1, <1>2 DEF Before, V1Typed, Work
<1>4. e = c
  BY <1>1, <1>2 DEF Before, Search, V1Typed, Shared
<1>5. batch' = batch /\ UNCHANGED <<linked, rejected, crossed, v1Faults>>
  BY <1>1, <1>2 DEF Before, Search, V1Typed, Shared
<1>6. V1Typed(r)'
  <2>1. u = [pc |-> u.pc, source |-> u.source, seen |-> u.seen, todo |-> u.todo,
             at |-> u.at, kept |-> u.kept, copy |-> u.copy, before |-> u.before]
    BY <1>1, <1>2 DEF Before, V1Typed, Work
  <2>2. /\ u.pc \in Phases /\ u.source \in AllSources /\ u.seen \in SUBSET Domains /\ u.todo \in SUBSET Domains
        /\ u.at \in Domains \cup {NoDomain} /\ u.kept \in Nat /\ u.copy \in SUBSET Domains /\ u.before \in SUBSET Domains
    BY <1>1, <1>2, <1>3 DEF Before, Phases, Crossing, Gathering, Dropping, Rows, Shared
  <2>3. u \in Work
    BY <2>1, <2>2 DEF Work
  <2>4. e \in [Domains -> Company] /\ batch'[r] \in {"none", "in_progress", "complete", "failed"}
    BY <1>1, <1>4, <1>5 DEF Before, V1Typed, Shared
  <2>5. QED
    BY <2>3, <2>4 DEF V1Typed
<1>7. Course(r)'
  BY <1>1, <1>2, <1>3 DEF Before, Course, AllSources, Phases, Crossing, Gathering, Dropping
<1>8. Blank(r)'
  BY <1>1, <1>2, <1>4 DEF Before, Blank, NoCompanyRow
<1>9. Counted(r)'
  BY <1>1, <1>2, <1>3, DomainsFinite DEF Before, Counted, V1InHand, Phases, Crossing, Gathering, Dropping
<1>10. Linked(r)'
  BY <1>1, <1>2, <1>3, <1>4, <1>5 DEF Before, Linked, Phases, Crossing, Gathering, Dropping
<1>11. Searched(r)'
  BY <1>1, <1>2, <1>3, <1>4, <1>5 DEF Before, Searched, Settled, New, Going, Course, Phases, Crossing, Gathering, Dropping
<1>12. v1Faults' = 0 => V1Fresh(r)'
  BY <1>1, <1>2, <1>3, <1>4, <1>5 DEF Before, V1Fresh, Phases, Crossing, Gathering, Dropping
<1>13. V1Ahead(r)'
  BY <1>1, <1>2, <1>3, <1>4 DEF Before, V1Ahead, Rows, Phases, Crossing, Gathering, Dropping
<1>14. Drops(r)
  BY <1>1, <1>2, <1>3, <1>4, <1>5 DEF Before, Drops, Phases, Crossing, Gathering, Dropping
<1>15. Gathers(r)
  BY <1>1, <1>2, <1>3, <1>4, <1>5 DEF Before, Gathers, Phases, Crossing, Gathering, Dropping
<1>16. QED
  BY <1>5, <1>6, <1>7, <1>8, <1>9, <1>10, <1>11, <1>12, <1>13, <1>14, <1>15 DEF Kept, Own

(* A company is committed, and is in hand.                                 *)
LEMMA CommitCompanyKeeps ==
  ASSUME V1Inv, NEW r \in V1Runs, NEW x \in Domains, CommitCompany(r, x)
  PROVE  Kept(r) /\ Gathers(r)
<1> DEFINE w == v1[r]
           u == v1'[r]
           c == row[r]
           e == row'[r]
<1>1. Before(r)
  BY BeforeStep
<1>2. u = [w EXCEPT !.todo = w.todo \ {x}, !.at = x, !.pc = u.pc] /\ w.pc = "next" /\ x \in w.todo /\ w.source # "deepline"
      /\ u.pc \in {"lead", "assess", "surplus"} /\ (u.pc = "lead" <=> w.source = "jobo")
      /\ (u.pc = "surplus" => w.source \in {"apify", "route"})
  BY <1>1 DEF Before, CommitCompany, Shared, V1Typed, Work, AllSources
<1>3. /\ u.source = w.source /\ u.seen = w.seen /\ u.todo = w.todo \ {x} /\ u.at = x
      /\ u.kept = w.kept /\ u.copy = w.copy /\ u.before = w.before
  BY <1>1, <1>2 DEF Before, V1Typed, Work
<1>4. /\ x \in Domains /\ (\A d \in Domains : d # x => e[d] = c[d]) /\ e \in [Domains -> Company]
      /\ e[x] = [live |-> TRUE, dropped |-> FALSE, hiring |-> FALSE, contacts |-> FALSE, stamped |-> FALSE, lookups |-> 0]
      /\ e[x].live = TRUE /\ e[x].dropped = FALSE /\ e[x].hiring = FALSE
      /\ e[x].contacts = FALSE /\ e[x].stamped = FALSE /\ e[x].lookups = 0
  <2>1. x \in Domains
    BY <1>1, <1>2 DEF Before
  <2>2. e = [c EXCEPT ![x] = [NoCompanyRow EXCEPT !.live = TRUE]]
    BY <1>1, <1>2 DEF Before, CommitCompany, V1Typed, Shared
  <2>3. c \in [Domains -> Company] /\ c[x] \in Company
    BY <1>1, <2>1 DEF Before, V1Typed
  <2>4. e[x] = [live |-> TRUE, dropped |-> FALSE, hiring |-> FALSE, contacts |-> FALSE, stamped |-> FALSE, lookups |-> 0] /\ \A d \in Domains : d # x => e[d] = c[d]
    BY <2>1, <2>2, <2>3 DEF Company, NoCompanyRow
  <2>5. e[x] \in Company
    BY <2>3, <2>4 DEF Company
  <2>6. e \in [Domains -> Company]
    BY <2>2, <2>3, <2>4, <2>5
  <2>7. QED
    BY <2>1, <2>4, <2>6
<1>5. batch' = batch /\ UNCHANGED <<linked, rejected, crossed, v1Faults>>
  BY <1>1, <1>2 DEF Before, CommitCompany, V1Typed, Shared
<1>6. V1Typed(r)'
  <2>1. u = [pc |-> u.pc, source |-> u.source, seen |-> u.seen, todo |-> u.todo,
             at |-> u.at, kept |-> u.kept, copy |-> u.copy, before |-> u.before]
    BY <1>1, <1>2 DEF Before, V1Typed, Work
  <2>2. /\ u.pc \in Phases /\ u.source \in AllSources /\ u.seen \in SUBSET Domains /\ u.todo \in SUBSET Domains
        /\ u.at \in Domains \cup {NoDomain} /\ u.kept \in Nat /\ u.copy \in SUBSET Domains /\ u.before \in SUBSET Domains
    BY <1>1, <1>2, <1>3 DEF Before, Phases, Crossing, Gathering, Dropping, Rows, Shared
  <2>3. u \in Work
    BY <2>1, <2>2 DEF Work
  <2>4. e \in [Domains -> Company] /\ batch'[r] \in {"none", "in_progress", "complete", "failed"}
    BY <1>1, <1>4, <1>5 DEF Before, V1Typed, Shared
  <2>5. QED
    BY <2>3, <2>4 DEF V1Typed
<1>7. ~c[x].live /\ c[x] = NoCompanyRow
  BY <1>1, <1>2 DEF Before, V1Ahead, Rows, Blank, Gathering
<1>8. Course(r)'
  BY <1>1, <1>2, <1>3, <1>7 DEF Before, Course, AllSources, Phases, Crossing, Gathering, Dropping
<1>9. Blank(r)'
  BY <1>1, <1>2, <1>4, <1>7 DEF Before, Blank, NoCompanyRow
<1>10. Counted(r)'
  BY <1>1, <1>2, <1>3, DomainsFinite, <1>7 DEF Before, Counted, V1InHand, Phases, Crossing, Gathering, Dropping
<1>11. Linked(r)'
  BY <1>1, <1>2, <1>3, <1>4, <1>5, <1>7 DEF Before, Linked, Phases, Crossing, Gathering, Dropping
<1>12. Searched(r)'
  BY <1>1, <1>2, <1>3, <1>4, <1>5, <1>7 DEF Before, Searched, Settled, New, Going, Course, Phases, Crossing, Gathering, Dropping
<1>13. v1Faults' = 0 => V1Fresh(r)'
  BY <1>1, <1>2, <1>3, <1>4, <1>5, <1>7 DEF Before, V1Fresh, Phases, Crossing, Gathering, Dropping
<1>14. V1Ahead(r)'
  BY <1>1, <1>2, <1>3, <1>4, <1>7 DEF Before, V1Ahead, Rows, Phases, Crossing, Gathering, Dropping
<1>15. Drops(r)
  BY <1>1, <1>2, <1>3, <1>4, <1>5, <1>7 DEF Before, Drops, Phases, Crossing, Gathering, Dropping
<1>16. Gathers(r)
  BY <1>1, <1>2, <1>3, <1>4, <1>5, <1>7 DEF Before, Gathers, Phases, Crossing, Gathering, Dropping
<1>17. QED
  BY <1>5, <1>6, <1>8, <1>9, <1>10, <1>11, <1>12, <1>13, <1>14, <1>15, <1>16 DEF Kept, Own

(* The company's leader is saved with its stamp.                           *)
LEMMA SaveLeaderKeeps ==
  ASSUME V1Inv, NEW r \in V1Runs, ~Vanished(r), SaveLeader(r)
  PROVE  Kept(r) /\ Gathers(r)
<1> DEFINE w == v1[r]
           u == v1'[r]
           c == row[r]
           e == row'[r]
<1>1. Before(r)
  BY BeforeStep
<1>2. u = [w EXCEPT !.pc = "next", !.kept = w.kept + 1] /\ w.pc = "lead"
  BY <1>1 DEF Before, SaveLeader, Shared, V1Typed, Work, AllSources
<1>3. /\ u.pc = "next" /\ u.source = w.source /\ u.seen = w.seen /\ u.todo = w.todo
      /\ u.at = w.at /\ u.kept = w.kept + 1 /\ u.copy = w.copy /\ u.before = w.before
  BY <1>1, <1>2 DEF Before, V1Typed, Work
<1>4. /\ w.at \in Domains /\ (\A d \in Domains : d # w.at => e[d] = c[d]) /\ e \in [Domains -> Company]
      /\ e[w.at] = [live |-> c[w.at].live, dropped |-> c[w.at].dropped, hiring |-> c[w.at].hiring, contacts |-> TRUE, stamped |-> TRUE, lookups |-> c[w.at].lookups]
      /\ e[w.at].live = c[w.at].live /\ e[w.at].dropped = c[w.at].dropped /\ e[w.at].hiring = c[w.at].hiring
      /\ e[w.at].contacts = TRUE /\ e[w.at].stamped = TRUE /\ e[w.at].lookups = c[w.at].lookups
  <2>1. w.at \in Domains
    BY <1>1, <1>2, AtHand DEF Before
  <2>2. e = [c EXCEPT ![w.at].contacts = TRUE, ![w.at].stamped = TRUE]
    BY <1>1, <1>2, AtHand DEF Before, SaveLeader, V1Typed, Shared
  <2>3. c \in [Domains -> Company] /\ c[w.at] \in Company
    BY <1>1, <2>1 DEF Before, V1Typed
  <2>4. e[w.at] = [live |-> c[w.at].live, dropped |-> c[w.at].dropped, hiring |-> c[w.at].hiring, contacts |-> TRUE, stamped |-> TRUE, lookups |-> c[w.at].lookups] /\ \A d \in Domains : d # w.at => e[d] = c[d]
    BY <2>1, <2>2, <2>3 DEF Company, NoCompanyRow
  <2>5. e[w.at] \in Company
    BY <2>3, <2>4 DEF Company
  <2>6. e \in [Domains -> Company]
    BY <2>2, <2>3, <2>4, <2>5
  <2>7. QED
    BY <2>1, <2>4, <2>6
<1>5. batch' = batch /\ UNCHANGED <<linked, rejected, crossed, v1Faults>>
  BY <1>1, <1>2, AtHand DEF Before, SaveLeader, V1Typed, Shared
<1>6. V1Typed(r)'
  <2>1. u = [pc |-> u.pc, source |-> u.source, seen |-> u.seen, todo |-> u.todo,
             at |-> u.at, kept |-> u.kept, copy |-> u.copy, before |-> u.before]
    BY <1>1, <1>2 DEF Before, V1Typed, Work
  <2>2. /\ u.pc \in Phases /\ u.source \in AllSources /\ u.seen \in SUBSET Domains /\ u.todo \in SUBSET Domains
        /\ u.at \in Domains \cup {NoDomain} /\ u.kept \in Nat /\ u.copy \in SUBSET Domains /\ u.before \in SUBSET Domains
    BY <1>1, <1>2, <1>3, AtHand DEF Before, Phases, Crossing, Gathering, Dropping, Rows, Shared
  <2>3. u \in Work
    BY <2>1, <2>2 DEF Work
  <2>4. e \in [Domains -> Company] /\ batch'[r] \in {"none", "in_progress", "complete", "failed"}
    BY <1>1, <1>4, <1>5 DEF Before, V1Typed, Shared
  <2>5. QED
    BY <2>3, <2>4 DEF V1Typed
<1>7. Course(r)'
  BY <1>1, <1>2, <1>3, AtHand DEF Before, Course, AllSources, Phases, Crossing, Gathering, Dropping
<1>8. Blank(r)'
  BY <1>1, <1>2, <1>4, AtHand DEF Before, Blank, NoCompanyRow
<1>9. Counted(r)'
  BY <1>1, <1>2, <1>3, DomainsFinite, AtHand DEF Before, Counted, V1InHand, Phases, Crossing, Gathering, Dropping
<1>10. Linked(r)'
  BY <1>1, <1>2, <1>3, <1>4, <1>5, AtHand DEF Before, Linked, Phases, Crossing, Gathering, Dropping
<1>11. Searched(r)'
  BY <1>1, <1>2, <1>3, <1>4, <1>5, AtHand DEF Before, Searched, Settled, New, Going, Course, Phases, Crossing, Gathering, Dropping
<1>12. v1Faults' = 0 => V1Fresh(r)'
  BY <1>1, <1>2, <1>3, <1>4, <1>5, AtHand DEF Before, V1Fresh, Phases, Crossing, Gathering, Dropping
<1>13. V1Ahead(r)'
  BY <1>1, <1>2, <1>3, <1>4, AtHand DEF Before, V1Ahead, Rows, Phases, Crossing, Gathering, Dropping
<1>14. Drops(r)
  BY <1>1, <1>2, <1>3, <1>4, <1>5, AtHand DEF Before, Drops, Phases, Crossing, Gathering, Dropping
<1>15. Gathers(r)
  BY <1>1, <1>2, <1>3, <1>4, <1>5, AtHand DEF Before, Gathers, Phases, Crossing, Gathering, Dropping
<1>16. QED
  BY <1>5, <1>6, <1>7, <1>8, <1>9, <1>10, <1>11, <1>12, <1>13, <1>14, <1>15 DEF Kept, Own

(* A full team is excluded next, another company is kept or linked.        *)
LEMMA AssessTeamCompositionKeeps ==
  ASSUME V1Inv, NEW r \in V1Runs, ~Vanished(r), assess_team_composition(r)
  PROVE  Kept(r) /\ Gathers(r)
<1> DEFINE w == v1[r]
           u == v1'[r]
           c == row[r]
           e == row'[r]
<1>1. Before(r)
  BY BeforeStep
<1>2. u = [w EXCEPT !.pc = u.pc, !.kept = u.kept] /\ w.pc = "assess"
      /\ ((u.pc \in {"exclude", "signal"} /\ u.kept = w.kept) \/ (u.pc = "next" /\ u.kept = w.kept + 1 /\ w.source = "jd_first"))
      /\ (u.pc = "signal" => w.source \in {"apify", "route"})
  <2>1. PICK full \in BOOLEAN :
          u = [w EXCEPT !.pc = CASE full -> "exclude" [] ~full /\ w.source = "jd_first" -> "next" [] OTHER -> "signal",
                        !.kept = IF ~full /\ w.source = "jd_first" THEN w.kept + 1 ELSE w.kept]
    BY <1>1 DEF Before, assess_team_composition, Shared
  <2>2. w.pc = "assess" /\ w.source \in {"apify", "route", "jd_first"}
    BY <1>1 DEF Before, assess_team_composition, Course
  <2>3. u.pc = (CASE full -> "exclude" [] ~full /\ w.source = "jd_first" -> "next" [] OTHER -> "signal")
    BY <1>1, <2>1 DEF Before, V1Typed, Work
  <2>4. u.kept = (IF ~full /\ w.source = "jd_first" THEN w.kept + 1 ELSE w.kept)
    BY <1>1, <2>1 DEF Before, V1Typed, Work
  <2>5. u = [w EXCEPT !.pc = u.pc, !.kept = u.kept]
    BY <1>1, <2>1, <2>3, <2>4 DEF Before, V1Typed, Work
  <2>6. CASE full
    <3>1. u.pc = "exclude"
      BY <2>3, <2>6
    <3>2. u.kept = w.kept
      BY <2>4, <2>6
    <3>3. QED
      BY <2>2, <2>5, <3>1, <3>2
  <2>7. CASE ~full /\ w.source = "jd_first"
    <3>1. u.pc = "next"
      BY <2>3, <2>7
    <3>2. u.kept = w.kept + 1
      BY <2>4, <2>7
    <3>3. QED
      BY <2>2, <2>5, <2>7, <3>1, <3>2
  <2>8. CASE ~full /\ w.source # "jd_first"
    <3>1. u.pc = "signal"
      BY <2>3, <2>8
    <3>2. u.kept = w.kept
      BY <2>4, <2>8
    <3>3. QED
      BY <2>2, <2>5, <2>8, <3>1, <3>2
  <2>9. QED
    BY <2>6, <2>7, <2>8
<1>3. /\ u.source = w.source /\ u.seen = w.seen /\ u.todo = w.todo
      /\ u.at = w.at /\ u.copy = w.copy /\ u.before = w.before
  BY <1>1, <1>2 DEF Before, V1Typed, Work
<1>4. e = c
  BY <1>1, <1>2, AtHand DEF Before, assess_team_composition, Course, V1Typed, Shared
<1>5. batch' = batch /\ UNCHANGED <<linked, rejected, crossed, v1Faults>>
  BY <1>1, <1>2, AtHand DEF Before, assess_team_composition, Course, V1Typed, Shared
<1>6. V1Typed(r)'
  <2>1. u = [pc |-> u.pc, source |-> u.source, seen |-> u.seen, todo |-> u.todo,
             at |-> u.at, kept |-> u.kept, copy |-> u.copy, before |-> u.before]
    BY <1>1, <1>2 DEF Before, V1Typed, Work
  <2>2. /\ u.pc \in Phases /\ u.source \in AllSources /\ u.seen \in SUBSET Domains /\ u.todo \in SUBSET Domains
        /\ u.at \in Domains \cup {NoDomain} /\ u.kept \in Nat /\ u.copy \in SUBSET Domains /\ u.before \in SUBSET Domains
    BY <1>1, <1>2, <1>3, AtHand DEF Before, Phases, Crossing, Gathering, Dropping, Rows, Shared
  <2>3. u \in Work
    BY <2>1, <2>2 DEF Work
  <2>4. e \in [Domains -> Company] /\ batch'[r] \in {"none", "in_progress", "complete", "failed"}
    BY <1>1, <1>4, <1>5 DEF Before, V1Typed, Shared
  <2>5. QED
    BY <2>3, <2>4 DEF V1Typed
<1>7. Course(r)'
  BY <1>1, <1>2, <1>3, AtHand DEF Before, Course, AllSources, Phases, Crossing, Gathering, Dropping
<1>8. Blank(r)'
  BY <1>1, <1>2, <1>4, AtHand DEF Before, Blank, NoCompanyRow
<1>9. Counted(r)'
  BY <1>1, <1>2, <1>3, DomainsFinite, AtHand DEF Before, Counted, V1InHand, Phases, Crossing, Gathering, Dropping
<1>10. Linked(r)'
  BY <1>1, <1>2, <1>3, <1>4, <1>5, AtHand DEF Before, Linked, Phases, Crossing, Gathering, Dropping
<1>11. Searched(r)'
  BY <1>1, <1>2, <1>3, <1>4, <1>5, AtHand DEF Before, Searched, Settled, New, Going, Course, Phases, Crossing, Gathering, Dropping
<1>12. v1Faults' = 0 => V1Fresh(r)'
  BY <1>1, <1>2, <1>3, <1>4, <1>5, AtHand DEF Before, V1Fresh, Phases, Crossing, Gathering, Dropping
<1>13. V1Ahead(r)'
  BY <1>1, <1>2, <1>3, <1>4, AtHand DEF Before, V1Ahead, Rows, Phases, Crossing, Gathering, Dropping
<1>14. Drops(r)
  BY <1>1, <1>2, <1>3, <1>4, <1>5, AtHand DEF Before, Drops, Phases, Crossing, Gathering, Dropping
<1>15. Gathers(r)
  BY <1>1, <1>2, <1>3, <1>4, <1>5, AtHand DEF Before, Gathers, Phases, Crossing, Gathering, Dropping
<1>16. QED
  BY <1>5, <1>6, <1>7, <1>8, <1>9, <1>10, <1>11, <1>12, <1>13, <1>14, <1>15 DEF Kept, Own

(* A company with a full team is deleted again; nothing is linked to it.   *)
LEMMA ExcludeFullTeamKeeps ==
  ASSUME V1Inv, NEW r \in V1Runs, ~Vanished(r), ExcludeFullTeam(r)
  PROVE  Kept(r) /\ Gathers(r)
<1> DEFINE w == v1[r]
           u == v1'[r]
           c == row[r]
           e == row'[r]
<1>1. Before(r)
  BY BeforeStep
<1>2. u = [w EXCEPT !.pc = "next"] /\ w.pc = "exclude"
  BY <1>1 DEF Before, ExcludeFullTeam, Shared, V1Typed, Work, AllSources
<1>3. /\ u.pc = "next" /\ u.source = w.source /\ u.seen = w.seen /\ u.todo = w.todo
      /\ u.at = w.at /\ u.kept = w.kept /\ u.copy = w.copy /\ u.before = w.before
  BY <1>1, <1>2 DEF Before, V1Typed, Work
<1>4. /\ w.at \in Domains /\ (\A d \in Domains : d # w.at => e[d] = c[d]) /\ e \in [Domains -> Company]
      /\ e[w.at] = [live |-> FALSE, dropped |-> FALSE, hiring |-> FALSE, contacts |-> FALSE, stamped |-> FALSE, lookups |-> 0]
      /\ e[w.at].live = FALSE /\ e[w.at].dropped = FALSE /\ e[w.at].hiring = FALSE
      /\ e[w.at].contacts = FALSE /\ e[w.at].stamped = FALSE /\ e[w.at].lookups = 0
  <2>1. w.at \in Domains
    BY <1>1, <1>2, AtHand DEF Before
  <2>2. e = [c EXCEPT ![w.at] = NoCompanyRow]
    BY <1>1, <1>2, AtHand DEF Before, ExcludeFullTeam, V1Typed, Shared
  <2>3. c \in [Domains -> Company] /\ c[w.at] \in Company
    BY <1>1, <2>1 DEF Before, V1Typed
  <2>4. e[w.at] = [live |-> FALSE, dropped |-> FALSE, hiring |-> FALSE, contacts |-> FALSE, stamped |-> FALSE, lookups |-> 0] /\ \A d \in Domains : d # w.at => e[d] = c[d]
    BY <2>1, <2>2, <2>3 DEF Company, NoCompanyRow
  <2>5. e[w.at] \in Company
    BY <2>3, <2>4 DEF Company
  <2>6. e \in [Domains -> Company]
    BY <2>2, <2>3, <2>4, <2>5
  <2>7. QED
    BY <2>1, <2>4, <2>6
<1>5. batch' = batch /\ UNCHANGED <<linked, rejected, crossed, v1Faults>>
  BY <1>1, <1>2, AtHand DEF Before, ExcludeFullTeam, V1Typed, Shared
<1>6. V1Typed(r)'
  <2>1. u = [pc |-> u.pc, source |-> u.source, seen |-> u.seen, todo |-> u.todo,
             at |-> u.at, kept |-> u.kept, copy |-> u.copy, before |-> u.before]
    BY <1>1, <1>2 DEF Before, V1Typed, Work
  <2>2. /\ u.pc \in Phases /\ u.source \in AllSources /\ u.seen \in SUBSET Domains /\ u.todo \in SUBSET Domains
        /\ u.at \in Domains \cup {NoDomain} /\ u.kept \in Nat /\ u.copy \in SUBSET Domains /\ u.before \in SUBSET Domains
    BY <1>1, <1>2, <1>3, AtHand DEF Before, Phases, Crossing, Gathering, Dropping, Rows, Shared
  <2>3. u \in Work
    BY <2>1, <2>2 DEF Work
  <2>4. e \in [Domains -> Company] /\ batch'[r] \in {"none", "in_progress", "complete", "failed"}
    BY <1>1, <1>4, <1>5 DEF Before, V1Typed, Shared
  <2>5. QED
    BY <2>3, <2>4 DEF V1Typed
<1>7. Course(r)'
  BY <1>1, <1>2, <1>3, AtHand DEF Before, Course, AllSources, Phases, Crossing, Gathering, Dropping
<1>8. Blank(r)'
  BY <1>1, <1>2, <1>4, AtHand DEF Before, Blank, NoCompanyRow
<1>9. Counted(r)'
  BY <1>1, <1>2, <1>3, DomainsFinite, AtHand DEF Before, Counted, V1InHand, Phases, Crossing, Gathering, Dropping
<1>10. Linked(r)'
  BY <1>1, <1>2, <1>3, <1>4, <1>5, AtHand DEF Before, Linked, Phases, Crossing, Gathering, Dropping
<1>11. Searched(r)'
  BY <1>1, <1>2, <1>3, <1>4, <1>5, AtHand DEF Before, Searched, Settled, New, Going, Course, Phases, Crossing, Gathering, Dropping
<1>12. v1Faults' = 0 => V1Fresh(r)'
  BY <1>1, <1>2, <1>3, <1>4, <1>5, AtHand DEF Before, V1Fresh, Phases, Crossing, Gathering, Dropping
<1>13. V1Ahead(r)'
  BY <1>1, <1>2, <1>3, <1>4, AtHand DEF Before, V1Ahead, Rows, Phases, Crossing, Gathering, Dropping
<1>14. Drops(r)
  BY <1>1, <1>2, <1>3, <1>4, <1>5, AtHand DEF Before, Drops, Phases, Crossing, Gathering, Dropping
<1>15. Gathers(r)
  BY <1>1, <1>2, <1>3, <1>4, <1>5, AtHand DEF Before, Gathers, Phases, Crossing, Gathering, Dropping
<1>16. QED
  BY <1>5, <1>6, <1>7, <1>8, <1>9, <1>10, <1>11, <1>12, <1>13, <1>14, <1>15 DEF Kept, Own

(* A posting is linked to the company in hand, or the failure swallowed.   *)
LEMMA PersistPostingAsSignalKeeps ==
  ASSUME V1Inv, NEW r \in V1Runs, ~Vanished(r), _persist_posting_as_signal(r)
  PROVE  Kept(r) /\ Gathers(r)
<1> DEFINE w == v1[r]
           u == v1'[r]
           c == row[r]
           e == row'[r]
<1>1. Before(r)
  BY BeforeStep
<1>2. u = [w EXCEPT !.pc = "next", !.kept = IF w.pc = "signal" THEN w.kept + 1 ELSE w.kept] /\ w.pc \in {"signal", "surplus"}
  BY <1>1 DEF Before, _persist_posting_as_signal, Shared, V1Typed, Work, AllSources
<1>3. /\ u.pc = "next" /\ u.source = w.source /\ u.seen = w.seen /\ u.todo = w.todo
      /\ u.at = w.at /\ u.kept = (IF w.pc = "signal" THEN w.kept + 1 ELSE w.kept) /\ u.copy = w.copy /\ u.before = w.before
  BY <1>1, <1>2 DEF Before, V1Typed, Work
<1>4. e = c
  BY <1>1, <1>2, AtHand DEF Before, _persist_posting_as_signal, V1Typed, Shared
<1>5. batch' = batch /\ UNCHANGED <<rejected, crossed, v1Faults>> /\ w.at \in Domains /\ c[w.at].live
      /\ \A d \in Domains : linked'[d] = linked[d] \/ (d = w.at /\ linked'[d] = r)
  BY <1>1, <1>2, AtHand DEF Before, _persist_posting_as_signal, V1Typed, Shared
<1>6. V1Typed(r)'
  <2>1. u = [pc |-> u.pc, source |-> u.source, seen |-> u.seen, todo |-> u.todo,
             at |-> u.at, kept |-> u.kept, copy |-> u.copy, before |-> u.before]
    BY <1>1, <1>2 DEF Before, V1Typed, Work
  <2>2. /\ u.pc \in Phases /\ u.source \in AllSources /\ u.seen \in SUBSET Domains /\ u.todo \in SUBSET Domains
        /\ u.at \in Domains \cup {NoDomain} /\ u.kept \in Nat /\ u.copy \in SUBSET Domains /\ u.before \in SUBSET Domains
    BY <1>1, <1>2, <1>3, AtHand DEF Before, Phases, Crossing, Gathering, Dropping, Rows, Shared
  <2>3. u \in Work
    BY <2>1, <2>2 DEF Work
  <2>4. e \in [Domains -> Company] /\ batch'[r] \in {"none", "in_progress", "complete", "failed"}
    BY <1>1, <1>4, <1>5 DEF Before, V1Typed, Shared
  <2>5. QED
    BY <2>3, <2>4 DEF V1Typed
<1>7. Course(r)'
  BY <1>1, <1>2, <1>3, AtHand DEF Before, Course, AllSources, Phases, Crossing, Gathering, Dropping
<1>8. Blank(r)'
  BY <1>1, <1>2, <1>4, AtHand DEF Before, Blank, NoCompanyRow
<1>9. Counted(r)'
  BY <1>1, <1>2, <1>3, DomainsFinite, AtHand DEF Before, Counted, V1InHand, Phases, Crossing, Gathering, Dropping
<1>10. Linked(r)'
  BY <1>1, <1>2, <1>3, <1>4, <1>5, AtHand DEF Before, Linked, Phases, Crossing, Gathering, Dropping, Course
<1>11. Searched(r)'
  BY <1>1, <1>2, <1>3, <1>4, <1>5, AtHand DEF Before, Searched, Settled, New, Going, Course, Phases, Crossing, Gathering, Dropping
<1>12. v1Faults' = 0 => V1Fresh(r)'
  BY <1>1, <1>2, <1>3, <1>4, <1>5, AtHand DEF Before, V1Fresh, Phases, Crossing, Gathering, Dropping
<1>13. V1Ahead(r)'
  BY <1>1, <1>2, <1>3, <1>4, AtHand DEF Before, V1Ahead, Rows, Phases, Crossing, Gathering, Dropping
<1>14. Drops(r)
  BY <1>1, <1>2, <1>3, <1>4, <1>5, AtHand DEF Before, Drops, Phases, Crossing, Gathering, Dropping
<1>15. Gathers(r)
  BY <1>1, <1>2, <1>3, <1>4, <1>5, AtHand DEF Before, Gathers, Phases, Crossing, Gathering, Dropping
<1>16. QED
  BY <1>5, <1>6, <1>7, <1>8, <1>9, <1>10, <1>11, <1>12, <1>13, <1>14, <1>15 DEF Kept, Own

(* Discovery ends, and the source's next phase begins.                     *)
LEMMA EndDiscoveryKeeps ==
  ASSUME V1Inv, NEW r \in V1Runs, EndDiscovery(r)
  PROVE  Kept(r) /\ Gathers(r)
<1> DEFINE w == v1[r]
           u == v1'[r]
           c == row[r]
           e == row'[r]
<1>1. Before(r)
  BY BeforeStep
<1>2. u = [w EXCEPT !.pc = u.pc, !.todo = u.todo, !.at = NoDomain, !.seen = {}] /\ w.pc = "next" /\ u.pc \in {"dedupe", "enforce", "end", "people", "gate"}
      /\ (u.pc = "dedupe" <=> w.source = "deepline") /\ (u.pc = "enforce" <=> w.source = "apify") /\ (u.pc = "end" <=> w.source = "jobo")
      /\ (u.pc = "people" => w.source = "jd_first") /\ (u.pc = "gate" => w.source \in {"route", "jd_first"})
      /\ u.todo = IF w.source \in {"route", "jd_first"} THEN Rows(r) ELSE {}
  <2>1. PICK ownIcps \in BOOLEAN :
          u = [w EXCEPT !.pc = CASE w.source = "deepline" -> "dedupe"
                                 [] w.source = "apify" -> "enforce"
                                 [] w.source = "jobo" -> "end"
                                 [] w.source = "jd_first" /\ ~ownIcps -> "people"
                                 [] OTHER -> "gate",
                        !.todo = IF w.source \in {"route", "jd_first"} THEN Rows(r) ELSE {}, !.at = NoDomain, !.seen = {}]
    BY <1>1 DEF Before, EndDiscovery, Shared
  <2>2. w.pc = "next"
    BY DEF EndDiscovery
  <2>3. /\ u.pc = (CASE w.source = "deepline" -> "dedupe" [] w.source = "apify" -> "enforce" [] w.source = "jobo" -> "end"
                     [] w.source = "jd_first" /\ ~ownIcps -> "people" [] OTHER -> "gate")
        /\ u.todo = (IF w.source \in {"route", "jd_first"} THEN Rows(r) ELSE {})
        /\ u = [w EXCEPT !.pc = u.pc, !.todo = u.todo, !.at = NoDomain, !.seen = {}]
    BY <1>1, <2>1 DEF Before, V1Typed, Work
  <2>4. w.source \in {"deepline", "apify", "route", "jobo", "jd_first"}
    BY <1>1 DEF Before, AllSources
  <2>5. QED
    BY <2>2, <2>3, <2>4
<1>3. /\ u.source = w.source /\ u.seen = {} /\ u.at = NoDomain
      /\ u.kept = w.kept /\ u.copy = w.copy /\ u.before = w.before
  BY <1>1, <1>2 DEF Before, V1Typed, Work
<1>4. e = c
  BY <1>1, <1>2 DEF Before, EndDiscovery, V1Typed, Shared
<1>5. batch' = batch /\ UNCHANGED <<linked, rejected, crossed, v1Faults>>
  BY <1>1, <1>2 DEF Before, EndDiscovery, V1Typed, Shared
<1>6. V1Typed(r)'
  <2>1. u = [pc |-> u.pc, source |-> u.source, seen |-> u.seen, todo |-> u.todo,
             at |-> u.at, kept |-> u.kept, copy |-> u.copy, before |-> u.before]
    BY <1>1, <1>2 DEF Before, V1Typed, Work
  <2>2. /\ u.pc \in Phases /\ u.source \in AllSources /\ u.seen \in SUBSET Domains /\ u.todo \in SUBSET Domains
        /\ u.at \in Domains \cup {NoDomain} /\ u.kept \in Nat /\ u.copy \in SUBSET Domains /\ u.before \in SUBSET Domains
    BY <1>1, <1>2, <1>3 DEF Before, Phases, Crossing, Gathering, Dropping, Rows, Shared
  <2>3. u \in Work
    BY <2>1, <2>2 DEF Work
  <2>4. e \in [Domains -> Company] /\ batch'[r] \in {"none", "in_progress", "complete", "failed"}
    BY <1>1, <1>4, <1>5 DEF Before, V1Typed, Shared
  <2>5. QED
    BY <2>3, <2>4 DEF V1Typed
<1>7. Course(r)'
  BY <1>1, <1>2, <1>3 DEF Before, Course, AllSources, Phases, Crossing, Gathering, Dropping
<1>8. Blank(r)'
  BY <1>1, <1>2, <1>4 DEF Before, Blank, NoCompanyRow
<1>9. Counted(r)'
  BY <1>1, <1>2, <1>3, DomainsFinite DEF Before, Counted, V1InHand, Phases, Crossing, Gathering, Dropping
<1>10. Linked(r)'
  BY <1>1, <1>2, <1>3, <1>4, <1>5 DEF Before, Linked, Phases, Crossing, Gathering, Dropping
<1>11. Searched(r)'
  BY <1>1, <1>2, <1>3, <1>4, <1>5 DEF Before, Searched, Settled, New, Going, Course, Phases, Crossing, Gathering, Dropping, Rows
<1>12. v1Faults' = 0 => V1Fresh(r)'
  BY <1>1, <1>2, <1>3, <1>4, <1>5 DEF Before, V1Fresh, Phases, Crossing, Gathering, Dropping, Rows
<1>13. V1Ahead(r)'
  BY <1>1, <1>2, <1>3, <1>4 DEF Before, V1Ahead, Rows, Phases, Crossing, Gathering, Dropping
<1>14. Drops(r)
  BY <1>1, <1>2, <1>3, <1>4, <1>5 DEF Before, Drops, Phases, Crossing, Gathering, Dropping
<1>15. Gathers(r)
  BY <1>1, <1>2, <1>3, <1>4, <1>5 DEF Before, Gathers, Phases, Crossing, Gathering, Dropping
<1>16. QED
  BY <1>5, <1>6, <1>7, <1>8, <1>9, <1>10, <1>11, <1>12, <1>13, <1>14, <1>15 DEF Kept, Own

(* The companies to be dropped are chosen.                                 *)
LEMMA EnforceIcpOnCompaniesKeeps ==
  ASSUME V1Inv, NEW r \in V1Runs, enforce_icp_on_companies(r)
  PROVE  Kept(r) /\ Gathers(r)
<1> DEFINE w == v1[r]
           u == v1'[r]
           c == row[r]
           e == row'[r]
<1>1. Before(r)
  BY BeforeStep
<1>2. u = [w EXCEPT !.todo = u.todo, !.pc = u.pc] /\ w.pc = "enforce" /\ u.todo \in SUBSET Rows(r)
      /\ ((u.pc = "people" /\ u.todo = Rows(r)) \/ u.pc = "drop")
  <2>1. PICK drop \in SUBSET Rows(r) :
          u = [w EXCEPT !.todo = IF drop = {} THEN Rows(r) ELSE drop, !.pc = IF drop = {} THEN "people" ELSE "drop"]
    BY <1>1 DEF Before, enforce_icp_on_companies, Shared
  <2>2. w.pc = "enforce"
    BY DEF enforce_icp_on_companies
  <2>3. CASE drop = {}
    <3>1. u = [w EXCEPT !.todo = Rows(r), !.pc = "people"]
      BY <2>1, <2>3
    <3>2. QED
      BY <1>1, <2>2, <3>1 DEF Before, V1Typed, Work
  <2>4. CASE drop # {}
    <3>1. u = [w EXCEPT !.todo = drop, !.pc = "drop"]
      BY <2>1, <2>4
    <3>2. QED
      BY <1>1, <2>1, <2>2, <3>1 DEF Before, V1Typed, Work
  <2>5. QED
    BY <2>3, <2>4
<1>3. /\ u.source = w.source /\ u.seen = w.seen /\ u.at = w.at
      /\ u.kept = w.kept /\ u.copy = w.copy /\ u.before = w.before
  BY <1>1, <1>2 DEF Before, V1Typed, Work
<1>4. e = c
  BY <1>1, <1>2 DEF Before, enforce_icp_on_companies, V1Typed, Shared
<1>5. batch' = batch /\ UNCHANGED <<linked, rejected, crossed, v1Faults>>
  BY <1>1, <1>2 DEF Before, enforce_icp_on_companies, V1Typed, Shared
<1>6. V1Typed(r)'
  <2>1. u = [pc |-> u.pc, source |-> u.source, seen |-> u.seen, todo |-> u.todo,
             at |-> u.at, kept |-> u.kept, copy |-> u.copy, before |-> u.before]
    BY <1>1, <1>2 DEF Before, V1Typed, Work
  <2>2. /\ u.pc \in Phases /\ u.source \in AllSources /\ u.seen \in SUBSET Domains /\ u.todo \in SUBSET Domains
        /\ u.at \in Domains \cup {NoDomain} /\ u.kept \in Nat /\ u.copy \in SUBSET Domains /\ u.before \in SUBSET Domains
    BY <1>1, <1>2, <1>3 DEF Before, Phases, Crossing, Gathering, Dropping, Rows, Shared
  <2>3. u \in Work
    BY <2>1, <2>2 DEF Work
  <2>4. e \in [Domains -> Company] /\ batch'[r] \in {"none", "in_progress", "complete", "failed"}
    BY <1>1, <1>4, <1>5 DEF Before, V1Typed, Shared
  <2>5. QED
    BY <2>3, <2>4 DEF V1Typed
<1>7. Course(r)'
  BY <1>1, <1>2, <1>3 DEF Before, Course, AllSources, Phases, Crossing, Gathering, Dropping
<1>8. Blank(r)'
  BY <1>1, <1>2, <1>4 DEF Before, Blank, NoCompanyRow
<1>9. Counted(r)'
  BY <1>1, <1>2, <1>3, DomainsFinite DEF Before, Counted, V1InHand, Phases, Crossing, Gathering, Dropping
<1>10. Linked(r)'
  BY <1>1, <1>2, <1>3, <1>4, <1>5 DEF Before, Linked, Phases, Crossing, Gathering, Dropping
<1>11. Searched(r)'
  BY <1>1, <1>2, <1>3, <1>4, <1>5 DEF Before, Searched, Settled, New, Going, Course, Phases, Crossing, Gathering, Dropping, Rows
<1>12. v1Faults' = 0 => V1Fresh(r)'
  BY <1>1, <1>2, <1>3, <1>4, <1>5 DEF Before, V1Fresh, Phases, Crossing, Gathering, Dropping, Rows
<1>13. V1Ahead(r)'
  BY <1>1, <1>2, <1>3, <1>4 DEF Before, V1Ahead, Rows, Phases, Crossing, Gathering, Dropping
<1>14. Drops(r)
  BY <1>1, <1>2, <1>3, <1>4, <1>5 DEF Before, Drops, Phases, Crossing, Gathering, Dropping
<1>15. Gathers(r)
  BY <1>1, <1>2, <1>3, <1>4, <1>5 DEF Before, Gathers, Phases, Crossing, Gathering, Dropping
<1>16. QED
  BY <1>5, <1>6, <1>7, <1>8, <1>9, <1>10, <1>11, <1>12, <1>13, <1>14, <1>15 DEF Kept, Own

(* The rejected domains are read before one is added.                      *)
LEMMA ReadRejectedKeeps ==
  ASSUME V1Inv, NEW r \in V1Runs, NEW x \in Domains, ~Vanished(r), ReadRejected(r, x)
  PROVE  Kept(r) /\ Gathers(r)
<1> DEFINE w == v1[r]
           u == v1'[r]
           c == row[r]
           e == row'[r]
<1>1. Before(r)
  BY BeforeStep
<1>2. u = [w EXCEPT !.pc = "reject", !.at = x, !.copy = rejected] /\ w.pc = "drop" /\ x \in w.todo
  BY <1>1 DEF Before, ReadRejected, Shared, V1Typed, Work, AllSources
<1>3. /\ u.pc = "reject" /\ u.source = w.source /\ u.seen = w.seen /\ u.todo = w.todo
      /\ u.at = x /\ u.kept = w.kept /\ u.copy = rejected /\ u.before = w.before
  BY <1>1, <1>2 DEF Before, V1Typed, Work
<1>4. e = c
  BY <1>1, <1>2, AtHand DEF Before, ReadRejected, V1Typed, Shared
<1>5. batch' = batch /\ UNCHANGED <<linked, rejected, crossed, v1Faults>>
  BY <1>1, <1>2, AtHand DEF Before, ReadRejected, V1Typed, Shared
<1>6. V1Typed(r)'
  <2>1. u = [pc |-> u.pc, source |-> u.source, seen |-> u.seen, todo |-> u.todo,
             at |-> u.at, kept |-> u.kept, copy |-> u.copy, before |-> u.before]
    BY <1>1, <1>2 DEF Before, V1Typed, Work
  <2>2. /\ u.pc \in Phases /\ u.source \in AllSources /\ u.seen \in SUBSET Domains /\ u.todo \in SUBSET Domains
        /\ u.at \in Domains \cup {NoDomain} /\ u.kept \in Nat /\ u.copy \in SUBSET Domains /\ u.before \in SUBSET Domains
    BY <1>1, <1>2, <1>3, AtHand DEF Before, Phases, Crossing, Gathering, Dropping, Rows, Shared
  <2>3. u \in Work
    BY <2>1, <2>2 DEF Work
  <2>4. e \in [Domains -> Company] /\ batch'[r] \in {"none", "in_progress", "complete", "failed"}
    BY <1>1, <1>4, <1>5 DEF Before, V1Typed, Shared
  <2>5. QED
    BY <2>3, <2>4 DEF V1Typed
<1>7. Course(r)'
  BY <1>1, <1>2, <1>3, AtHand DEF Before, Course, AllSources, Phases, Crossing, Gathering, Dropping
<1>8. Blank(r)'
  BY <1>1, <1>2, <1>4, AtHand DEF Before, Blank, NoCompanyRow
<1>9. Counted(r)'
  BY <1>1, <1>2, <1>3, DomainsFinite, AtHand DEF Before, Counted, V1InHand, Phases, Crossing, Gathering, Dropping
<1>10. Linked(r)'
  BY <1>1, <1>2, <1>3, <1>4, <1>5, AtHand DEF Before, Linked, Phases, Crossing, Gathering, Dropping
<1>11. Searched(r)'
  BY <1>1, <1>2, <1>3, <1>4, <1>5, AtHand DEF Before, Searched, Settled, New, Going, Course, Phases, Crossing, Gathering, Dropping
<1>12. v1Faults' = 0 => V1Fresh(r)'
  BY <1>1, <1>2, <1>3, <1>4, <1>5, AtHand DEF Before, V1Fresh, Phases, Crossing, Gathering, Dropping
<1>13. V1Ahead(r)'
  BY <1>1, <1>2, <1>3, <1>4, AtHand DEF Before, V1Ahead, Rows, Phases, Crossing, Gathering, Dropping
<1>14. Drops(r)
  BY <1>1, <1>2, <1>3, <1>4, <1>5, AtHand DEF Before, Drops, Phases, Crossing, Gathering, Dropping
<1>15. Gathers(r)
  BY <1>1, <1>2, <1>3, <1>4, <1>5, AtHand DEF Before, Gathers, Phases, Crossing, Gathering, Dropping
<1>16. QED
  BY <1>5, <1>6, <1>7, <1>8, <1>9, <1>10, <1>11, <1>12, <1>13, <1>14, <1>15 DEF Kept, Own

(* A domain is rejected, the copy written back, and its company marked.    *)
LEMMA AddRejectedDomainKeeps ==
  ASSUME V1Inv, NEW r \in V1Runs, ~Vanished(r), add_rejected_domain(r)
  PROVE  Kept(r) /\ Gathers(r)
<1> DEFINE w == v1[r]
           u == v1'[r]
           c == row[r]
           e == row'[r]
<1>1. Before(r)
  BY BeforeStep
<1>2. u = [w EXCEPT !.at = NoDomain, !.copy = {}, !.todo = u.todo, !.pc = u.pc] /\ w.pc = "reject" /\ u.todo \in SUBSET Domains
      /\ ((u.pc = "people" /\ u.todo = Rows(r)) \/ u.pc = "drop")
  <2>1. u = [w EXCEPT !.at = NoDomain, !.copy = {},
                      !.todo = IF w.todo \ {w.at} = {} THEN Rows(r) ELSE w.todo \ {w.at},
                      !.pc = IF w.todo \ {w.at} = {} THEN "people" ELSE "drop"]
    BY <1>1 DEF Before, add_rejected_domain, Shared
  <2>2. w.pc = "reject"
    BY DEF add_rejected_domain
  <2>3. /\ u.todo = (IF w.todo \ {w.at} = {} THEN Rows(r) ELSE w.todo \ {w.at})
        /\ u.pc = (IF w.todo \ {w.at} = {} THEN "people" ELSE "drop")
        /\ u = [w EXCEPT !.at = NoDomain, !.copy = {}, !.todo = u.todo, !.pc = u.pc]
    BY <1>1, <2>1 DEF Before, V1Typed, Work
  <2>4. u.todo \in SUBSET Domains
    BY <1>1, <2>3 DEF Before, Rows
  <2>5. QED
    BY <2>2, <2>3, <2>4
<1>3. /\ u.source = w.source /\ u.seen = w.seen /\ u.at = NoDomain
      /\ u.kept = w.kept /\ u.copy = {} /\ u.before = w.before
  BY <1>1, <1>2 DEF Before, V1Typed, Work
<1>4. /\ w.at \in Domains /\ (\A d \in Domains : d # w.at => e[d] = c[d]) /\ e \in [Domains -> Company]
      /\ e[w.at] = [live |-> c[w.at].live, dropped |-> TRUE, hiring |-> c[w.at].hiring, contacts |-> c[w.at].contacts, stamped |-> c[w.at].stamped, lookups |-> c[w.at].lookups]
      /\ e[w.at].live = c[w.at].live /\ e[w.at].dropped = TRUE /\ e[w.at].hiring = c[w.at].hiring
      /\ e[w.at].contacts = c[w.at].contacts /\ e[w.at].stamped = c[w.at].stamped /\ e[w.at].lookups = c[w.at].lookups
  <2>1. w.at \in Domains
    BY <1>1, <1>2, AtHand DEF Before
  <2>2. e = [c EXCEPT ![w.at].dropped = TRUE]
    BY <1>1, <1>2, AtHand DEF Before, add_rejected_domain, V1Typed, Shared
  <2>3. c \in [Domains -> Company] /\ c[w.at] \in Company
    BY <1>1, <2>1 DEF Before, V1Typed
  <2>4. e[w.at] = [live |-> c[w.at].live, dropped |-> TRUE, hiring |-> c[w.at].hiring, contacts |-> c[w.at].contacts, stamped |-> c[w.at].stamped, lookups |-> c[w.at].lookups] /\ \A d \in Domains : d # w.at => e[d] = c[d]
    BY <2>1, <2>2, <2>3 DEF Company, NoCompanyRow
  <2>5. e[w.at] \in Company
    BY <2>3, <2>4 DEF Company
  <2>6. e \in [Domains -> Company]
    BY <2>2, <2>3, <2>4, <2>5
  <2>7. QED
    BY <2>1, <2>4, <2>6
<1>5. batch' = batch /\ UNCHANGED <<linked, crossed, v1Faults>> /\ rejected' = w.copy \cup {w.at} /\ c[w.at].live
  BY <1>1, <1>2, AtHand DEF Before, add_rejected_domain, V1Typed, Shared
<1>6. V1Typed(r)'
  <2>1. u = [pc |-> u.pc, source |-> u.source, seen |-> u.seen, todo |-> u.todo,
             at |-> u.at, kept |-> u.kept, copy |-> u.copy, before |-> u.before]
    BY <1>1, <1>2 DEF Before, V1Typed, Work
  <2>2. /\ u.pc \in Phases /\ u.source \in AllSources /\ u.seen \in SUBSET Domains /\ u.todo \in SUBSET Domains
        /\ u.at \in Domains \cup {NoDomain} /\ u.kept \in Nat /\ u.copy \in SUBSET Domains /\ u.before \in SUBSET Domains
    BY <1>1, <1>2, <1>3, AtHand DEF Before, Phases, Crossing, Gathering, Dropping, Rows, Shared
  <2>3. u \in Work
    BY <2>1, <2>2 DEF Work
  <2>4. e \in [Domains -> Company] /\ batch'[r] \in {"none", "in_progress", "complete", "failed"}
    BY <1>1, <1>4, <1>5 DEF Before, V1Typed, Shared
  <2>5. QED
    BY <2>3, <2>4 DEF V1Typed
<1>7. Course(r)'
  BY <1>1, <1>2, <1>3, AtHand DEF Before, Course, AllSources, Phases, Crossing, Gathering, Dropping
<1>8. Blank(r)'
  BY <1>1, <1>2, <1>4, AtHand DEF Before, Blank, NoCompanyRow
<1>9. Counted(r)'
  BY <1>1, <1>2, <1>3, DomainsFinite, AtHand DEF Before, Counted, V1InHand, Phases, Crossing, Gathering, Dropping
<1>10. Linked(r)'
  BY <1>1, <1>2, <1>3, <1>4, <1>5, AtHand DEF Before, Linked, Phases, Crossing, Gathering, Dropping
<1>11. Searched(r)'
  BY <1>1, <1>2, <1>3, <1>4, <1>5, AtHand DEF Before, Searched, Settled, New, Going, Course, Phases, Crossing, Gathering, Dropping, Rows
<1>12. v1Faults' = 0 => V1Fresh(r)'
  BY <1>1, <1>2, <1>3, <1>4, <1>5, AtHand DEF Before, V1Fresh, Phases, Crossing, Gathering, Dropping, Rows
<1>13. V1Ahead(r)'
  BY <1>1, <1>2, <1>3, <1>4, AtHand DEF Before, V1Ahead, Rows, Phases, Crossing, Gathering, Dropping
<1>14. Drops(r)
  BY <1>1, <1>2, <1>3, <1>4, <1>5, AtHand DEF Before, Drops, Phases, Crossing, Gathering, Dropping
<1>15. Gathers(r)
  BY <1>1, <1>2, <1>3, <1>4, <1>5, AtHand DEF Before, Gathers, Phases, Crossing, Gathering, Dropping
<1>16. QED
  BY <1>5, <1>6, <1>7, <1>8, <1>9, <1>10, <1>11, <1>12, <1>13, <1>14, <1>15 DEF Kept, Own

(* The gate deletes a company that no posting refers to, or marks it.      *)
LEMMA GateBatchBeforeDecisionMakersKeeps ==
  ASSUME V1Inv, NEW r \in V1Runs, NEW x \in Domains, ~Vanished(r), gate_batch_before_decision_makers(r, x)
  PROVE  Kept(r) /\ Gathers(r)
<1> DEFINE w == v1[r]
           u == v1'[r]
           c == row[r]
           e == row'[r]
<1>1. Before(r)
  BY BeforeStep
<1>2. u = [w EXCEPT !.todo = w.todo \ {x}] /\ w.pc = "gate" /\ x \in w.todo
  BY <1>1 DEF Before, gate_batch_before_decision_makers, Shared, V1Typed, Work, AllSources
<1>3. /\ u.pc = w.pc /\ u.source = w.source /\ u.seen = w.seen /\ u.todo = w.todo \ {x}
      /\ u.at = w.at /\ u.kept = w.kept /\ u.copy = w.copy /\ u.before = w.before
  BY <1>1, <1>2 DEF Before, V1Typed, Work
<1> DEFINE GateRow ==
      /\ e \in [Domains -> Company] /\ (\A d \in Domains : d # x => e[d] = c[d]) /\ c[x].live
      /\ e[x].lookups \in {0, c[x].lookups} /\ (e[x].dropped => c[x].dropped)
      /\ (e[x] = NoCompanyRow /\ linked[x] # r) \/ e[x].live
<1>4. GateRow
  <2>1. c \in [Domains -> Company] /\ c[x] \in Company /\ c[x].live
    BY <1>1, <1>2, AtHand DEF Before, V1Typed
  <2>2. CASE linked[x] # r /\ e = [c EXCEPT ![x] = NoCompanyRow]
    <3>1. e[x] = NoCompanyRow /\ NoCompanyRow \in Company /\ NoCompanyRow.lookups = 0 /\ NoCompanyRow.dropped = FALSE
      BY <2>1, <2>2 DEF NoCompanyRow, Company
    <3>2. QED
      BY <2>1, <2>2, <3>1
  <2>3. ASSUME NEW matched \in BOOLEAN, e = [c EXCEPT ![x].hiring = matched] PROVE GateRow
    <3>1. e[x] = [c[x] EXCEPT !.hiring = matched]
      BY <2>1, <2>3
    <3>2. e[x] \in Company /\ e[x].lookups = c[x].lookups /\ e[x].dropped = c[x].dropped /\ e[x].live = c[x].live
      BY <2>1, <3>1 DEF Company
    <3>3. QED
      BY <2>1, <2>3, <3>2
  <2>4. (linked[x] # r /\ e = [c EXCEPT ![x] = NoCompanyRow]) \/ \E matched \in BOOLEAN : e = [c EXCEPT ![x].hiring = matched]
    BY <1>1 DEF Before, gate_batch_before_decision_makers, Shared
  <2>5. QED
    BY <2>2, <2>3, <2>4
<1>5. batch' = batch /\ UNCHANGED <<linked, rejected, crossed, v1Faults>>
  BY <1>1, <1>2, AtHand DEF Before, gate_batch_before_decision_makers, V1Typed, Shared
<1>6. V1Typed(r)'
  <2>1. u = [pc |-> u.pc, source |-> u.source, seen |-> u.seen, todo |-> u.todo,
             at |-> u.at, kept |-> u.kept, copy |-> u.copy, before |-> u.before]
    BY <1>1, <1>2 DEF Before, V1Typed, Work
  <2>2. /\ u.pc \in Phases /\ u.source \in AllSources /\ u.seen \in SUBSET Domains /\ u.todo \in SUBSET Domains
        /\ u.at \in Domains \cup {NoDomain} /\ u.kept \in Nat /\ u.copy \in SUBSET Domains /\ u.before \in SUBSET Domains
    BY <1>1, <1>2, <1>3, AtHand DEF Before, Phases, Crossing, Gathering, Dropping, Rows, Shared
  <2>3. u \in Work
    BY <2>1, <2>2 DEF Work
  <2>4. e \in [Domains -> Company] /\ batch'[r] \in {"none", "in_progress", "complete", "failed"}
    BY <1>1, <1>4, <1>5 DEF Before, V1Typed, Shared
  <2>5. QED
    BY <2>3, <2>4 DEF V1Typed
<1>7. Course(r)'
  BY <1>1, <1>2, <1>3, AtHand DEF Before, Course, AllSources, Phases, Crossing, Gathering, Dropping
<1>8. Blank(r)'
  BY <1>1, <1>2, <1>4, AtHand DEF Before, Blank, NoCompanyRow
<1>9. Counted(r)'
  BY <1>1, <1>2, <1>3, DomainsFinite, AtHand DEF Before, Counted, V1InHand, Phases, Crossing, Gathering, Dropping
<1>10. Linked(r)'
  BY <1>1, <1>2, <1>3, <1>4, <1>5, AtHand DEF Before, Linked, Phases, Crossing, Gathering, Dropping
<1>11. Searched(r)'
  BY <1>1, <1>2, <1>3, <1>4, <1>5, AtHand DEF Before, Searched, Settled, New, Going, Course, Phases, Crossing, Gathering, Dropping
<1>12. v1Faults' = 0 => V1Fresh(r)'
  BY <1>1, <1>2, <1>3, <1>4, <1>5, AtHand DEF Before, V1Fresh, Phases, Crossing, Gathering, Dropping
<1>13. V1Ahead(r)'
  BY <1>1, <1>2, <1>3, <1>4, AtHand DEF Before, V1Ahead, Rows, Phases, Crossing, Gathering, Dropping
<1>14. Drops(r)
  BY <1>1, <1>2, <1>3, <1>4, <1>5, AtHand DEF Before, Drops, Phases, Crossing, Gathering, Dropping
<1>15. Gathers(r)
  BY <1>1, <1>2, <1>3, <1>4, <1>5, AtHand DEF Before, Gathers, Phases, Crossing, Gathering, Dropping
<1>16. QED
  BY <1>5, <1>6, <1>7, <1>8, <1>9, <1>10, <1>11, <1>12, <1>13, <1>14, <1>15 DEF Kept, Own

(* The companies that matched are to be searched.                          *)
LEMMA GateEndsKeeps ==
  ASSUME V1Inv, NEW r \in V1Runs, ~Vanished(r), GateEnds(r)
  PROVE  Kept(r) /\ Gathers(r)
<1> DEFINE w == v1[r]
           u == v1'[r]
           c == row[r]
           e == row'[r]
<1>1. Before(r)
  BY BeforeStep
<1>2. u = [w EXCEPT !.pc = "people", !.todo = {d \in Rows(r) \ w.before : c[d].hiring}] /\ w.pc = "gate" /\ w.todo = {}
  BY <1>1 DEF Before, GateEnds, Shared, V1Typed, Work, AllSources
<1>3. /\ u.pc = "people" /\ u.source = w.source /\ u.seen = w.seen /\ u.todo = {d \in Rows(r) \ w.before : c[d].hiring}
      /\ u.at = w.at /\ u.kept = w.kept /\ u.copy = w.copy /\ u.before = w.before
  BY <1>1, <1>2 DEF Before, V1Typed, Work
<1>4. e = c
  BY <1>1, <1>2, AtHand DEF Before, GateEnds, V1Typed, Shared
<1>5. batch' = batch /\ UNCHANGED <<linked, rejected, crossed, v1Faults>>
  BY <1>1, <1>2, AtHand DEF Before, GateEnds, V1Typed, Shared
<1>6. V1Typed(r)'
  <2>1. u = [pc |-> u.pc, source |-> u.source, seen |-> u.seen, todo |-> u.todo,
             at |-> u.at, kept |-> u.kept, copy |-> u.copy, before |-> u.before]
    BY <1>1, <1>2 DEF Before, V1Typed, Work
  <2>2. /\ u.pc \in Phases /\ u.source \in AllSources /\ u.seen \in SUBSET Domains /\ u.todo \in SUBSET Domains
        /\ u.at \in Domains \cup {NoDomain} /\ u.kept \in Nat /\ u.copy \in SUBSET Domains /\ u.before \in SUBSET Domains
    BY <1>1, <1>2, <1>3, AtHand DEF Before, Phases, Crossing, Gathering, Dropping, Rows, Shared
  <2>3. u \in Work
    BY <2>1, <2>2 DEF Work
  <2>4. e \in [Domains -> Company] /\ batch'[r] \in {"none", "in_progress", "complete", "failed"}
    BY <1>1, <1>4, <1>5 DEF Before, V1Typed, Shared
  <2>5. QED
    BY <2>3, <2>4 DEF V1Typed
<1>7. Course(r)'
  BY <1>1, <1>2, <1>3, AtHand DEF Before, Course, AllSources, Phases, Crossing, Gathering, Dropping
<1>8. Blank(r)'
  BY <1>1, <1>2, <1>4, AtHand DEF Before, Blank, NoCompanyRow
<1>9. Counted(r)'
  BY <1>1, <1>2, <1>3, DomainsFinite, AtHand DEF Before, Counted, V1InHand, Phases, Crossing, Gathering, Dropping
<1>10. Linked(r)'
  BY <1>1, <1>2, <1>3, <1>4, <1>5, AtHand DEF Before, Linked, Phases, Crossing, Gathering, Dropping
<1>11. Searched(r)'
  BY <1>1, <1>2, <1>3, <1>4, <1>5, AtHand DEF Before, Searched, Settled, New, Going, Course, Phases, Crossing, Gathering, Dropping, Rows
<1>12. v1Faults' = 0 => V1Fresh(r)'
  BY <1>1, <1>2, <1>3, <1>4, <1>5, AtHand DEF Before, V1Fresh, Phases, Crossing, Gathering, Dropping, Rows
<1>13. V1Ahead(r)'
  BY <1>1, <1>2, <1>3, <1>4, AtHand DEF Before, V1Ahead, Rows, Phases, Crossing, Gathering, Dropping
<1>14. Drops(r)
  BY <1>1, <1>2, <1>3, <1>4, <1>5, AtHand DEF Before, Drops, Phases, Crossing, Gathering, Dropping
<1>15. Gathers(r)
  BY <1>1, <1>2, <1>3, <1>4, <1>5, AtHand DEF Before, Gathers, Phases, Crossing, Gathering, Dropping
<1>16. QED
  BY <1>5, <1>6, <1>7, <1>8, <1>9, <1>10, <1>11, <1>12, <1>13, <1>14, <1>15 DEF Kept, Own

(* A Deepline company is passed over.                                      *)
LEMMA PassOverKeeps ==
  ASSUME V1Inv, NEW r \in V1Runs, NEW x \in Domains, ~Vanished(r), PassOver(r, x)
  PROVE  Kept(r) /\ Gathers(r)
<1> DEFINE w == v1[r]
           u == v1'[r]
           c == row[r]
           e == row'[r]
<1>1. Before(r)
  BY BeforeStep
<1>2. u = [w EXCEPT !.todo = w.todo \ {x}] /\ w.pc = "people" /\ x \in w.todo /\ w.source = "deepline"
  BY <1>1 DEF Before, PassOver, Shared, V1Typed, Work, AllSources
<1>3. /\ u.pc = w.pc /\ u.source = w.source /\ u.seen = w.seen /\ u.todo = w.todo \ {x}
      /\ u.at = w.at /\ u.kept = w.kept /\ u.copy = w.copy /\ u.before = w.before
  BY <1>1, <1>2 DEF Before, V1Typed, Work
<1>4. e = c
  BY <1>1, <1>2, AtHand DEF Before, PassOver, V1Typed, Shared
<1>5. batch' = batch /\ UNCHANGED <<linked, rejected, crossed, v1Faults>>
  BY <1>1, <1>2, AtHand DEF Before, PassOver, V1Typed, Shared
<1>6. V1Typed(r)'
  <2>1. u = [pc |-> u.pc, source |-> u.source, seen |-> u.seen, todo |-> u.todo,
             at |-> u.at, kept |-> u.kept, copy |-> u.copy, before |-> u.before]
    BY <1>1, <1>2 DEF Before, V1Typed, Work
  <2>2. /\ u.pc \in Phases /\ u.source \in AllSources /\ u.seen \in SUBSET Domains /\ u.todo \in SUBSET Domains
        /\ u.at \in Domains \cup {NoDomain} /\ u.kept \in Nat /\ u.copy \in SUBSET Domains /\ u.before \in SUBSET Domains
    BY <1>1, <1>2, <1>3, AtHand DEF Before, Phases, Crossing, Gathering, Dropping, Rows, Shared
  <2>3. u \in Work
    BY <2>1, <2>2 DEF Work
  <2>4. e \in [Domains -> Company] /\ batch'[r] \in {"none", "in_progress", "complete", "failed"}
    BY <1>1, <1>4, <1>5 DEF Before, V1Typed, Shared
  <2>5. QED
    BY <2>3, <2>4 DEF V1Typed
<1>7. Course(r)'
  BY <1>1, <1>2, <1>3, AtHand DEF Before, Course, AllSources, Phases, Crossing, Gathering, Dropping
<1>8. Blank(r)'
  BY <1>1, <1>2, <1>4, AtHand DEF Before, Blank, NoCompanyRow
<1>9. Counted(r)'
  BY <1>1, <1>2, <1>3, DomainsFinite, AtHand DEF Before, Counted, V1InHand, Phases, Crossing, Gathering, Dropping
<1>10. Linked(r)'
  BY <1>1, <1>2, <1>3, <1>4, <1>5, AtHand DEF Before, Linked, Phases, Crossing, Gathering, Dropping
<1>11. Searched(r)'
  BY <1>1, <1>2, <1>3, <1>4, <1>5, AtHand DEF Before, Searched, Settled, New, Going, Course, Phases, Crossing, Gathering, Dropping
<1>12. v1Faults' = 0 => V1Fresh(r)'
  BY <1>1, <1>2, <1>3, <1>4, <1>5, AtHand DEF Before, V1Fresh, Phases, Crossing, Gathering, Dropping
<1>13. V1Ahead(r)'
  BY <1>1, <1>2, <1>3, <1>4, AtHand DEF Before, V1Ahead, Rows, Phases, Crossing, Gathering, Dropping
<1>14. Drops(r)
  BY <1>1, <1>2, <1>3, <1>4, <1>5, AtHand DEF Before, Drops, Phases, Crossing, Gathering, Dropping
<1>15. Gathers(r)
  BY <1>1, <1>2, <1>3, <1>4, <1>5, AtHand DEF Before, Gathers, Phases, Crossing, Gathering, Dropping
<1>16. QED
  BY <1>5, <1>6, <1>7, <1>8, <1>9, <1>10, <1>11, <1>12, <1>13, <1>14, <1>15 DEF Kept, Own

(* The company that was searched is stamped.                               *)
LEMMA StampSearchedKeeps ==
  ASSUME V1Inv, NEW r \in V1Runs, ~Vanished(r), StampSearched(r)
  PROVE  Kept(r) /\ Gathers(r)
<1> DEFINE w == v1[r]
           u == v1'[r]
           c == row[r]
           e == row'[r]
<1>1. Before(r)
  BY BeforeStep
<1>2. u = [w EXCEPT !.pc = "people", !.todo = w.todo \ {w.at}, !.at = NoDomain] /\ w.pc = "stamp"
  BY <1>1 DEF Before, StampSearched, Shared, V1Typed, Work, AllSources
<1>3. /\ u.pc = "people" /\ u.source = w.source /\ u.seen = w.seen /\ u.todo = w.todo \ {w.at}
      /\ u.at = NoDomain /\ u.kept = w.kept /\ u.copy = w.copy /\ u.before = w.before
  BY <1>1, <1>2 DEF Before, V1Typed, Work
<1>4. /\ w.at \in Domains /\ (\A d \in Domains : d # w.at => e[d] = c[d]) /\ e \in [Domains -> Company]
      /\ e[w.at] = [live |-> c[w.at].live, dropped |-> c[w.at].dropped, hiring |-> c[w.at].hiring, contacts |-> c[w.at].contacts, stamped |-> TRUE, lookups |-> c[w.at].lookups]
      /\ e[w.at].live = c[w.at].live /\ e[w.at].dropped = c[w.at].dropped /\ e[w.at].hiring = c[w.at].hiring
      /\ e[w.at].contacts = c[w.at].contacts /\ e[w.at].stamped = TRUE /\ e[w.at].lookups = c[w.at].lookups
  <2>1. w.at \in Domains
    BY <1>1, <1>2, AtHand DEF Before
  <2>2. e = [c EXCEPT ![w.at].stamped = TRUE]
    BY <1>1, <1>2, AtHand DEF Before, StampSearched, V1Typed, Shared
  <2>3. c \in [Domains -> Company] /\ c[w.at] \in Company
    BY <1>1, <2>1 DEF Before, V1Typed
  <2>4. e[w.at] = [live |-> c[w.at].live, dropped |-> c[w.at].dropped, hiring |-> c[w.at].hiring, contacts |-> c[w.at].contacts, stamped |-> TRUE, lookups |-> c[w.at].lookups] /\ \A d \in Domains : d # w.at => e[d] = c[d]
    BY <2>1, <2>2, <2>3 DEF Company, NoCompanyRow
  <2>5. e[w.at] \in Company
    BY <2>3, <2>4 DEF Company
  <2>6. e \in [Domains -> Company]
    BY <2>2, <2>3, <2>4, <2>5
  <2>7. QED
    BY <2>1, <2>4, <2>6
<1>5. batch' = batch /\ UNCHANGED <<linked, rejected, crossed, v1Faults>>
  BY <1>1, <1>2, AtHand DEF Before, StampSearched, V1Typed, Shared
<1>6. V1Typed(r)'
  <2>1. u = [pc |-> u.pc, source |-> u.source, seen |-> u.seen, todo |-> u.todo,
             at |-> u.at, kept |-> u.kept, copy |-> u.copy, before |-> u.before]
    BY <1>1, <1>2 DEF Before, V1Typed, Work
  <2>2. /\ u.pc \in Phases /\ u.source \in AllSources /\ u.seen \in SUBSET Domains /\ u.todo \in SUBSET Domains
        /\ u.at \in Domains \cup {NoDomain} /\ u.kept \in Nat /\ u.copy \in SUBSET Domains /\ u.before \in SUBSET Domains
    BY <1>1, <1>2, <1>3, AtHand DEF Before, Phases, Crossing, Gathering, Dropping, Rows, Shared
  <2>3. u \in Work
    BY <2>1, <2>2 DEF Work
  <2>4. e \in [Domains -> Company] /\ batch'[r] \in {"none", "in_progress", "complete", "failed"}
    BY <1>1, <1>4, <1>5 DEF Before, V1Typed, Shared
  <2>5. QED
    BY <2>3, <2>4 DEF V1Typed
<1>7. Course(r)'
  BY <1>1, <1>2, <1>3, AtHand DEF Before, Course, AllSources, Phases, Crossing, Gathering, Dropping
<1>8. Blank(r)'
  BY <1>1, <1>2, <1>4, AtHand DEF Before, Blank, NoCompanyRow
<1>9. Counted(r)'
  BY <1>1, <1>2, <1>3, DomainsFinite, AtHand DEF Before, Counted, V1InHand, Phases, Crossing, Gathering, Dropping
<1>10. Linked(r)'
  BY <1>1, <1>2, <1>3, <1>4, <1>5, AtHand DEF Before, Linked, Phases, Crossing, Gathering, Dropping
<1>11. Searched(r)'
  BY <1>1, <1>2, <1>3, <1>4, <1>5, AtHand DEF Before, Searched, Settled, New, Going, Course, Phases, Crossing, Gathering, Dropping
<1>12. v1Faults' = 0 => V1Fresh(r)'
  BY <1>1, <1>2, <1>3, <1>4, <1>5, AtHand DEF Before, V1Fresh, Phases, Crossing, Gathering, Dropping
<1>13. V1Ahead(r)'
  BY <1>1, <1>2, <1>3, <1>4, AtHand DEF Before, V1Ahead, Rows, Phases, Crossing, Gathering, Dropping
<1>14. Drops(r)
  BY <1>1, <1>2, <1>3, <1>4, <1>5, AtHand DEF Before, Drops, Phases, Crossing, Gathering, Dropping
<1>15. Gathers(r)
  BY <1>1, <1>2, <1>3, <1>4, <1>5, AtHand DEF Before, Gathers, Phases, Crossing, Gathering, Dropping
<1>16. QED
  BY <1>5, <1>6, <1>7, <1>8, <1>9, <1>10, <1>11, <1>12, <1>13, <1>14, <1>15 DEF Kept, Own

(* The batch is complete when its list is empty.                           *)
LEMMA EndPeopleKeeps ==
  ASSUME V1Inv, NEW r \in V1Runs, EndPeople(r)
  PROVE  Kept(r) /\ Gathers(r)
<1> DEFINE w == v1[r]
           u == v1'[r]
           c == row[r]
           e == row'[r]
<1>1. Before(r)
  BY BeforeStep
<1>2. u = [w EXCEPT !.pc = "over", !.todo = {}] /\ w.pc \in {"people", "end"} /\ (w.source # "deepline" => w.todo = {})
  BY <1>1 DEF Before, EndPeople, Shared, V1Typed, Work, AllSources
<1>3. /\ u.pc = "over" /\ u.source = w.source /\ u.seen = w.seen /\ u.todo = {}
      /\ u.at = w.at /\ u.kept = w.kept /\ u.copy = w.copy /\ u.before = w.before
  BY <1>1, <1>2 DEF Before, V1Typed, Work
<1>4. e = c
  BY <1>1, <1>2 DEF Before, EndPeople, V1Typed, Shared
<1>5. batch' = [batch EXCEPT ![r] = "complete"] /\ batch'[r] = "complete" /\ UNCHANGED <<linked, rejected, crossed, v1Faults>>
  BY <1>1, <1>2 DEF Before, EndPeople, V1Typed, Shared
<1>6. V1Typed(r)'
  <2>1. u = [pc |-> u.pc, source |-> u.source, seen |-> u.seen, todo |-> u.todo,
             at |-> u.at, kept |-> u.kept, copy |-> u.copy, before |-> u.before]
    BY <1>1, <1>2 DEF Before, V1Typed, Work
  <2>2. /\ u.pc \in Phases /\ u.source \in AllSources /\ u.seen \in SUBSET Domains /\ u.todo \in SUBSET Domains
        /\ u.at \in Domains \cup {NoDomain} /\ u.kept \in Nat /\ u.copy \in SUBSET Domains /\ u.before \in SUBSET Domains
    BY <1>1, <1>2, <1>3 DEF Before, Phases, Crossing, Gathering, Dropping, Rows, Shared
  <2>3. u \in Work
    BY <2>1, <2>2 DEF Work
  <2>4. e \in [Domains -> Company] /\ batch'[r] \in {"none", "in_progress", "complete", "failed"}
    BY <1>1, <1>4, <1>5 DEF Before, V1Typed, Shared
  <2>5. QED
    BY <2>3, <2>4 DEF V1Typed
<1>7. Course(r)'
  BY <1>1, <1>2, <1>3 DEF Before, Course, AllSources, Phases, Crossing, Gathering, Dropping
<1>8. Blank(r)'
  BY <1>1, <1>2, <1>4 DEF Before, Blank, NoCompanyRow
<1>9. Counted(r)'
  BY <1>1, <1>2, <1>3, DomainsFinite DEF Before, Counted, V1InHand, Phases, Crossing, Gathering, Dropping
<1>10. Linked(r)'
  BY <1>1, <1>2, <1>3, <1>4, <1>5 DEF Before, Linked, Phases, Crossing, Gathering, Dropping
<1>11. Searched(r)'
  BY <1>1, <1>2, <1>3, <1>4, <1>5 DEF Before, Searched, Settled, New, Going, Course, Phases, Crossing, Gathering, Dropping
<1>12. v1Faults' = 0 => V1Fresh(r)'
  BY <1>1, <1>2, <1>3, <1>4, <1>5 DEF Before, V1Fresh, Phases, Crossing, Gathering, Dropping
<1>13. V1Ahead(r)'
  BY <1>1, <1>2, <1>3, <1>4 DEF Before, V1Ahead, Rows, Phases, Crossing, Gathering, Dropping
<1>14. Drops(r)
  BY <1>1, <1>2, <1>3, <1>4, <1>5 DEF Before, Drops, Phases, Crossing, Gathering, Dropping
<1>15. Gathers(r)
  BY <1>1, <1>2, <1>3, <1>4, <1>5 DEF Before, Gathers, Phases, Crossing, Gathering, Dropping
<1>16. QED
  BY <1>5, <1>6, <1>7, <1>8, <1>9, <1>10, <1>11, <1>12, <1>13, <1>14, <1>15 DEF Kept, Own

(* A run that raises or dies is over, and its batch failed or as it was.   *)
LEMMA StopKeeps ==
  ASSUME V1Inv, NEW r \in V1Runs, NEW stop \in {"over", "dead"}, NEW status \in {batch[r], "failed"},
         Going(r), v1' = [v1 EXCEPT ![r] = [Idle EXCEPT !.pc = stop, !.source = v1[r].source]],
         batch' = [batch EXCEPT ![r] = status], UNCHANGED <<row, linked, rejected, crossed>>,
         v1Faults' = v1Faults \/ v1Faults' # 0, v1Faults' # 0 \/ v1[r].pc # "stamp"
  PROVE  Kept(r) /\ Gathers(r)
<1> DEFINE w == v1[r]
           u == v1'[r]
           c == row[r]
           e == row'[r]
<1>1. Before(r)
  BY BeforeStep
<1>2. u = [Idle EXCEPT !.pc = stop, !.source = w.source]
  BY <1>1 DEF Before, Going, Shared, V1Typed, Work, AllSources
<1>3. /\ u.pc = stop /\ u.source = w.source /\ u.seen = {} /\ u.todo = {}
      /\ u.at = NoDomain /\ u.kept = 0 /\ u.copy = {} /\ u.before = {}
  <2>1. /\ Idle \in Work /\ Idle.seen = {} /\ Idle.todo = {} /\ Idle.at = NoDomain /\ Idle.kept = 0
        /\ Idle.copy = {} /\ Idle.before = {}
    BY DEF Idle, Work, Phases, Gathering, Crossing, Dropping, AllSources
  <2>2. /\ u.pc = stop /\ u.source = w.source /\ u.seen = Idle.seen /\ u.todo = Idle.todo /\ u.at = Idle.at
        /\ u.kept = Idle.kept /\ u.copy = Idle.copy /\ u.before = Idle.before
    BY <1>2, <2>1 DEF Work
  <2>3. QED
    BY <2>1, <2>2
<1>4. e = c
  BY <1>1, <1>2 DEF Before, Going, V1Typed, Shared
<1>5. batch' = [batch EXCEPT ![r] = status] /\ batch'[r] = status /\ UNCHANGED <<linked, rejected, crossed>>
  BY <1>1, <1>2 DEF Before, Going, V1Typed, Shared
<1>6. V1Typed(r)'
  <2>1. u = [pc |-> u.pc, source |-> u.source, seen |-> u.seen, todo |-> u.todo,
             at |-> u.at, kept |-> u.kept, copy |-> u.copy, before |-> u.before]
    BY <1>1, <1>2 DEF Before, V1Typed, Work, Idle
  <2>2. /\ u.pc \in Phases /\ u.source \in AllSources /\ u.seen \in SUBSET Domains /\ u.todo \in SUBSET Domains
        /\ u.at \in Domains \cup {NoDomain} /\ u.kept \in Nat /\ u.copy \in SUBSET Domains /\ u.before \in SUBSET Domains
    BY <1>1, <1>2, <1>3 DEF Before, Phases, Crossing, Gathering, Dropping, AllSources, Rows, Shared
  <2>3. u \in Work
    BY <2>1, <2>2 DEF Work
  <2>4. e \in [Domains -> Company] /\ batch'[r] \in {"none", "in_progress", "complete", "failed"}
    BY <1>1, <1>4, <1>5 DEF Before, V1Typed, Shared
  <2>5. QED
    BY <2>3, <2>4 DEF V1Typed
<1>7. Course(r)'
  BY <1>1, <1>2, <1>3 DEF Before, Course, AllSources, Phases, Crossing, Gathering, Dropping
<1>8. Blank(r)'
  BY <1>1, <1>2, <1>4 DEF Before, Blank, NoCompanyRow
<1>9. Counted(r)'
  BY <1>1, <1>2, <1>3, DomainsFinite DEF Before, Counted, V1InHand, Phases, Crossing, Gathering, Dropping
<1>10. Linked(r)'
  BY <1>1, <1>2, <1>3, <1>4, <1>5 DEF Before, Linked, Phases, Crossing, Gathering, Dropping
<1>11. Searched(r)'
  BY <1>1, <1>2, <1>3, <1>4, <1>5 DEF Before, Searched, Settled, New, Going, Course, Phases, Crossing, Gathering, Dropping
<1>12. v1Faults' = 0 => V1Fresh(r)'
  BY <1>1, <1>2, <1>3, <1>4, <1>5 DEF Before, V1Fresh, Phases, Crossing, Gathering, Dropping
<1>13. V1Ahead(r)'
  BY <1>1, <1>2, <1>3, <1>4 DEF Before, V1Ahead, Rows, Phases, Crossing, Gathering, Dropping
<1>14. Drops(r)
  BY <1>1, <1>2, <1>3, <1>4, <1>5 DEF Before, Drops, Phases, Crossing, Gathering, Dropping
<1>15. Gathers(r)
  BY <1>1, <1>2, <1>3, <1>4, <1>5 DEF Before, Gathers, Phases, Crossing, Gathering, Dropping
<1>16. QED
  BY <1>5, <1>6, <1>7, <1>8, <1>9, <1>10, <1>11, <1>12, <1>13, <1>14, <1>15 DEF Kept, Own

(* The decision makers of a company are searched.                          *)
LEMMA FindDecisionMakersKeeps ==
  ASSUME V1Inv, NEW r \in V1Runs, NEW x \in Domains, ~Vanished(r), find_decision_makers(r, x)
  PROVE  Kept(r) /\ Gathers(r)
<1> DEFINE w == v1[r]
           u == v1'[r]
           c == row[r]
           e == row'[r]
<1>1. Before(r)
  BY BeforeStep
<1>2. u = [w EXCEPT !.pc = "stamp", !.at = x] /\ w.pc = "people" /\ x \in w.todo
      /\ (w.source = "deepline" => ~c[x].stamped)
  BY <1>1 DEF Before, find_decision_makers, Shared, V1Typed, Work, AllSources
<1>3. /\ u.pc = "stamp" /\ u.source = w.source /\ u.seen = w.seen /\ u.todo = w.todo
      /\ u.at = x /\ u.kept = w.kept /\ u.copy = w.copy /\ u.before = w.before
  BY <1>1, <1>2 DEF Before, V1Typed, Work
<1>4. /\ e \in [Domains -> Company] /\ (\A d \in Domains : d # x => e[d] = c[d]) /\ c[x].live /\ e[x].live
      /\ e[x].dropped = c[x].dropped /\ e[x].hiring = c[x].hiring /\ e[x].stamped = c[x].stamped
      /\ e[x].lookups = (IF c[x].lookups = 2 THEN 2 ELSE c[x].lookups + 1) /\ c[x].lookups \in 0..2
  <2>1. c \in [Domains -> Company] /\ c[x] \in Company /\ c[x].live
    BY <1>1, <1>2, AtHand DEF Before, V1Typed
  <2>2. PICK found \in BOOLEAN :
          e = [c EXCEPT ![x].contacts = c[x].contacts \/ found, ![x].lookups = IF c[x].lookups = 2 THEN 2 ELSE c[x].lookups + 1]
    BY <1>1 DEF Before, find_decision_makers, Shared, V1Typed
  <2> DEFINE looked == IF c[x].lookups = 2 THEN 2 ELSE c[x].lookups + 1
             known == c[x].contacts \/ found
  <2>3. c[x].lookups \in 0..2 /\ looked \in 0..2 /\ known \in BOOLEAN
    BY <2>1 DEF Company
  <2> HIDE DEF known
  <2>4. e[x] = [c[x] EXCEPT !.contacts = known, !.lookups = looked] /\ \A d \in Domains : d # x => e[d] = c[d]
    BY <2>1, <2>2 DEF known
  <2> HIDE DEF looked
  <2>5. /\ e[x] \in Company /\ e[x].live = c[x].live /\ e[x].dropped = c[x].dropped /\ e[x].hiring = c[x].hiring
        /\ e[x].stamped = c[x].stamped /\ e[x].lookups = looked
    BY <2>1, <2>3, <2>4 DEF Company
  <2>6. e \in [Domains -> Company]
    BY <2>1, <2>2, <2>4, <2>5
  <2>7. QED
    BY <2>1, <2>3, <2>4, <2>5, <2>6 DEF looked
<1>5. batch' = batch /\ UNCHANGED <<linked, rejected, crossed, v1Faults>>
  BY <1>1, <1>2, AtHand DEF Before, find_decision_makers, V1Typed, Shared
<1>6. V1Typed(r)'
  <2>1. u = [pc |-> u.pc, source |-> u.source, seen |-> u.seen, todo |-> u.todo,
             at |-> u.at, kept |-> u.kept, copy |-> u.copy, before |-> u.before]
    BY <1>1, <1>2 DEF Before, V1Typed, Work
  <2>2. /\ u.pc \in Phases /\ u.source \in AllSources /\ u.seen \in SUBSET Domains /\ u.todo \in SUBSET Domains
        /\ u.at \in Domains \cup {NoDomain} /\ u.kept \in Nat /\ u.copy \in SUBSET Domains /\ u.before \in SUBSET Domains
    BY <1>1, <1>2, <1>3, AtHand DEF Before, Phases, Crossing, Gathering, Dropping, Rows, Shared
  <2>3. u \in Work
    BY <2>1, <2>2 DEF Work
  <2>4. e \in [Domains -> Company] /\ batch'[r] \in {"none", "in_progress", "complete", "failed"}
    BY <1>1, <1>4, <1>5 DEF Before, V1Typed, Shared
  <2>5. QED
    BY <2>3, <2>4 DEF V1Typed
<1>7. Course(r)'
  BY <1>1, <1>2, <1>3, AtHand DEF Before, Course, AllSources, Phases, Crossing, Gathering, Dropping
<1>8. Blank(r)'
  BY <1>1, <1>2, <1>4, AtHand DEF Before, Blank, NoCompanyRow
<1>9. Counted(r)'
  BY <1>1, <1>2, <1>3, DomainsFinite, AtHand DEF Before, Counted, V1InHand, Phases, Crossing, Gathering, Dropping
<1>10. Linked(r)'
  BY <1>1, <1>2, <1>3, <1>4, <1>5, AtHand DEF Before, Linked, Phases, Crossing, Gathering, Dropping
<1>11. Searched(r)'
  BY <1>1, <1>2, <1>3, <1>4, <1>5, AtHand DEF Before, Searched, Settled, New, Going, Course, Phases, Crossing, Gathering, Dropping
<1>12. v1Faults' = 0 => V1Fresh(r)'
  BY <1>1, <1>2, <1>3, <1>4, <1>5, AtHand DEF Before, V1Fresh, Phases, Crossing, Gathering, Dropping
<1>13. V1Ahead(r)'
  BY <1>1, <1>2, <1>3, <1>4, AtHand DEF Before, V1Ahead, Rows, Phases, Crossing, Gathering, Dropping
<1>14. Drops(r)
  BY <1>1, <1>2, <1>3, <1>4, <1>5, AtHand DEF Before, Drops, Phases, Crossing, Gathering, Dropping
<1>15. Gathers(r)
  BY <1>1, <1>2, <1>3, <1>4, <1>5, AtHand DEF Before, Gathers, Phases, Crossing, Gathering, Dropping
<1>16. QED
  BY <1>5, <1>6, <1>7, <1>8, <1>9, <1>10, <1>11, <1>12, <1>13, <1>14, <1>15 DEF Kept, Own

(* A request searches a Deepline batch that is over.                       *)
LEMMA ExecuteDecisionMakerIdKeeps ==
  ASSUME V1Inv, NEW r \in V1Runs, execute_decision_maker_id(r)
  PROVE  Kept(r) /\ Gathers(r)
<1> DEFINE w == v1[r]
           u == v1'[r]
           c == row[r]
           e == row'[r]
<1>1. Before(r)
  BY BeforeStep
<1>2. u = [w EXCEPT !.pc = "people", !.todo = Rows(r)] /\ w.pc \in {"over", "dead"} /\ w.source = "deepline"
  BY <1>1 DEF Before, execute_decision_maker_id, Shared, V1Typed, Work, AllSources
<1>3. /\ u.pc = "people" /\ u.source = w.source /\ u.seen = w.seen /\ u.todo = Rows(r)
      /\ u.at = w.at /\ u.kept = w.kept /\ u.copy = w.copy /\ u.before = w.before
  BY <1>1, <1>2 DEF Before, V1Typed, Work
<1>4. e = c
  BY <1>1, <1>2 DEF Before, execute_decision_maker_id, V1Typed, Shared
<1>5. batch' = batch /\ UNCHANGED <<linked, rejected, crossed, v1Faults>>
  BY <1>1, <1>2 DEF Before, execute_decision_maker_id, V1Typed, Shared
<1>6. V1Typed(r)'
  <2>1. u = [pc |-> u.pc, source |-> u.source, seen |-> u.seen, todo |-> u.todo,
             at |-> u.at, kept |-> u.kept, copy |-> u.copy, before |-> u.before]
    BY <1>1, <1>2 DEF Before, V1Typed, Work
  <2>2. /\ u.pc \in Phases /\ u.source \in AllSources /\ u.seen \in SUBSET Domains /\ u.todo \in SUBSET Domains
        /\ u.at \in Domains \cup {NoDomain} /\ u.kept \in Nat /\ u.copy \in SUBSET Domains /\ u.before \in SUBSET Domains
    BY <1>1, <1>2, <1>3 DEF Before, Phases, Crossing, Gathering, Dropping, Rows, Shared
  <2>3. u \in Work
    BY <2>1, <2>2 DEF Work
  <2>4. e \in [Domains -> Company] /\ batch'[r] \in {"none", "in_progress", "complete", "failed"}
    BY <1>1, <1>4, <1>5 DEF Before, V1Typed, Shared
  <2>5. QED
    BY <2>3, <2>4 DEF V1Typed
<1>7. Course(r)'
  BY <1>1, <1>2, <1>3 DEF Before, Course, AllSources, Phases, Crossing, Gathering, Dropping
<1>8. Blank(r)'
  BY <1>1, <1>2, <1>4 DEF Before, Blank, NoCompanyRow
<1>9. Counted(r)'
  BY <1>1, <1>2, <1>3, DomainsFinite DEF Before, Counted, V1InHand, Phases, Crossing, Gathering, Dropping
<1>10. Linked(r)'
  BY <1>1, <1>2, <1>3, <1>4, <1>5 DEF Before, Linked, Phases, Crossing, Gathering, Dropping
<1>11. Searched(r)'
  BY <1>1, <1>2, <1>3, <1>4, <1>5 DEF Before, Searched, Settled, New, Going, Course, Phases, Crossing, Gathering, Dropping
<1>12. v1Faults' = 0 => V1Fresh(r)'
  BY <1>1, <1>2, <1>3, <1>4, <1>5 DEF Before, V1Fresh, Phases, Crossing, Gathering, Dropping
<1>13. V1Ahead(r)'
  BY <1>1, <1>2, <1>3, <1>4 DEF Before, V1Ahead, Rows, Phases, Crossing, Gathering, Dropping
<1>14. Drops(r)
  BY <1>1, <1>2, <1>3, <1>4, <1>5 DEF Before, Drops, Phases, Crossing, Gathering, Dropping
<1>15. Gathers(r)
  BY <1>1, <1>2, <1>3, <1>4, <1>5 DEF Before, Gathers, Phases, Crossing, Gathering, Dropping
<1>16. QED
  BY <1>5, <1>6, <1>7, <1>8, <1>9, <1>10, <1>11, <1>12, <1>13, <1>14, <1>15 DEF Kept, Own

(* A request deletes the companies of a batch that no posting refers to.   *)
LEMMA DeleteBatchCompaniesKeeps ==
  ASSUME V1Inv, NEW r \in V1Runs, delete_batch_companies(r)
  PROVE  Kept(r) /\ Gathers(r)
<1> DEFINE w == v1[r]
           u == v1'[r]
           c == row[r]
           e == row'[r]
<1>1. Before(r)
  BY BeforeStep
<1>2. u = w /\ v1' = v1 /\ v1Faults' = v1Faults + 1 /\ \A d \in Rows(r) : linked[d] # r
  BY <1>1 DEF Before, delete_batch_companies, Shared, V1Typed, Work, AllSources
<1>3. /\ u.pc = w.pc /\ u.source = w.source /\ u.seen = w.seen /\ u.todo = w.todo
      /\ u.at = w.at /\ u.kept = w.kept /\ u.copy = w.copy /\ u.before = w.before
  BY <1>1, <1>2 DEF Before, V1Typed, Work
<1>4. /\ e \in [Domains -> Company] /\ \A d \in Domains : e[d] = NoCompanyRow
  <2>1. c \in [Domains -> Company] /\ NoCompanyRow \in Company
    BY <1>1 DEF Before, V1Typed, NoCompanyRow, Company
  <2>2. e = [d \in Domains |-> NoCompanyRow]
    BY <1>1, <1>2 DEF Before, delete_batch_companies, V1Typed, Shared, Rows, Blank
  <2>3. QED
    BY <2>1, <2>2
<1>5. batch' = batch /\ UNCHANGED <<linked, rejected, crossed>> /\ v1Faults' # 0
  BY <1>1, <1>2 DEF Before, delete_batch_companies, V1Typed, Shared
<1>6. V1Typed(r)'
  <2>1. u = [pc |-> u.pc, source |-> u.source, seen |-> u.seen, todo |-> u.todo,
             at |-> u.at, kept |-> u.kept, copy |-> u.copy, before |-> u.before]
    BY <1>1, <1>2 DEF Before, V1Typed, Work
  <2>2. /\ u.pc \in Phases /\ u.source \in AllSources /\ u.seen \in SUBSET Domains /\ u.todo \in SUBSET Domains
        /\ u.at \in Domains \cup {NoDomain} /\ u.kept \in Nat /\ u.copy \in SUBSET Domains /\ u.before \in SUBSET Domains
    BY <1>1, <1>2, <1>3 DEF Before, Phases, Crossing, Gathering, Dropping, Rows, Shared
  <2>3. u \in Work
    BY <2>1, <2>2 DEF Work
  <2>4. e \in [Domains -> Company] /\ batch'[r] \in {"none", "in_progress", "complete", "failed"}
    BY <1>1, <1>4, <1>5 DEF Before, V1Typed, Shared
  <2>5. QED
    BY <2>3, <2>4 DEF V1Typed
<1>7. Course(r)'
  BY <1>1, <1>2, <1>3 DEF Before, Course, AllSources, Phases, Crossing, Gathering, Dropping
<1>8. Blank(r)'
  BY <1>1, <1>2, <1>4 DEF Before, Blank, NoCompanyRow
<1>9. Counted(r)'
  BY <1>1, <1>2, <1>3, DomainsFinite DEF Before, Counted, V1InHand, Phases, Crossing, Gathering, Dropping
<1>10. Linked(r)'
  BY <1>1, <1>2, <1>3, <1>4, <1>5 DEF Before, Linked, Phases, Crossing, Gathering, Dropping, Rows, NoCompanyRow
<1>11. Searched(r)'
  BY <1>1, <1>2, <1>3, <1>4, <1>5 DEF Before, Searched, Settled, New, Going, Course, Phases, Crossing, Gathering, Dropping, NoCompanyRow
<1>12. v1Faults' = 0 => V1Fresh(r)'
  BY <1>1, <1>2, <1>3, <1>4, <1>5 DEF Before, V1Fresh, Phases, Crossing, Gathering, Dropping
<1>13. V1Ahead(r)'
  BY <1>1, <1>2, <1>3, <1>4 DEF Before, V1Ahead, Rows, Phases, Crossing, Gathering, Dropping, NoCompanyRow
<1>14. Drops(r)
  BY <1>1, <1>2, <1>3, <1>4, <1>5 DEF Before, Drops, Phases, Crossing, Gathering, Dropping, NoCompanyRow
<1>15. Gathers(r)
  BY <1>1, <1>2, <1>3, <1>4, <1>5 DEF Before, Gathers, Phases, Crossing, Gathering, Dropping, NoCompanyRow
<1>16. QED
  BY <1>5, <1>6, <1>7, <1>8, <1>9, <1>10, <1>11, <1>12, <1>13, <1>14, <1>15 DEF Kept, Own

(* Deepline's companies that another batch holds are deleted.              *)
LEMMA DedupeAgainstPriorDaysKeeps ==
  ASSUME V1Inv, NEW r \in V1Runs, _dedupe_against_prior_days(r)
  PROVE  Kept(r) /\ Gathers(r)
<1> DEFINE w == v1[r]
           u == v1'[r]
           c == row[r]
           e == row'[r]
<1>1. Before(r)
  BY BeforeStep
<1>2. u = [w EXCEPT !.pc = "hiring", !.todo = {d \in Rows(r) : ~HeldElsewhere(r, d)}] /\ w.pc = "dedupe" /\ w.source = "deepline"
  BY <1>1 DEF Before, _dedupe_against_prior_days, Course, Shared, V1Typed, Work, AllSources
<1>3. /\ u.pc = "hiring" /\ u.source = w.source /\ u.seen = w.seen /\ u.todo = {d \in Rows(r) : ~HeldElsewhere(r, d)}
      /\ u.at = w.at /\ u.kept = w.kept /\ u.copy = w.copy /\ u.before = w.before
  BY <1>1, <1>2 DEF Before, V1Typed, Work
<1>4. /\ e \in [Domains -> Company] /\ \A d \in Domains : e[d] = NoCompanyRow \/ e[d] = c[d]
  <2>1. c \in [Domains -> Company] /\ NoCompanyRow \in Company
    BY <1>1 DEF Before, V1Typed, NoCompanyRow, Company
  <2>2. e = [d \in Domains |-> IF c[d].live /\ HeldElsewhere(r, d) THEN NoCompanyRow ELSE c[d]]
    BY <1>1, <1>2 DEF Before, _dedupe_against_prior_days, V1Typed, Shared, Rows, Blank
  <2>3. \A d \in Domains : e[d] = NoCompanyRow \/ e[d] = c[d]
    BY <2>2
  <2>4. QED
    BY <2>1, <2>2, <2>3
<1>5. batch' = batch /\ UNCHANGED <<linked, rejected, crossed, v1Faults>>
  BY <1>1, <1>2 DEF Before, _dedupe_against_prior_days, Course, V1Typed, Shared
<1>6. V1Typed(r)'
  <2>1. u = [pc |-> u.pc, source |-> u.source, seen |-> u.seen, todo |-> u.todo,
             at |-> u.at, kept |-> u.kept, copy |-> u.copy, before |-> u.before]
    BY <1>1, <1>2 DEF Before, V1Typed, Work
  <2>2. /\ u.pc \in Phases /\ u.source \in AllSources /\ u.seen \in SUBSET Domains /\ u.todo \in SUBSET Domains
        /\ u.at \in Domains \cup {NoDomain} /\ u.kept \in Nat /\ u.copy \in SUBSET Domains /\ u.before \in SUBSET Domains
    BY <1>1, <1>2, <1>3 DEF Before, Phases, Crossing, Gathering, Dropping, Rows, Shared
  <2>3. u \in Work
    BY <2>1, <2>2 DEF Work
  <2>4. e \in [Domains -> Company] /\ batch'[r] \in {"none", "in_progress", "complete", "failed"}
    BY <1>1, <1>4, <1>5 DEF Before, V1Typed, Shared
  <2>5. QED
    BY <2>3, <2>4 DEF V1Typed
<1>7. Course(r)'
  BY <1>1, <1>2, <1>3 DEF Before, Course, AllSources, Phases, Crossing, Gathering, Dropping
<1>8. Blank(r)'
  BY <1>1, <1>2, <1>4 DEF Before, Blank, NoCompanyRow
<1>9. Counted(r)'
  BY <1>1, <1>2, <1>3, DomainsFinite DEF Before, Counted, V1InHand, Phases, Crossing, Gathering, Dropping
<1>10. Linked(r)'
  BY <1>1, <1>2, <1>3, <1>4, <1>5 DEF Before, Linked, Phases, Crossing, Gathering, Dropping, NoCompanyRow
<1>11. Searched(r)'
  BY <1>1, <1>2, <1>3, <1>4, <1>5 DEF Before, Searched, Settled, New, Going, Course, Phases, Crossing, Gathering, Dropping, NoCompanyRow
<1>12. v1Faults' = 0 => V1Fresh(r)'
  BY <1>1, <1>2, <1>3, <1>4, <1>5 DEF Before, V1Fresh, Phases, Crossing, Gathering, Dropping, NoCompanyRow
<1>13. V1Ahead(r)'
  BY <1>1, <1>2, <1>3, <1>4 DEF Before, V1Ahead, Rows, Phases, Crossing, Gathering, Dropping, NoCompanyRow
<1>14. Drops(r)
  BY <1>1, <1>2, <1>3, <1>4, <1>5 DEF Before, Drops, Phases, Crossing, Gathering, Dropping, NoCompanyRow
<1>15. Gathers(r)
  BY <1>1, <1>2, <1>3, <1>4, <1>5 DEF Before, Gathers, Phases, Crossing, Gathering, Dropping, NoCompanyRow
<1>16. QED
  BY <1>5, <1>6, <1>7, <1>8, <1>9, <1>10, <1>11, <1>12, <1>13, <1>14, <1>15 DEF Kept, Own

(* Each company is marked, and those beyond the cap are deleted.           *)
LEMMA CheckSignalsKeeps ==
  ASSUME V1Inv, NEW r \in V1Runs, CheckSignals(r)
  PROVE  Kept(r) /\ Gathers(r)
<1> DEFINE w == v1[r]
           u == v1'[r]
           c == row[r]
           e == row'[r]
<1>1. Before(r)
  BY BeforeStep
<1>2. u = [w EXCEPT !.pc = "people", !.todo = u.todo] /\ w.pc = "hiring" /\ w.source = "deepline" /\ u.todo \in SUBSET Domains
  <2>1. PICK keep \in SUBSET Rows(r) : u = [w EXCEPT !.pc = "people", !.todo = keep]
    BY <1>1 DEF Before, CheckSignals, Shared
  <2>2. w.pc = "hiring" /\ w.source = "deepline"
    BY <1>1 DEF Before, CheckSignals, Course
  <2>3. u.todo = keep /\ u = [w EXCEPT !.pc = "people", !.todo = u.todo]
    BY <1>1, <2>1 DEF Before, V1Typed, Work
  <2>4. QED
    BY <2>1, <2>2, <2>3 DEF Rows
<1>3. /\ u.pc = "people" /\ u.source = w.source /\ u.seen = w.seen /\ u.at = w.at
      /\ u.kept = w.kept /\ u.copy = w.copy /\ u.before = w.before
  BY <1>1, <1>2 DEF Before, V1Typed, Work
<1>4. /\ e \in [Domains -> Company]
      /\ \A d \in Domains : e[d] = NoCompanyRow \/ (e[d].live = c[d].live /\ e[d].dropped = c[d].dropped /\ e[d].stamped = c[d].stamped /\ e[d].lookups = c[d].lookups)
      /\ \A d \in Domains : ~e[d].live => e[d] = NoCompanyRow
  <2>1. c \in [Domains -> Company] /\ NoCompanyRow \in Company
    BY <1>1 DEF Before, V1Typed, NoCompanyRow, Company
  <2>2. PICK hiring \in SUBSET Rows(r), keep \in SUBSET Rows(r) :
          e = [d \in Domains |-> CASE d \in keep -> [c[d] EXCEPT !.hiring = d \in hiring]
                                   [] d \in Rows(r) \ keep -> NoCompanyRow
                                   [] OTHER -> c[d]]
    BY <1>1 DEF Before, CheckSignals, Shared
  <2>3. ASSUME NEW d \in Domains
        PROVE  /\ e[d] \in Company /\ (~e[d].live => e[d] = NoCompanyRow)
               /\ e[d] = NoCompanyRow \/ (e[d].live = c[d].live /\ e[d].dropped = c[d].dropped /\ e[d].stamped = c[d].stamped /\ e[d].lookups = c[d].lookups)
    <3>1. c[d] \in Company /\ (~c[d].live => c[d] = NoCompanyRow)
      BY <1>1, <2>1 DEF Before, Blank
    <3>2. CASE d \in keep
      <4> DEFINE marked == d \in hiring
      <4>1. e[d] = [c[d] EXCEPT !.hiring = marked] /\ c[d].live
        BY <2>2, <3>2 DEF Rows
      <4>2. marked \in BOOLEAN
        OBVIOUS
      <4> HIDE DEF marked
      <4>3. QED
        BY <3>1, <4>1, <4>2 DEF Company
    <3>3. CASE d \in Rows(r) \ keep
      <4>1. e[d] = NoCompanyRow
        BY <2>2, <3>3
      <4>2. QED
        BY <2>1, <4>1
    <3>4. CASE d \notin keep /\ d \notin Rows(r)
      <4>1. e[d] = c[d]
        BY <2>2, <3>4
      <4>2. QED
        BY <3>1, <4>1
    <3>5. QED
      BY <3>2, <3>3, <3>4
  <2>4. e = [d \in Domains |-> e[d]]
    BY <2>2
  <2>5. QED
    BY <2>3, <2>4
<1>5. batch' = batch /\ UNCHANGED <<linked, rejected, crossed, v1Faults>>
  BY <1>1, <1>2 DEF Before, CheckSignals, V1Typed, Shared
<1>6. V1Typed(r)'
  <2>1. u = [pc |-> u.pc, source |-> u.source, seen |-> u.seen, todo |-> u.todo,
             at |-> u.at, kept |-> u.kept, copy |-> u.copy, before |-> u.before]
    BY <1>1, <1>2 DEF Before, V1Typed, Work
  <2>2. /\ u.pc \in Phases /\ u.source \in AllSources /\ u.seen \in SUBSET Domains /\ u.todo \in SUBSET Domains
        /\ u.at \in Domains \cup {NoDomain} /\ u.kept \in Nat /\ u.copy \in SUBSET Domains /\ u.before \in SUBSET Domains
    BY <1>1, <1>2, <1>3 DEF Before, Phases, Crossing, Gathering, Dropping, Rows, Shared
  <2>3. u \in Work
    BY <2>1, <2>2 DEF Work
  <2>4. e \in [Domains -> Company] /\ batch'[r] \in {"none", "in_progress", "complete", "failed"}
    BY <1>1, <1>4, <1>5 DEF Before, V1Typed, Shared
  <2>5. QED
    BY <2>3, <2>4 DEF V1Typed
<1>7. Course(r)'
  BY <1>1, <1>2, <1>3 DEF Before, Course, AllSources, Phases, Crossing, Gathering, Dropping
<1>8. Blank(r)'
  BY <1>1, <1>2, <1>4 DEF Before, Blank, NoCompanyRow
<1>9. Counted(r)'
  BY <1>1, <1>2, <1>3, DomainsFinite DEF Before, Counted, V1InHand, Phases, Crossing, Gathering, Dropping
<1>10. Linked(r)'
  BY <1>1, <1>2, <1>3, <1>4, <1>5 DEF Before, Linked, Phases, Crossing, Gathering, Dropping, NoCompanyRow
<1>11. Searched(r)'
  BY <1>1, <1>2, <1>3, <1>4, <1>5 DEF Before, Searched, Settled, New, Going, Course, Phases, Crossing, Gathering, Dropping, NoCompanyRow
<1>12. v1Faults' = 0 => V1Fresh(r)'
  BY <1>1, <1>2, <1>3, <1>4, <1>5 DEF Before, V1Fresh, Phases, Crossing, Gathering, Dropping, NoCompanyRow
<1>13. V1Ahead(r)'
  BY <1>1, <1>2, <1>3, <1>4 DEF Before, V1Ahead, Rows, Phases, Crossing, Gathering, Dropping, NoCompanyRow
<1>14. Drops(r)
  BY <1>1, <1>2, <1>3, <1>4, <1>5 DEF Before, Drops, Phases, Crossing, Gathering, Dropping, NoCompanyRow
<1>15. Gathers(r)
  BY <1>1, <1>2, <1>3, <1>4, <1>5 DEF Before, Gathers, Phases, Crossing, Gathering, Dropping, NoCompanyRow
<1>16. QED
  BY <1>5, <1>6, <1>7, <1>8, <1>9, <1>10, <1>11, <1>12, <1>13, <1>14, <1>15 DEF Kept, Own

(* A page of companies is committed.                                       *)
LEMMA CommitPageKeeps ==
  ASSUME V1Inv, NEW r \in V1Runs, CommitPage(r)
  PROVE  Kept(r) /\ Gathers(r)
<1> DEFINE w == v1[r]
           u == v1'[r]
           c == row[r]
           e == row'[r]
<1>1. Before(r)
  BY BeforeStep
<1>2. PICK page \in SUBSET w.todo \ {{}} : u = [w EXCEPT !.todo = w.todo \ page, !.kept = w.kept + Cardinality(page)] /\ w.pc = "next" /\ w.source = "deepline" /\ Cardinality(page) \in Nat
      /\ row' = [row EXCEPT ![r] = [d \in Domains |-> IF d \in page THEN [NoCompanyRow EXCEPT !.live = TRUE] ELSE c[d]]]
  BY <1>1, DomainsFinite DEF Before, CommitPage, Shared
<1>3. /\ u.pc = w.pc /\ u.source = w.source /\ u.seen = w.seen /\ u.todo = w.todo \ page
      /\ u.at = w.at /\ u.kept = w.kept + Cardinality(page) /\ u.copy = w.copy /\ u.before = w.before
  BY <1>1, <1>2 DEF Before, V1Typed, Work
<1>4. /\ e \in [Domains -> Company] /\ \A d \in Domains : e[d] = c[d] \/ (d \in page /\ e[d].live /\ ~e[d].dropped /\ e[d].lookups = 0)
  <2>1. c \in [Domains -> Company] /\ [NoCompanyRow EXCEPT !.live = TRUE] \in Company
    <3>1. c \in [Domains -> Company]
      BY <1>1 DEF Before, V1Typed
    <3>2. NoCompanyRow \in Company /\ TRUE \in BOOLEAN
      BY DEF Company, NoCompanyRow
    <3>3. [NoCompanyRow EXCEPT !.live = TRUE] \in Company
      BY <3>2 DEF Company
    <3>4. QED
      BY <3>1, <3>3
  <2>2. e = [d \in Domains |-> IF d \in page THEN [NoCompanyRow EXCEPT !.live = TRUE] ELSE c[d]]
    BY <1>1, <1>2 DEF Before, Shared
  <2>3. \A d \in Domains : e[d] = c[d] \/ (d \in page /\ e[d] = [NoCompanyRow EXCEPT !.live = TRUE])
    BY <2>2
  <2>4. QED
    BY <2>1, <2>2, <2>3 DEF NoCompanyRow
<1>5. batch' = batch /\ UNCHANGED <<linked, rejected, crossed, v1Faults>>
  BY <1>1, <1>2 DEF Before, CommitPage, V1Typed, Shared
<1>6. V1Typed(r)'
  <2>1. u = [pc |-> u.pc, source |-> u.source, seen |-> u.seen, todo |-> u.todo,
             at |-> u.at, kept |-> u.kept, copy |-> u.copy, before |-> u.before]
    BY <1>1, <1>2 DEF Before, V1Typed, Work
  <2>2. /\ u.pc \in Phases /\ u.source \in AllSources /\ u.seen \in SUBSET Domains /\ u.todo \in SUBSET Domains
        /\ u.at \in Domains \cup {NoDomain} /\ u.kept \in Nat /\ u.copy \in SUBSET Domains /\ u.before \in SUBSET Domains
    BY <1>1, <1>2, <1>3 DEF Before, Phases, Crossing, Gathering, Dropping, Rows, Shared
  <2>3. u \in Work
    BY <2>1, <2>2 DEF Work
  <2>4. e \in [Domains -> Company] /\ batch'[r] \in {"none", "in_progress", "complete", "failed"}
    BY <1>1, <1>4, <1>5 DEF Before, V1Typed, Shared
  <2>5. QED
    BY <2>3, <2>4 DEF V1Typed
<1>7. Cardinality(w.todo \ page) = Cardinality(w.todo) - Cardinality(page) /\ Cardinality(w.todo) \in Nat
  <2>1. IsFiniteSet(w.todo) /\ w.todo \cap page = page
    BY <1>1, <1>2, V1Assumption, FS_Subset DEF Before
  <2>2. Cardinality(w.todo \ page) = Cardinality(w.todo) - Cardinality(w.todo \cap page)
    BY <2>1, FS_Difference
  <2>3. Cardinality(w.todo) \in Nat
    BY <1>1, DomainsFinite DEF Before
  <2>4. QED
    BY <2>1, <2>2, <2>3
<1>8. Course(r)'
  BY <1>1, <1>2, <1>3, <1>7 DEF Before, Course, AllSources, Phases, Crossing, Gathering, Dropping
<1>9. Blank(r)'
  BY <1>1, <1>2, <1>4, <1>7 DEF Before, Blank, NoCompanyRow
<1>10. Counted(r)'
  BY <1>1, <1>2, <1>3, DomainsFinite, <1>7 DEF Before, Counted, V1InHand, Phases, Crossing, Gathering, Dropping
<1>11. Linked(r)'
  BY <1>1, <1>2, <1>3, <1>4, <1>5, <1>7 DEF Before, Linked, Phases, Crossing, Gathering, Dropping
<1>12. Searched(r)'
  BY <1>1, <1>2, <1>3, <1>4, <1>5, <1>7 DEF Before, Searched, Settled, New, Going, Course, Phases, Crossing, Gathering, Dropping
<1>13. v1Faults' = 0 => V1Fresh(r)'
  <2>1. v1Faults = 0 => \A d \in Domains : c[d].lookups = 0
    BY <1>1, <1>2 DEF Before, V1Fresh
  <2>2. v1Faults = 0 => \A d \in Domains : e[d].lookups = 0
    BY <1>4, <2>1
  <2>3. QED
    BY <1>2, <1>3, <1>5, <2>2 DEF V1Fresh
<1>14. V1Ahead(r)'
  BY <1>1, <1>2, <1>3, <1>4, <1>7 DEF Before, V1Ahead, Rows, Phases, Crossing, Gathering, Dropping
<1>15. Drops(r)
  BY <1>1, <1>2, <1>3, <1>4, <1>5, <1>7 DEF Before, Drops, Phases, Crossing, Gathering, Dropping
<1>16. Gathers(r)
  BY <1>1, <1>2, <1>3, <1>4, <1>5, <1>7 DEF Before, Gathers, Phases, Crossing, Gathering, Dropping
<1>17. QED
  BY <1>5, <1>6, <1>8, <1>9, <1>10, <1>11, <1>12, <1>13, <1>14, <1>15, <1>16 DEF Kept, Own

(* A run begins: it reads which domains the tenant has.                    *)
LEMMA BeginDiscoveryKeeps ==
  ASSUME V1Inv, NEW r \in V1Runs, NEW s \in Sources, BeginDiscovery(r, s)
  PROVE  Kept(r)
<1> DEFINE w == v1[r]
           u == v1'[r]
           c == row[r]
           e == row'[r]
<1>1. Before(r)
  BY BeforeStep
<1>2. u = [Idle EXCEPT !.pc = "search", !.source = s, !.seen = _existing_domains, !.before = Rows(r)] /\ (w.pc = "off" \/ (s = "route" /\ w.source = "route" /\ w.pc = "over" /\ v1Faults > 0)) /\ _existing_domains \in SUBSET Domains /\ s \in AllSources /\ Rows(r) \subseteq _existing_domains
  BY <1>1, V1Assumption DEF Before, BeginDiscovery, _existing_domains, Rows, Shared, V1Typed, Work, AllSources
<1>3. /\ u.pc = "search" /\ u.source = s /\ u.seen = _existing_domains /\ u.todo = {}
      /\ u.at = NoDomain /\ u.kept = 0 /\ u.copy = {} /\ u.before = Rows(r)
  BY <1>2 DEF Idle
<1>4. e = c
  BY <1>1, <1>2 DEF Before, BeginDiscovery, _existing_domains, Rows, V1Typed, Shared
<1>5. batch' = [batch EXCEPT ![r] = "in_progress"] /\ batch'[r] = "in_progress" /\ UNCHANGED <<linked, rejected, v1Faults>>
  BY <1>1, <1>2 DEF Before, BeginDiscovery, _existing_domains, Rows, V1Typed, Shared
<1>6. V1Typed(r)'
  <2>1. u = [pc |-> u.pc, source |-> u.source, seen |-> u.seen, todo |-> u.todo,
             at |-> u.at, kept |-> u.kept, copy |-> u.copy, before |-> u.before]
    BY <1>1, <1>2 DEF Before, V1Typed, Work, Idle
  <2>2. /\ u.pc \in Phases /\ u.source \in AllSources /\ u.seen \in SUBSET Domains /\ u.todo \in SUBSET Domains
        /\ u.at \in Domains \cup {NoDomain} /\ u.kept \in Nat /\ u.copy \in SUBSET Domains /\ u.before \in SUBSET Domains
    BY <1>1, <1>2, <1>3 DEF Before, Phases, Crossing, Gathering, Dropping, AllSources, Rows, Shared
  <2>3. u \in Work
    BY <2>1, <2>2 DEF Work
  <2>4. e \in [Domains -> Company] /\ batch'[r] \in {"none", "in_progress", "complete", "failed"}
    BY <1>1, <1>4, <1>5 DEF Before, V1Typed, Shared
  <2>5. QED
    BY <2>3, <2>4 DEF V1Typed
<1>7. Course(r)'
  BY <1>1, <1>2, <1>3 DEF Before, Course, AllSources, Phases, Crossing, Gathering, Dropping
<1>8. Blank(r)'
  BY <1>1, <1>2, <1>4 DEF Before, Blank, NoCompanyRow
<1>9. Counted(r)'
  BY <1>1, <1>2, <1>3, DomainsFinite DEF Before, Counted, V1InHand, Phases, Crossing, Gathering, Dropping
<1>10. Linked(r)'
  BY <1>1, <1>2, <1>3, <1>4, <1>5 DEF Before, Linked, Phases, Crossing, Gathering, Dropping
<1>11. Searched(r)'
  BY <1>1, <1>2, <1>3, <1>4, <1>5 DEF Before, Searched, Settled, New, Going, Course, Phases, Crossing, Gathering, Dropping, Rows
<1>12. v1Faults' = 0 => V1Fresh(r)'
  BY <1>1, <1>2, <1>3, <1>4, <1>5 DEF Before, V1Fresh, Phases, Crossing, Gathering, Dropping
<1>13. V1Ahead(r)'
  BY <1>1, <1>2, <1>3, <1>4 DEF Before, V1Ahead, Rows, Phases, Crossing, Gathering, Dropping
<1>14. Drops(r)
  BY <1>1, <1>2, <1>3, <1>4, <1>5 DEF Before, Drops, Phases, Crossing, Gathering, Dropping
<1>15. QED
  BY <1>5, <1>6, <1>7, <1>8, <1>9, <1>10, <1>11, <1>12, <1>13, <1>14 DEF Kept, Own

(* What a step of a run leaves: the other runs, and what was marked.       *)
V1Others(r) ==
  /\ DOMAIN v1' = V1Runs /\ DOMAIN row' = V1Runs /\ DOMAIN batch' = V1Runs
  /\ row' = [q \in V1Runs |-> row'[q]] /\ batch' = [q \in V1Runs |-> batch'[q]]
  /\ \A q \in V1Runs \ {r} : v1'[q] = v1[q] /\ row'[q] = row[q] /\ batch'[q] = batch[q]
  /\ crossed \subseteq crossed' /\ crossed' \in SUBSET V1Runs
  /\ v1Faults' \in 0..MaxV1Faults /\ (v1Faults' = v1Faults \/ v1Faults' # 0)
  /\ rejected' \in SUBSET Domains
  /\ linked' \in [Domains -> V1Runs \cup {"nothing"}] /\ \A d \in Domains : linked'[d] = linked[d] \/ linked'[d] = r

(* A step of one run leaves the others.                                    *)
LEMMA OthersStay == ASSUME V1Inv, NEW r \in V1Runs, V1Step(r) PROVE V1Others(r)
<1>0. Before(r)
  BY BeforeStep
<1>1. ASSUME NEW s \in Sources, BeginDiscovery(r, s) PROVE V1Others(r)
  BY <1>0, V1Assumption, <1>1 DEF Before, Shared, Whole, V1Others, BeginDiscovery
<1>2. ASSUME Search(r) PROVE V1Others(r)
  BY <1>0, V1Assumption, <1>2 DEF Before, Shared, Whole, V1Others, Search
<1>3. ASSUME CommitPage(r) PROVE V1Others(r)
  BY <1>0, V1Assumption, <1>3 DEF Before, Shared, Whole, V1Others, CommitPage
<1>4. ASSUME NEW d \in Domains, CommitCompany(r, d) PROVE V1Others(r)
  BY <1>0, V1Assumption, <1>4 DEF Before, Shared, Whole, V1Others, CommitCompany
<1>5. ASSUME ~Vanished(r), SaveLeader(r) PROVE V1Others(r)
  <2>1. row' = [q \in V1Runs |-> row'[q]] /\ DOMAIN row' = V1Runs /\ \A q \in V1Runs \ {r} : row'[q] = row[q]
    <3> DEFINE c == [row EXCEPT ![r][v1[r].at].contacts = TRUE]
    <3>1. c = [q \in V1Runs |-> c[q]] /\ DOMAIN c = V1Runs /\ \A q \in V1Runs \ {r} : c[q] = row[q]
      BY <1>0 DEF Before, Shared, Whole
    <3>2. row' = [c EXCEPT ![r][v1[r].at].stamped = TRUE]
      BY <1>5 DEF SaveLeader
    <3> HIDE DEF c
    <3>3. QED
      BY <3>1, <3>2
  <2>2. QED
    BY <1>0, V1Assumption, <1>5, AtHand, <2>1 DEF Before, Shared, Whole, V1Others, SaveLeader
<1>6. ASSUME ~Vanished(r), assess_team_composition(r) PROVE V1Others(r)
  BY <1>0, V1Assumption, <1>6, AtHand DEF Before, Shared, Whole, V1Others, assess_team_composition
<1>7. ASSUME ~Vanished(r), ExcludeFullTeam(r) PROVE V1Others(r)
  BY <1>0, V1Assumption, <1>7, AtHand DEF Before, Shared, Whole, V1Others, ExcludeFullTeam
<1>8. ASSUME ~Vanished(r), _persist_posting_as_signal(r) PROVE V1Others(r)
  BY <1>0, V1Assumption, <1>8, AtHand DEF Before, Shared, Whole, V1Others, _persist_posting_as_signal
<1>9. ASSUME EndDiscovery(r) PROVE V1Others(r)
  BY <1>0, V1Assumption, <1>9 DEF Before, Shared, Whole, V1Others, EndDiscovery
<1>10. ASSUME _dedupe_against_prior_days(r) PROVE V1Others(r)
  BY <1>0, V1Assumption, <1>10 DEF Before, Shared, Whole, V1Others, _dedupe_against_prior_days
<1>11. ASSUME CheckSignals(r) PROVE V1Others(r)
  BY <1>0, V1Assumption, <1>11 DEF Before, Shared, Whole, V1Others, CheckSignals
<1>12. ASSUME enforce_icp_on_companies(r) PROVE V1Others(r)
  BY <1>0, V1Assumption, <1>12 DEF Before, Shared, Whole, V1Others, enforce_icp_on_companies
<1>13. ASSUME NEW d \in Domains, ~Vanished(r), ReadRejected(r, d) PROVE V1Others(r)
  BY <1>0, V1Assumption, <1>13, AtHand DEF Before, Shared, Whole, V1Others, ReadRejected
<1>14. ASSUME ~Vanished(r), add_rejected_domain(r) PROVE V1Others(r)
  BY <1>0, V1Assumption, <1>14, AtHand DEF Before, Shared, Whole, V1Others, add_rejected_domain
<1>15. ASSUME NEW d \in Domains, ~Vanished(r), gate_batch_before_decision_makers(r, d) PROVE V1Others(r)
  BY <1>0, V1Assumption, <1>15, AtHand DEF Before, Shared, Whole, V1Others, gate_batch_before_decision_makers
<1>16. ASSUME ~Vanished(r), GateEnds(r) PROVE V1Others(r)
  BY <1>0, V1Assumption, <1>16, AtHand DEF Before, Shared, Whole, V1Others, GateEnds
<1>17. ASSUME GateRaises(r) PROVE V1Others(r)
  BY <1>0, V1Assumption, <1>17 DEF Before, Shared, Whole, V1Others, GateRaises, Fails
<1>18. ASSUME NEW d \in Domains, ~Vanished(r), PassOver(r, d) PROVE V1Others(r)
  BY <1>0, V1Assumption, <1>18, AtHand DEF Before, Shared, Whole, V1Others, PassOver
<1>19. ASSUME NEW d \in Domains, ~Vanished(r), find_decision_makers(r, d) PROVE V1Others(r)
  BY <1>0, V1Assumption, <1>19, AtHand DEF Before, Shared, Whole, V1Others, find_decision_makers
<1>20. ASSUME ~Vanished(r), StampSearched(r) PROVE V1Others(r)
  BY <1>0, V1Assumption, <1>20, AtHand DEF Before, Shared, Whole, V1Others, StampSearched
<1>21. ASSUME EndPeople(r) PROVE V1Others(r)
  BY <1>0, V1Assumption, <1>21 DEF Before, Shared, Whole, V1Others, EndPeople
<1>22. ASSUME VanishedRaises(r) PROVE V1Others(r)
  BY <1>0, V1Assumption, <1>22 DEF Before, Shared, Whole, V1Others, VanishedRaises, Fails
<1>23. ASSUME V1Raises(r) PROVE V1Others(r)
  BY <1>0, V1Assumption, <1>23 DEF Before, Shared, Whole, V1Others, V1Raises, Fails
<1>24. ASSUME V1Dies(r) PROVE V1Others(r)
  BY <1>0, V1Assumption, <1>24 DEF Before, Shared, Whole, V1Others, V1Dies
<1>25. ASSUME execute_decision_maker_id(r) PROVE V1Others(r)
  BY <1>0, V1Assumption, <1>25 DEF Before, Shared, Whole, V1Others, execute_decision_maker_id
<1>26. ASSUME delete_batch_companies(r) PROVE V1Others(r)
  <2>1. row' = [q \in V1Runs |-> row'[q]] /\ DOMAIN row' = V1Runs /\ \A q \in V1Runs \ {r} : row'[q] = row[q]
    BY <1>0, <1>26 DEF Before, Shared, Whole, delete_batch_companies
  <2>2. QED
    BY <1>0, V1Assumption, <1>26, <2>1 DEF Before, Shared, Whole, V1Others, delete_batch_companies
<1>27. QED
  BY <1>1, <1>2, <1>3, <1>4, <1>5, <1>6, <1>7, <1>8, <1>9, <1>10, <1>11, <1>12, <1>13, <1>14, <1>15, <1>16, <1>17, <1>18, <1>19, <1>20, <1>21, <1>22, <1>23, <1>24, <1>25, <1>26 DEF V1Step, Working

(* A run keeps what is its own when another one steps.                     *)
LEMMA OthersOwn ==
  ASSUME V1Inv, NEW r \in V1Runs, V1Others(r), NEW q \in V1Runs, q # r
  PROVE  Own(q)' /\ V1Ahead(q)'
<1>1. /\ Before(q) /\ v1'[q] = v1[q] /\ row'[q] = row[q] /\ batch'[q] = batch[q]
      /\ (v1Faults' = 0 => v1Faults = 0) /\ \A d \in Domains : linked'[d] = q => linked[d] = q
  BY BeforeStep DEF V1Others
<1>2. V1Typed(q)'
  BY <1>1 DEF Before, V1Typed
<1>3. Course(q)'
  BY <1>1 DEF Before, Course
<1>4. Blank(q)'
  BY <1>1 DEF Before, Blank
<1>5. Counted(q)'
  BY <1>1 DEF Before, Counted, V1InHand
<1>6. Linked(q)'
  BY <1>1 DEF Before, Linked
<1>7. Searched(q)'
  BY <1>1 DEF Before, Searched, Settled, New, Going
<1>8. v1Faults' = 0 => V1Fresh(q)'
  BY <1>1 DEF Before, V1Fresh
<1>9. V1Ahead(q)'
  BY <1>1 DEF Before, V1Ahead, Rows
<1>10. QED
  BY <1>2, <1>3, <1>4, <1>5, <1>6, <1>7, <1>8, <1>9 DEF Own

(* A company that a run adds belongs to no run that it did not cross.      *)
LEMMA ApartGathers ==
  ASSUME V1Inv, NEW r \in V1Runs, V1Others(r), Gathers(r)
  PROVE  Apart'
<1>1. Gathering \subseteq Crossing /\ "next" \in Gathering /\ "next" \in Crossing
  BY DEF Phases, Crossing, Gathering, Dropping
<1>2. /\ crossed' = crossed
      /\ \A q \in V1Runs : v1'[q].pc \in Crossing => v1[q].pc \in Crossing
      /\ \A q \in V1Runs : v1'[q].pc \in Gathering => v1[q].pc \in Gathering /\ v1'[q].seen = v1[q].seen
      /\ \A q \in V1Runs : \A d \in Domains : row'[q][d].live => row[q][d].live \/ (q = r /\ v1[r].pc = "next" /\ d \in v1[r].todo)
  BY DEF V1Others, Gathers
<1>3. v1[r].pc = "next" => v1[r].todo \cap v1[r].seen = {}
  BY <1>1, BeforeStep DEF Before, V1Ahead, Gathering
<1>4. Apart
  BY DEF V1Inv
<1>5. ASSUME NEW q \in V1Runs, NEW p \in V1Runs, q # p, v1'[q].pc \in Crossing, v1'[p].pc \in Crossing
      PROVE  Together(q, p)'
  BY <1>2, <1>4, <1>5 DEF Apart, Together
<1>6. ASSUME NEW q \in V1Runs, NEW p \in V1Runs, q # p, v1'[p].pc \in Gathering, ~Together(q, p)'
      PROVE  Rows(q)' \subseteq v1'[p].seen
  <2>1. ~Together(q, p) /\ v1[p].pc \in Gathering /\ v1'[p].seen = v1[p].seen
    BY <1>2, <1>6 DEF Together
  <2>2. Rows(q) \subseteq v1[p].seen
    BY <1>4, <1>6, <2>1 DEF Apart
  <2>3. ~(q = r /\ v1[r].pc = "next")
    BY <1>1, <1>4, <1>6, <2>1 DEF Apart
  <2>4. Rows(q)' \subseteq Rows(q)
    BY <1>2, <2>3 DEF Rows
  <2>5. QED
    BY <2>1, <2>2, <2>4
<1>7. ASSUME NEW q \in V1Runs, NEW p \in V1Runs, NEW d \in Domains, q # p, row'[q][d].live, row'[p][d].live
      PROVE  {q, p} \subseteq crossed'
  <2>1. ASSUME NEW a \in V1Runs, NEW b \in V1Runs, a # b, row[a][d].live, ~row[b][d].live, row'[b][d].live
        PROVE  {a, b} \subseteq crossed
    <3>1. b = r /\ v1[b].pc = "next" /\ d \in v1[b].todo
      BY <1>2, <2>1
    <3>2. d \in Rows(a) /\ ~(Rows(a) \subseteq v1[b].seen)
      BY <1>3, <2>1, <3>1 DEF Rows
    <3>3. Together(a, b)
      BY <1>1, <1>4, <2>1, <3>1, <3>2 DEF Apart
    <3>4. QED
      BY <3>3 DEF Together
  <2>2. row[q][d].live /\ row[p][d].live => {q, p} \subseteq crossed
    BY <1>4, <1>7 DEF Apart, OneRowPerDomain
  <2>3. row[q][d].live \/ row[p][d].live
    BY <1>2, <1>7
  <2>4. QED
    BY <1>2, <1>7, <2>1, <2>2, <2>3
<1>8. QED
  BY <1>5, <1>6, <1>7 DEF Apart, OneRowPerDomain

(* A run that begins has crossed those under way, and has seen the others. *)
LEMMA ApartBegins ==
  ASSUME V1Inv, NEW r \in V1Runs, V1Others(r), NEW s \in Sources, BeginDiscovery(r, s)
  PROVE  Apart'
<1>1. \A q \in V1Runs : v1[q].pc \in Crossing => Going(q)
  BY DEF Going, Phases, Crossing, Gathering, Dropping
<1>2. /\ row' = row /\ v1'[r].pc = "search" /\ v1'[r].seen = _existing_domains
      /\ crossed' = IF {q \in V1Runs \ {r} : Going(q)} = {} THEN crossed ELSE crossed \cup {q \in V1Runs \ {r} : Going(q)} \cup {r}
  BY DEF BeginDiscovery, V1Inv, Shared, Idle
<1>3. Apart /\ crossed \subseteq crossed' /\ \A q \in V1Runs \ {r} : v1'[q] = v1[q]
  BY DEF V1Inv, V1Others
<1>4. \A q \in V1Runs \ {r} : Going(q) => {q, r} \subseteq crossed'
  BY <1>2
<1>5. ASSUME NEW q \in V1Runs, NEW p \in V1Runs, q # p, v1'[q].pc \in Crossing, v1'[p].pc \in Crossing
      PROVE  Together(q, p)'
  <2>1. CASE q = r
    BY <1>1, <1>3, <1>4, <1>5, <2>1 DEF Together
  <2>2. CASE p = r
    BY <1>1, <1>3, <1>4, <1>5, <2>2 DEF Together
  <2>3. CASE q # r /\ p # r
    BY <1>3, <1>5, <2>3 DEF Apart, Together
  <2>4. QED
    BY <2>1, <2>2, <2>3
<1>6. ASSUME NEW q \in V1Runs, NEW p \in V1Runs, q # p, v1'[p].pc \in Gathering, ~Together(q, p)'
      PROVE  Rows(q)' \subseteq v1'[p].seen
  <2>1. Rows(q)' = Rows(q)
    BY <1>2 DEF Rows
  <2>2. CASE p = r
    BY <1>2, <2>1, <2>2 DEF _existing_domains
  <2>3. CASE p # r
    <3>1. v1[p].pc \in Gathering /\ v1'[p].seen = v1[p].seen /\ ~Together(q, p)
      BY <1>3, <1>6, <2>3 DEF Together
    <3>2. Rows(q) \subseteq v1[p].seen
      BY <1>3, <1>6, <3>1 DEF Apart
    <3>3. QED
      BY <2>1, <3>1, <3>2
  <2>4. QED
    BY <2>2, <2>3
<1>7. OneRowPerDomain'
  BY <1>2, <1>3 DEF Apart, OneRowPerDomain
<1>8. QED
  BY <1>5, <1>6, <1>7 DEF Apart

(* A drop is in the rejected domains, and in the copies still to be        *)
(* written, unless its run crossed another one.                            *)
LEMMA RememberedStays ==
  ASSUME V1Inv, NEW r \in V1Runs, V1Others(r), Drops(r)
  PROVE  Remembered'
<1>1. Remembered /\ Apart /\ "reject" \in Crossing
  BY DEF V1Inv, Phases, Crossing, Gathering, Dropping
<1>2. ASSUME NEW p \in V1Runs, NEW d \in Domains, row[p][d].dropped, p \notin crossed
      PROVE  d \in rejected /\ (v1[r].pc = "reject" => d \in v1[r].copy) /\ d \in rejected'
  <2>1. d \in rejected /\ (v1[r].pc = "reject" => d \in v1[r].copy)
    BY <1>1, <1>2 DEF Remembered, DropIsRemembered
  <2>2. QED
    BY <2>1 DEF Drops
<1>3. \A p \in V1Runs : p \notin crossed' => p \notin crossed
  BY DEF V1Others
<1>4. ASSUME NEW p \in V1Runs, NEW d \in Domains, row'[p][d].dropped, p \notin crossed'
      PROVE  d \in rejected'
  <2>1. CASE row[p][d].dropped
    BY <1>2, <1>3, <1>4, <2>1
  <2>2. CASE ~row[p][d].dropped
    <3>1. p = r
      BY <1>4, <2>2 DEF V1Others
    <3>2. QED
      BY <1>4, <2>2, <3>1 DEF Drops
  <2>3. QED
    BY <2>1, <2>2
<1>5. ASSUME NEW q \in V1Runs, NEW p \in V1Runs, NEW d \in Domains, v1'[q].pc = "reject", row'[p][d].dropped, p \notin crossed'
      PROVE  d \in v1'[q].copy
  <2>1. CASE q = r
    <3>1. row[p][d].dropped
      BY <1>5, <2>1 DEF V1Others, Drops
    <3>2. v1'[r].copy = rejected \/ (v1[r].pc = "reject" /\ v1'[r].copy = v1[r].copy)
      BY <1>5, <2>1 DEF Drops
    <3>3. QED
      BY <1>2, <1>3, <1>5, <2>1, <3>1, <3>2
  <2>2. CASE q # r
    <3>1. v1'[q] = v1[q]
      BY <2>2 DEF V1Others
    <3>2. row[p][d].dropped
      <4>1. CASE p # r
        BY <1>5, <4>1 DEF V1Others
      <4>2. CASE p = r
        <5>1. ~(v1[r].pc = "reject")
          <6>1. r \notin crossed
            BY <1>3, <1>5, <4>2
          <6>2. ~Together(q, r)
            BY <6>1 DEF Together
          <6>3. QED
            BY <1>1, <1>5, <2>2, <3>1, <6>2 DEF Apart
        <5>2. QED
          BY <1>5, <4>2, <5>1 DEF Drops
      <4>3. QED
        BY <4>1, <4>2
    <3>3. QED
      BY <1>1, <1>3, <1>5, <3>1, <3>2 DEF Remembered
  <2>3. QED
    BY <2>1, <2>2
<1>6. QED
  BY <1>4, <1>5 DEF Remembered, DropIsRemembered

(* Each step keeps what its run relies on, and adds companies only as a    *)
(* run that gathers, unless it begins.                                     *)
LEMMA V1StepKeeps ==
  ASSUME V1Inv, NEW r \in V1Runs, V1Step(r)
  PROVE  Kept(r) /\ (Gathers(r) \/ \E s \in Sources : BeginDiscovery(r, s))
<1> DEFINE Goal == Kept(r) /\ (Gathers(r) \/ \E s \in Sources : BeginDiscovery(r, s))
<1> SUFFICES Goal
  OBVIOUS
<1> HIDE DEF Goal
<1>0. Before(r) /\ v1Faults \in Nat
  BY BeforeStep, V1Assumption DEF Before, Shared
<1>1. ASSUME NEW s \in Sources, BeginDiscovery(r, s) PROVE Goal
  BY <1>1, BeginDiscoveryKeeps DEF Goal
<1>2. ASSUME Search(r) PROVE Goal
  BY <1>2, SearchKeeps DEF Goal
<1>3. ASSUME CommitPage(r) PROVE Goal
  BY <1>3, CommitPageKeeps DEF Goal
<1>4. ASSUME NEW d \in Domains, CommitCompany(r, d) PROVE Goal
  BY <1>4, CommitCompanyKeeps DEF Goal
<1>5. ASSUME ~Vanished(r), SaveLeader(r) PROVE Goal
  BY <1>5, SaveLeaderKeeps DEF Goal
<1>6. ASSUME ~Vanished(r), assess_team_composition(r) PROVE Goal
  BY <1>6, AssessTeamCompositionKeeps DEF Goal
<1>7. ASSUME ~Vanished(r), ExcludeFullTeam(r) PROVE Goal
  BY <1>7, ExcludeFullTeamKeeps DEF Goal
<1>8. ASSUME ~Vanished(r), _persist_posting_as_signal(r) PROVE Goal
  BY <1>8, PersistPostingAsSignalKeeps DEF Goal
<1>9. ASSUME EndDiscovery(r) PROVE Goal
  BY <1>9, EndDiscoveryKeeps DEF Goal
<1>10. ASSUME _dedupe_against_prior_days(r) PROVE Goal
  BY <1>10, DedupeAgainstPriorDaysKeeps DEF Goal
<1>11. ASSUME CheckSignals(r) PROVE Goal
  BY <1>11, CheckSignalsKeeps DEF Goal
<1>12. ASSUME enforce_icp_on_companies(r) PROVE Goal
  BY <1>12, EnforceIcpOnCompaniesKeeps DEF Goal
<1>13. ASSUME NEW d \in Domains, ~Vanished(r), ReadRejected(r, d) PROVE Goal
  BY <1>13, ReadRejectedKeeps DEF Goal
<1>14. ASSUME ~Vanished(r), add_rejected_domain(r) PROVE Goal
  BY <1>14, AddRejectedDomainKeeps DEF Goal
<1>15. ASSUME NEW d \in Domains, ~Vanished(r), gate_batch_before_decision_makers(r, d) PROVE Goal
  BY <1>15, GateBatchBeforeDecisionMakersKeeps DEF Goal
<1>16. ASSUME ~Vanished(r), GateEnds(r) PROVE Goal
  BY <1>16, GateEndsKeeps DEF Goal
<1>17. ASSUME GateRaises(r) PROVE Goal
  <2> DEFINE status == (IF v1[r].source = "route" THEN batch[r] ELSE "failed")
  <2>1. status \in {batch[r], "failed"}
    OBVIOUS
  <2>2. /\ v1' = [v1 EXCEPT ![r] = [Idle EXCEPT !.pc = "over", !.source = v1[r].source]]
        /\ batch' = [batch EXCEPT ![r] = status] /\ UNCHANGED <<row, linked, rejected, crossed>>
    BY <1>0, <1>17 DEF Before, Shared, Whole, GateRaises, Fails
  <2>3. Going(r) /\ v1Faults' = v1Faults /\ v1[r].pc # "stamp"
    BY <1>17 DEF GateRaises, Going
  <2> HIDE DEF status
  <2>4. QED
    BY <2>1, <2>2, <2>3, StopKeeps DEF Goal
<1>18. ASSUME NEW d \in Domains, ~Vanished(r), PassOver(r, d) PROVE Goal
  BY <1>18, PassOverKeeps DEF Goal
<1>19. ASSUME NEW d \in Domains, ~Vanished(r), find_decision_makers(r, d) PROVE Goal
  BY <1>19, FindDecisionMakersKeeps DEF Goal
<1>20. ASSUME ~Vanished(r), StampSearched(r) PROVE Goal
  BY <1>20, StampSearchedKeeps DEF Goal
<1>21. ASSUME EndPeople(r) PROVE Goal
  BY <1>21, EndPeopleKeeps DEF Goal
<1>22. ASSUME VanishedRaises(r) PROVE Goal
  <2> DEFINE status == (IF v1[r].source = "route" THEN batch[r] ELSE "failed")
  <2>1. status \in {batch[r], "failed"}
    OBVIOUS
  <2>2. /\ v1' = [v1 EXCEPT ![r] = [Idle EXCEPT !.pc = "over", !.source = v1[r].source]]
        /\ batch' = [batch EXCEPT ![r] = status] /\ UNCHANGED <<row, linked, rejected, crossed>>
    BY <1>0, <1>22 DEF Before, Shared, Whole, VanishedRaises, Fails
  <2>3. Going(r) /\ v1Faults' = v1Faults /\ (v1Faults # 0 \/ v1[r].pc # "stamp")
    <3>1. ~(AtWorkOn(r) \subseteq Rows(r)) /\ v1Faults' = v1Faults
      BY <1>22 DEF VanishedRaises, Vanished
    <3>2. v1[r].pc \in {"off", "over", "dead"} => AtWorkOn(r) = {}
      BY DEF AtWorkOn
    <3>3. v1[r].pc = "stamp" => AtWorkOn(r) = {v1[r].at}
      BY DEF AtWorkOn
    <3>4. v1Faults = 0 /\ v1[r].pc = "stamp" => v1[r].at \in Rows(r)
      BY <1>0 DEF Before, V1Fresh, Rows
    <3>5. QED
      BY <3>1, <3>2, <3>3, <3>4 DEF Going
  <2> HIDE DEF status
  <2>4. QED
    BY <2>1, <2>2, <2>3, StopKeeps DEF Goal
<1>23. ASSUME V1Raises(r) PROVE Goal
  <2> DEFINE status == (IF v1[r].source = "route" THEN batch[r] ELSE "failed")
  <2>1. status \in {batch[r], "failed"}
    OBVIOUS
  <2>2. /\ v1' = [v1 EXCEPT ![r] = [Idle EXCEPT !.pc = "over", !.source = v1[r].source]]
        /\ batch' = [batch EXCEPT ![r] = status] /\ UNCHANGED <<row, linked, rejected, crossed>>
    BY <1>0, <1>23 DEF Before, Shared, Whole, V1Raises, Fails
  <2>3. Going(r) /\ v1Faults' # 0
    BY <1>0, <1>23 DEF V1Raises
  <2> HIDE DEF status
  <2>4. QED
    BY <2>1, <2>2, <2>3, StopKeeps DEF Goal
<1>24. ASSUME V1Dies(r) PROVE Goal
  <2> DEFINE status == batch[r]
  <2>1. status \in {batch[r], "failed"}
    OBVIOUS
  <2>2. /\ v1' = [v1 EXCEPT ![r] = [Idle EXCEPT !.pc = "dead", !.source = v1[r].source]]
        /\ batch' = [batch EXCEPT ![r] = status] /\ UNCHANGED <<row, linked, rejected, crossed>>
    BY <1>0, <1>24 DEF Before, Shared, Whole, V1Dies
  <2>3. Going(r) /\ v1Faults' # 0
    BY <1>0, <1>24 DEF V1Dies
  <2> HIDE DEF status
  <2>4. QED
    BY <2>1, <2>2, <2>3, StopKeeps DEF Goal
<1>25. ASSUME execute_decision_maker_id(r) PROVE Goal
  BY <1>25, ExecuteDecisionMakerIdKeeps DEF Goal
<1>26. ASSUME delete_batch_companies(r) PROVE Goal
  BY <1>26, DeleteBatchCompaniesKeeps DEF Goal
<1>27. QED
  BY <1>1, <1>2, <1>3, <1>4, <1>5, <1>6, <1>7, <1>8, <1>9, <1>10, <1>11, <1>12, <1>13, <1>14, <1>15, <1>16, <1>17, <1>18, <1>19, <1>20, <1>21, <1>22, <1>23, <1>24, <1>25, <1>26 DEF V1Step, Working

(* Every step keeps the invariant.                                         *)
LEMMA V1StepHolds == ASSUME V1Inv, NEW r \in V1Runs, V1Step(r) PROVE V1Inv'
<1>1. V1Others(r) /\ Kept(r) /\ (Gathers(r) \/ \E s \in Sources : BeginDiscovery(r, s))
  BY OthersStay, V1StepKeeps
<1>2. Shared' /\ Whole'
  BY <1>1 DEF V1Others, Shared, Whole
<1>3. Apart'
  BY <1>1, ApartGathers, ApartBegins
<1>4. Remembered'
  BY <1>1, RememberedStays DEF Kept
<1>5. \A q \in V1Runs : Own(q)' /\ V1Ahead(q)'
  BY <1>1, OthersOwn DEF Kept
<1>6. QED
  BY <1>2, <1>3, <1>4, <1>5 DEF V1Inv

(* The variables unchanged, the invariant stays.                           *)
LEMMA V1StutterHolds == V1Inv /\ UNCHANGED v1Vars => V1Inv'
<1>1. SUFFICES ASSUME V1Inv, UNCHANGED v1Vars PROVE V1Inv'
  OBVIOUS
<1>2. Shared' /\ Whole' /\ Apart' /\ Remembered'
  BY <1>1 DEF V1Inv, v1Vars, Shared, Whole, Apart, Together, Rows, OneRowPerDomain, Remembered, DropIsRemembered
<1>3. ASSUME NEW r \in V1Runs PROVE Own(r)' /\ V1Ahead(r)'
  <2>1. Own(r) /\ V1Ahead(r)
    BY <1>1 DEF V1Inv
  <2>2. /\ v1' = v1 /\ row' = row /\ batch' = batch /\ linked' = linked /\ v1Faults' = v1Faults
    BY <1>1 DEF v1Vars
  <2>3. V1Typed(r)' /\ Course(r)' /\ Blank(r)' /\ Counted(r)' /\ Linked(r)'
    BY <2>1, <2>2 DEF Own, V1Typed, Course, Blank, Counted, V1InHand, Linked
  <2>4. Searched(r)' /\ (v1Faults' = 0 => V1Fresh(r)') /\ V1Ahead(r)'
    BY <2>1, <2>2 DEF Own, Searched, Settled, New, Going, V1Fresh, V1Ahead, Rows
  <2>5. QED
    BY <2>3, <2>4 DEF Own
<1>4. QED
  BY <1>2, <1>3 DEF V1Inv

(* V1 starts with no batch and no company.                                 *)
LEMMA V1InitHolds == V1Init => V1Inv
<1>1. SUFFICES ASSUME V1Init PROVE V1Inv
  OBVIOUS
<1>2. /\ \A r \in V1Runs : v1[r] = Idle /\ batch[r] = "none" /\ \A d \in Domains : row[r][d] = NoCompanyRow
      /\ rejected = {} /\ crossed = {} /\ v1Faults = 0 /\ \A d \in Domains : linked[d] = "nothing"
  BY <1>1 DEF V1Init
<1>3. /\ Idle.pc = "off" /\ Idle.kept = 0 /\ Idle.source = "apify" /\ NoCompanyRow.live = FALSE /\ NoCompanyRow.dropped = FALSE
      /\ NoCompanyRow.lookups = 0 /\ Idle \in Work /\ NoCompanyRow \in Company
  BY DEF Idle, NoCompanyRow, Work, Company, AllSources, Phases, Crossing, Gathering, Dropping
<1>4. Shared /\ Whole
  BY <1>1, V1Assumption DEF Shared, Whole, V1Init
<1>5. Apart /\ Remembered
  BY <1>2, <1>3 DEF Apart, Remembered, OneRowPerDomain, DropIsRemembered, Phases, Crossing, Gathering, Dropping
<1>6. ASSUME NEW r \in V1Runs PROVE Own(r) /\ V1Ahead(r)
  <2>1. v1[r] = Idle /\ batch[r] = "none" /\ \A d \in Domains : row[r][d] = NoCompanyRow
    BY <1>2
  <2>2. row[r] \in [Domains -> Company]
    BY <1>1, <1>3 DEF V1Init
  <2>3. V1Typed(r) /\ Course(r) /\ Blank(r)
    BY <1>3, <2>1, <2>2 DEF V1Typed, Course, Blank, Phases, Crossing, Gathering, Dropping
  <2>4. Counted(r) /\ Linked(r)
    BY <1>2, <1>3, <2>1, V1Assumption, DomainsFinite DEF Counted, Linked, Phases, Crossing, Gathering, Dropping
  <2>5. Searched(r)
    BY <1>3, <2>1 DEF Searched, Going, New, Phases, Crossing, Gathering, Dropping
  <2>6. V1Fresh(r) /\ V1Ahead(r)
    BY <1>3, <2>1 DEF V1Fresh, V1Ahead, Phases, Crossing, Gathering, Dropping
  <2>7. QED
    BY <2>3, <2>4, <2>5, <2>6 DEF Own
<1>7. QED
  BY <1>4, <1>5, <1>6 DEF V1Inv

(* What V1's discovery relies on holds whenever a run takes a step.        *)
THEOREM V1Invariant == V1Spec => []V1Inv
<1>1. V1Init => V1Inv
  BY V1InitHolds
<1>2. V1Inv /\ [V1Next]_v1Vars => V1Inv'
  BY V1StepHolds, V1StutterHolds DEF V1Next
<1>3. QED
  BY <1>1, <1>2, PTL DEF V1Spec

(* The rules of V1's discovery, for any number of runs and companies: no   *)
(* company twice but for runs that were under way together, none deleted   *)
(* that a posting refers to, each drop remembered, each company searched,  *)
(* and once.                                                               *)
THEOREM V1RulesHold == V1Spec => []V1Rules
<1>1. ASSUME V1Inv PROVE V1Rules
  <2>1. Shared /\ Whole /\ Apart /\ Remembered /\ \A r \in V1Runs : Before(r)
    BY <1>1, BeforeStep DEF V1Inv
  <2>2. V1TypeOK
    <3>1. \A r \in V1Runs : v1[r].kept \in 0..Cardinality(Domains)
      BY <2>1, DomainsFinite DEF Before, Counted
    <3>2. row \in [V1Runs -> [Domains -> Company]] /\ batch \in [V1Runs -> {"none", "in_progress", "complete", "failed"}]
      <4>1. /\ DOMAIN row = V1Runs /\ DOMAIN batch = V1Runs /\ row = [r \in V1Runs |-> row[r]] /\ batch = [r \in V1Runs |-> batch[r]]
            /\ \A r \in V1Runs : row[r] \in [Domains -> Company] /\ batch[r] \in {"none", "in_progress", "complete", "failed"}
        BY <2>1 DEF Before, V1Typed, Shared, Whole
      <4>2. QED
        BY <4>1
    <3>3. QED
      BY <2>1, <3>1, <3>2 DEF V1TypeOK, Shared, Before
  <2>3. LinkedIsKept
    BY <2>1 DEF LinkedIsKept, Before, Linked
  <2>4. StampedOnce
    BY <2>1 DEF StampedOnce, Before, V1Fresh
  <2>5. CompleteIsSearched
    BY <2>1 DEF CompleteIsSearched, Before, Searched, Settled, New, Rows
  <2>6. QED
    BY <2>1, <2>2, <2>3, <2>4, <2>5 DEF V1Rules, Apart, Remembered
<1>2. QED
  BY <1>1, V1Invariant, PTL
=============================================================================
