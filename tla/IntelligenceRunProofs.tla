----------------------- MODULE IntelligenceRunProofs -----------------------
(***************************************************************************)
(* Proofs about IntelligenceRun, the HiringPlay it calls and Sourcing, for *)
(* every set of instances, requests, row ids, runs and companies and every *)
(* bound.                                                                  *)
(***************************************************************************)
EXTENDS IntelligenceRun, HiringPlay, Sourcing, FiniteSetTheorems, TLAPS

(* While no lease was lost under a live body, whoever is in the handler of *)
(* the scheduled tick is the one holder of the lease.                      *)
LaneHeld ==
  lapses = 0 => \A w \in Instances : pc[w] # "idle" => holders = {w}

LaneInv == TypeOK /\ LaneHeld

(* Leaving a handler keeps the types. *)
LEMMA ReturnType ==
  ASSUME TypeOK, NEW w \in Workers, Return(w)
  PROVE  /\ pc' \in [Workers -> PCs]
         /\ stale' \in [Workers -> SUBSET RunIds]
         /\ mine' \in [Workers -> RunIds \cup {NoRun}]
         /\ result' \in [Workers -> {"none", "completed", "skipped"}]
BY DEF TypeOK, Return, Goto, PCs

(* Type correctness is preserved by every step. *)
LEMMA RunTypeStep == TypeOK /\ [Next]_vars => TypeOK'
<1> SUFFICES ASSUME TypeOK, [Next]_vars PROVE TypeOK'
  OBVIOUS
<1> USE RunAssumption DEF TypeOK, PCs, Statuses
<1>1. CASE UNCHANGED vars
  BY <1>1 DEF vars, local, bounds
<1>2. CASE Tick \/ Pause \/ Resume
  BY <1>2 DEF Tick, Pause, Resume, local, bounds
<1>3. CASE LeaseLapses
  BY <1>3 DEF LeaseLapses, Lease!Lapse, local
<1>4. ASSUME NEW w \in Instances, ScheduledTick(w) PROVE TypeOK'
  <2>1. w \in Workers
    BY DEF Workers
  <2>2. QED
    BY <1>4, <2>1 DEF ScheduledTick, Acquire, Lease!Take, Goto, bounds
<1>5. ASSUME NEW w \in Requests, ManualTrigger(w) PROVE TypeOK'
  <2>1. w \in Workers
    BY DEF Workers
  <2>2. QED
    BY <1>5, <2>1 DEF ManualTrigger, Goto, bounds
<1>6. ASSUME NEW w \in Workers, Step(w) PROVE TypeOK'
  <2>1. CASE CheckCanRun(w)
    BY <2>1, ReturnType DEF CheckCanRun, Goto, bounds
  <2>2. CASE ReadStale(w)
    BY <2>2 DEF ReadStale, Stale, Goto, bounds
  <2>3. CASE MarkStale(w)
    BY <2>3 DEF MarkStale, Goto, bounds
  <2>4. CASE CheckRunning(w)
    BY <2>4, ReturnType DEF CheckRunning, AlreadyRunning, Goto, bounds
  <2>5. ASSUME NEW r \in RunIds, StartRun(w, r) PROVE TypeOK'
    BY <2>5 DEF StartRun, NewRow, Goto, bounds
  <2>6. CASE StartRaises(w) \/ PlaysRaise(w) \/ FinishRaises(w)
    BY <2>6, ReturnType DEF StartRaises, PlaysRaise, FinishRaises, bounds
  <2>7. CASE RunPlays(w)
    BY <2>7 DEF RunPlays, Goto, bounds
  <2>8. CASE FinishRun(w)
    <3>1. runs' \in [RunIds -> [status : {"none", "running", "completed", "skipped", "failed"}, started : Nat]]
      BY <2>8 DEF FinishRun
    <3>2. QED
      BY <2>8, <3>1, ReturnType DEF FinishRun, bounds
  <2>9. CASE ReleaseLease(w) \/ ReleaseRaises(w)
    BY <2>9 DEF ReleaseLease, ReleaseRaises, Goto, bounds
  <2>10. CASE Crash(w)
    BY <2>10 DEF Crash, Goto
  <2>11. QED
    BY <1>6, <2>1, <2>2, <2>3, <2>4, <2>5, <2>6, <2>7, <2>8, <2>9, <2>10 DEF Step
<1>7. QED
  BY <1>1, <1>2, <1>3, <1>4, <1>5, <1>6 DEF Next

(* The lease's holder keeps it while it is in the handler. *)
LEMMA LaneStep == LaneInv /\ [Next]_vars => LaneHeld'
<1> SUFFICES ASSUME LaneInv, [Next]_vars, lapses' = 0,
                    NEW v \in Instances, pc'[v] # "idle"
             PROVE  holders' = {v}
  BY DEF LaneHeld
<1> USE RunAssumption DEF LaneInv, LaneHeld, TypeOK
<1>0. v \in Workers /\ v \notin Requests
  BY DEF Workers
<1>1. CASE UNCHANGED vars
  BY <1>1 DEF vars, local, bounds
<1>2. CASE Tick \/ Pause \/ Resume
  BY <1>2 DEF Tick, Pause, Resume, local, bounds
<1>3. CASE LeaseLapses
  <2>1. pc' = pc /\ lapses = 0 /\ \A w \in holders : pc[w] = "idle"
    BY <1>3 DEF LeaseLapses, local
  <2>2. QED
    BY <2>1
<1>4. ASSUME NEW w \in Instances, ScheduledTick(w) PROVE holders' = {v}
  <2>1. w \in Workers /\ lapses = 0
    BY <1>4 DEF ScheduledTick, Acquire, bounds, Workers
  <2>2. CASE v = w
    BY <1>4, <2>2 DEF ScheduledTick, Acquire, Lease!Take
  <2>3. CASE v # w
    <3>1. pc[v] # "idle"
      BY <1>0, <1>4, <2>1, <2>3 DEF ScheduledTick, Acquire, Goto
    <3>2. holders = {v}
      BY <2>1, <3>1
    <3>3. QED
      BY <1>4, <2>3, <3>2 DEF ScheduledTick, Acquire, Lease!Take
  <2>4. QED
    BY <2>2, <2>3
<1>5. ASSUME NEW w \in Requests, ManualTrigger(w) PROVE holders' = {v}
  BY <1>0, <1>5 DEF ManualTrigger, Goto, bounds, Workers
<1>6. ASSUME NEW w \in Workers, Step(w) PROVE holders' = {v}
  <2>1. lapses = 0
    BY <1>6 DEF Step, CheckCanRun, ReadStale, Stale, MarkStale, CheckRunning, AlreadyRunning, StartRun, NewRow, StartRaises,
       RunPlays, PlaysRaise, FinishRun, FinishRaises, ReleaseLease, ReleaseRaises, Crash, bounds
  <2>2. pc[w] # "idle"
    BY <1>6 DEF Step, CheckCanRun, ReadStale, Stale, MarkStale, CheckRunning, AlreadyRunning, StartRun, NewRow, StartRaises,
       RunPlays, PlaysRaise, FinishRun, FinishRaises, ReleaseLease, ReleaseRaises, Crash
  <2>3. pc[v] # "idle"
    <3>1. CASE v = w
      BY <2>2, <3>1
    <3>2. CASE v # w
      BY <1>0, <1>6, <3>2 DEF Step, CheckCanRun, ReadStale, Stale, MarkStale, CheckRunning, AlreadyRunning, StartRun, NewRow,
         StartRaises, RunPlays, PlaysRaise, FinishRun, FinishRaises, ReleaseLease, ReleaseRaises,
         Crash, Goto, Return
    <3>3. QED
      BY <3>1, <3>2
  <2>4. holders = {v}
    BY <2>1, <2>3
  <2>5. CASE ReleaseLease(w)
    <3>1. pc'[w] = "idle"
      BY <2>5 DEF ReleaseLease, Goto
    <3>2. w # v
      BY <3>1
    <3>3. QED
      BY <2>4, <2>5, <3>2 DEF ReleaseLease
  <2>6. CASE holders' = holders
    BY <2>4, <2>6
  <2>7. QED
    BY <1>6, <2>5, <2>6 DEF Step, CheckCanRun, ReadStale, Stale, MarkStale, CheckRunning, AlreadyRunning, StartRun, NewRow,
       StartRaises, RunPlays, PlaysRaise, FinishRun, FinishRaises, ReleaseRaises, Crash
<1>7. QED
  BY <1>1, <1>2, <1>3, <1>4, <1>5, <1>6 DEF Next

(* Every reachable state is well-typed and the lane belongs to its holder. *)
THEOREM LaneInvariant == Spec => []LaneInv
<1>1. Init => LaneInv
  BY RunAssumption DEF Init, Lease!Init, LaneInv, LaneHeld, TypeOK, PCs, Statuses, Workers
<1>2. LaneInv /\ [Next]_vars => LaneInv'
  BY RunTypeStep, LaneStep DEF LaneInv
<1>3. QED
  BY <1>1, <1>2, PTL DEF Spec

(* Type correctness of the run rows and of every handler's locals. *)
THEOREM RunTypeOK == Spec => []TypeOK
<1>1. LaneInv => TypeOK
  BY DEF LaneInv
<1>2. QED
  BY <1>1, LaneInvariant, PTL

(* The cycle is single-lane as long as no live body loses its lease,       *)
(* whatever the manual triggers, crashes and failed releases do.           *)
THEOREM CycleSingleLane == Spec => []ScheduledSingleLane
<1>1. LaneInv => ScheduledSingleLane
  BY DEF LaneInv, LaneHeld, ScheduledSingleLane
<1>2. QED
  BY <1>1, LaneInvariant, PTL

---------------------------------------------------------------------------
(* What strengthens the claims about rows when only the scheduler runs the *)
(* cycle and no live body loses its lease: in the one lane, what a worker  *)
(* read about the rows is still true when it acts on it.                   *)
SoleRunInv ==
  /\ lapses = 0
  /\ \A w \in Workers : Running(w) => mine[w] \in RunIds /\ runs[mine[w]].status = "running"
  /\ \A w \in Workers : pc[w] = "start" => \A r \in RunIds : runs[r].status # "running"
  /\ \A r, s \in RunIds : runs[r].status = "running" /\ runs[s].status = "running" => r = s
  /\ \A w \in Workers : pc[w] = "mark" => \A r \in stale[w] : runs[r].status = "running"
  /\ \A w \in Workers : pc[w] = "finish" => result[w] \in {"completed", "skipped"}

(* In the one lane, two workers are never both inside the handler.         *)
LEMMA OneWorker ==
  ASSUME Requests = {}, LaneInv, lapses = 0,
         NEW v \in Workers, NEW w \in Workers, pc[v] # "idle", pc[w] # "idle"
  PROVE  v = w
<1>1. v \in Instances /\ w \in Instances
  BY DEF Workers
<1>2. holders = {v} /\ holders = {w}
  BY <1>1 DEF LaneInv, LaneHeld
<1>3. QED
  BY <1>2

(* A worker's step leaves the other workers' control point alone.          *)
LEMMA OthersStay ==
  ASSUME TypeOK, NEW w \in Workers, Step(w), NEW v \in Workers, v # w
  PROVE  pc'[v] = pc[v] /\ mine'[v] = mine[v] /\ stale'[v] = stale[v] /\ result'[v] = result[v]
BY DEF TypeOK, Step, CheckCanRun, ReadStale, Stale, MarkStale, CheckRunning, AlreadyRunning, StartRun, NewRow, StartRaises,
   RunPlays, PlaysRaise, FinishRun, FinishRaises, ReleaseLease, ReleaseRaises, Crash, Goto, Return

(* The step of a worker in the one lane keeps the strengthening.           *)
LEMMA SoleWorkerStep ==
  ASSUME Requests = {}, LaneInv, SoleRunInv, NEW w \in Workers, Step(w)
  PROVE  SoleRunInv'
<1> USE RunAssumption
<1> DEFINE Others == \A v \in Workers : v # w => pc'[v] = "idle"
<1>1. pc[w] # "idle" /\ w \in Instances
  BY DEF Workers, Step, CheckCanRun, ReadStale, Stale, MarkStale, CheckRunning, AlreadyRunning, StartRun, NewRow, StartRaises,
     RunPlays, PlaysRaise, FinishRun, FinishRaises, ReleaseLease, ReleaseRaises, Crash
<1>2. Others
  <2> SUFFICES ASSUME NEW v \in Workers, v # w PROVE pc'[v] = "idle"
    OBVIOUS
  <2>1. pc[v] = "idle"
    BY <1>1, OneWorker DEF SoleRunInv
  <2>2. pc'[v] = pc[v]
    BY OthersStay DEF LaneInv
  <2>3. QED
    BY <2>1, <2>2
<1>3. lapses' = 0
  BY DEF SoleRunInv, Step, CheckCanRun, ReadStale, Stale, MarkStale, CheckRunning, AlreadyRunning, StartRun, NewRow, StartRaises,
     RunPlays, PlaysRaise, FinishRun, FinishRaises, ReleaseLease, ReleaseRaises, Crash, bounds
<1> SUFFICES /\ Running(w)' => mine'[w] \in RunIds /\ runs'[mine'[w]].status = "running"
             /\ pc'[w] = "start" => \A r \in RunIds : runs'[r].status # "running"
             /\ \A r, s \in RunIds :
                  runs'[r].status = "running" /\ runs'[s].status = "running" => r = s
             /\ pc'[w] = "mark" => \A r \in stale'[w] : runs'[r].status = "running"
             /\ pc'[w] = "finish" => result'[w] \in {"completed", "skipped"}
  BY <1>2, <1>3 DEF SoleRunInv, Running
<1> USE DEF LaneInv, TypeOK, SoleRunInv
<1>4. CASE CheckCanRun(w) \/ StartRaises(w) \/ PlaysRaise(w) \/ FinishRaises(w)
           \/ ReleaseLease(w) \/ ReleaseRaises(w) \/ Crash(w)
  BY <1>4 DEF CheckCanRun, StartRaises, PlaysRaise, FinishRaises, ReleaseLease, ReleaseRaises,
     Crash, Goto, Return, Running
<1>5. CASE ReadStale(w)
  BY <1>5 DEF ReadStale, Stale, Goto, Running
<1>6. CASE MarkStale(w)
  BY <1>6 DEF MarkStale, Goto, Running
<1>7. CASE CheckRunning(w)
  BY <1>7 DEF CheckRunning, AlreadyRunning, Goto, Return, Running
<1>8. ASSUME NEW r \in RunIds, StartRun(w, r)
       PROVE  /\ mine'[w] = r /\ runs'[r].status = "running" /\ pc'[w] = "plays"
              /\ \A s \in RunIds : s # r => runs'[s].status # "running"
  BY <1>8 DEF StartRun, NewRow, Goto
<1>9. CASE RunPlays(w)
  BY <1>9 DEF RunPlays, Goto, Running
<1>10. CASE FinishRun(w)
  <2>1. mine[w] \in RunIds /\ runs[mine[w]].status = "running" /\ result[w] # "running"
    BY <1>10 DEF FinishRun, Running
  <2>2. \A r \in RunIds : runs'[r].status # "running"
    BY <1>10, <2>1 DEF FinishRun
  <2>3. pc'[w] = "release"
    BY <1>1, <1>10 DEF FinishRun, Return, Goto
  <2>4. QED
    BY <2>2, <2>3 DEF Running
<1>11. QED
  BY <1>4, <1>5, <1>6, <1>7, <1>8, <1>9, <1>10 DEF Step, Running

(* The strengthening holds in every reachable state of the scheduler-only  *)
(* system in which no live body loses its lease.                           *)
LEMMA SoleRunInvariant ==
  ASSUME Requests = {}, MaxLapses = 0
  PROVE  Spec => [](LaneInv /\ SoleRunInv)
<1>1. Init => SoleRunInv
  BY DEF Init, SoleRunInv, Running
<1>2. LaneInv /\ SoleRunInv /\ [Next]_vars => SoleRunInv'
  <2> SUFFICES ASSUME LaneInv, SoleRunInv, [Next]_vars PROVE SoleRunInv'
    OBVIOUS
  <2>1. CASE UNCHANGED vars
    BY <2>1 DEF vars, local, bounds, SoleRunInv, Running
  <2>2. CASE Tick \/ Pause \/ Resume
    BY <2>2 DEF Tick, Pause, Resume, local, bounds, SoleRunInv, Running
  <2>3. CASE LeaseLapses
    BY <2>3, RunAssumption DEF LeaseLapses, local, SoleRunInv, Running
  <2>4. ASSUME NEW w \in Instances, ScheduledTick(w) PROVE SoleRunInv'
    <3>1. w \in Workers /\ pc'[w] = "gate" /\ \A v \in Workers : v # w => pc'[v] = pc[v]
      BY <2>4 DEF ScheduledTick, Acquire, Goto, Workers, LaneInv, TypeOK
    <3>2. QED
      BY <2>4, <3>1 DEF ScheduledTick, Acquire, bounds, SoleRunInv, Running
  <2>5. ASSUME NEW w \in Workers, Step(w) PROVE SoleRunInv'
    BY <2>5, SoleWorkerStep
  <2>6. QED
    BY <2>1, <2>2, <2>3, <2>4, <2>5 DEF Next
<1>3. QED
  BY <1>1, <1>2, LaneInvariant, PTL DEF Spec

(* Stale recovery never fails the row of a live worker.                    *)
THEOREM LiveRowsKeepRunning ==
  ASSUME Requests = {}, MaxLapses = 0
  PROVE  Spec => []LiveRunNotFailed
<1>1. SoleRunInv => LiveRunNotFailed
  BY DEF SoleRunInv, LiveRunNotFailed
<1>2. QED
  BY <1>1, SoleRunInvariant, PTL

(* At most one gtm_intelligence_runs row says "running".                   *)
THEOREM AtMostOneRunningRow ==
  ASSUME Requests = {}, MaxLapses = 0
  PROVE  Spec => []OneRunningRow
<1>1. SoleRunInv => OneRunningRow
  BY DEF SoleRunInv, OneRunningRow
<1>2. QED
  BY <1>1, SoleRunInvariant, PTL

(* No verdict is ever overwritten: a row that is "completed", "skipped" or *)
(* "failed" keeps its status.                                              *)
THEOREM VerdictsAreFinal ==
  ASSUME Requests = {}, MaxLapses = 0
  PROVE  Spec => VerdictIsFinal
<1> DEFINE Final == \A r \in RunIds : runs[r].status \in {"completed", "skipped", "failed"}
                     => runs'[r].status = runs[r].status
<1>1. LaneInv /\ SoleRunInv /\ [Next]_vars => [Final]_vars
  <2> SUFFICES ASSUME LaneInv, SoleRunInv, Next,
                      NEW r \in RunIds, runs[r].status \in {"completed", "skipped", "failed"}
               PROVE  runs'[r].status = runs[r].status
    OBVIOUS
  <2> USE DEF LaneInv, TypeOK
  <2>1. CASE runs' = runs
    BY <2>1
  <2>2. ASSUME NEW w \in Workers, MarkStale(w) PROVE runs'[r].status = runs[r].status
    BY <2>2 DEF MarkStale, SoleRunInv
  <2>3. ASSUME NEW w \in Workers, NEW s \in RunIds, StartRun(w, s)
        PROVE  runs'[r].status = runs[r].status
    BY <2>3 DEF StartRun, NewRow
  <2>4. ASSUME NEW w \in Workers, FinishRun(w) PROVE runs'[r].status = runs[r].status
    <3>1. mine[w] \in RunIds /\ mine[w] # r
      BY <2>4 DEF FinishRun, SoleRunInv, Running
    <3>2. QED
      BY <2>4, <3>1 DEF FinishRun
  <2>5. QED
    BY <2>1, <2>2, <2>3, <2>4 DEF Next, Tick, Pause, Resume, LeaseLapses, ScheduledTick, Acquire,
       ManualTrigger, Step, CheckCanRun, ReadStale, Stale, CheckRunning, AlreadyRunning, StartRaises, RunPlays,
       PlaysRaise, FinishRaises, ReleaseLease, ReleaseRaises, Crash
<1>2. QED
  BY <1>1, SoleRunInvariant, PTL DEF Spec, VerdictIsFinal

-----------------------------------------------------------------------------
(* The hiring play.                                                        *)
(* The stages in which a run looks for jobs with a note of its own, those  *)
(* in which it has a company in hand, and those with leads on its list.    *)
InSense == {"check", "note", "keep", "postings", "save"}
Holding == {"note", "keep", "postings", "bought", "write", "advance", "compose", "link"}
Looking == {"batch", "contact", "bought", "write", "advance"}
Drafting == {"draft", "compose", "link"}

(* What a run has in hand is on its list, and is a company once its row is *)
(* kept; a batched search finds nobody only when LinkedIn is the channel.  *)
InHand ==
  /\ \A r \in PlayRuns : playPc[r] \in Holding => at[r] \in todo[r]
  /\ \A r \in PlayRuns : playPc[r] = "postings" => at[r] \in companyRow
  /\ \A r \in PlayRuns, c \in Companies : harvested[r][c] = "nobody" => linkedinOnly

(* Until two runs overlap one run is active at most.                       *)
Solo == ~overlapped => \A q, r \in PlayRuns : Active(q) /\ Active(r) => q = r

(* Then the leads on a run's list are as the stage read them, and it       *)
(* drafts for the latest strategy version.                                 *)
ListedIn(r) ==
  /\ playPc[r] = "judge" => \A c \in todo[r] : leadState[c] = "signal"
  /\ playPc[r] \in Looking => \A c \in todo[r] : leadState[c] = "qualified"
  /\ playPc[r] \in Drafting => \A c \in todo[r] : leadState[c] = "contact_found"
  /\ playPc[r] \in {"compose", "link"} => version[r] = Len(drafts[at[r]])

Listed == ~overlapped => \A r \in PlayRuns : ListedIn(r)

(* Then only the latest version of a company is ever composed, none before *)
(* its contact is found, and a drafted lead has a text.                    *)
TextsOf(c) ==
  /\ \A v \in DOMAIN drafts[c] : drafts[c][v] # "none" =>
       v = Len(drafts[c]) /\ leadState[c] \notin {"absent", "signal", "qualified"}
  /\ leadState[c] = "drafted" => drafts[c][Len(drafts[c])] = "text"

Texts == ~overlapped => \A c \in Companies : TextsOf(c)

(* A person who was bought is on record, or in the hand of the run that    *)
(* bought.                                                                 *)
ContactsKept ==
  ~overlapped /\ playFaults = 0 =>
    \A c \in Companies :
      /\ contactPaid[c] <= 1
      /\ contactPaid[c] = 0 \/ c \in contactRow \/ \E r \in PlayRuns : playPc[r] = "bought" /\ at[r] = c

(* Facts that were bought are noted, or in hand; those of the rest of a    *)
(* run's list are not bought yet; its copy of the note lacks nothing.      *)
FactsKept ==
  ~overlapped /\ playFaults = 0 =>
    /\ \A c \in Companies :
         /\ factsPaid[c] <= 1
         /\ factsPaid[c] = 0 \/ checkedNote[c] # "none" \/ \E r \in PlayRuns : playPc[r] = "note" /\ at[r] = c
    /\ \A r \in PlayRuns :
         /\ playPc[r] \in InSense => \A c \in Companies : checkedNote[c] # "none" => ownNote[r][c] # "none"
         /\ playPc[r] = "note" => ownNote[r][at[r]] # "none"
         /\ playPc[r] = "check" => \A c \in todo[r] : factsPaid[c] = 0
         /\ playPc[r] \in {"note", "keep", "postings"} => \A c \in todo[r] : c = at[r] \/ factsPaid[c] = 0

(* What is noted as kept has its postings, or is in hand: for the run's    *)
(* copy through one fault, for the shared note through none while a run    *)
(* still writes it.                                                        *)
NotesSaved ==
  ~overlapped /\ ~died /\ playFaults <= 1 =>
    /\ \/ \E r \in PlayRuns : playPc[r] \in InSense
       \/ \A c \in Companies : checkedNote[c] = "kept" => c \in jobSignal
    /\ \A r \in PlayRuns : playPc[r] \in InSense =>
         \A c \in Companies :
           /\ ownNote[r][c] = "kept" =>
                c \in jobSignal \/ (playPc[r] \in {"note", "keep", "postings"} /\ at[r] = c)
           /\ playFaults = 0 /\ checkedNote[c] = "kept" =>
                c \in jobSignal \/ (playPc[r] \in {"keep", "postings"} /\ at[r] = c)

HiringInv ==
  /\ HiringTypeOK /\ InHand /\ Solo /\ Listed /\ Texts /\ RefusalWaits
  /\ ContactsKept /\ FactsKept /\ NotesSaved

(* What the other runs hold is theirs.                                     *)
Others(r) ==
  \A q \in PlayRuns \ {r} :
    /\ playPc'[q] = playPc[q] /\ todo'[q] = todo[q] /\ at'[q] = at[q]
    /\ ownNote'[q] = ownNote[q] /\ version'[q] = version[q]

(* A step that senses touches no lead.                                     *)
SenseStep(r) ==
  /\ Active(r) /\ Others(r)
  /\ playPc[r] \in InSense \cup {"search"} /\ playPc'[r] \in InSense \cup {"ingest"}
  /\ leadState' = leadState /\ drafts' = drafts /\ contactRow' = contactRow
  /\ contactPaid' = contactPaid /\ refused' = refused
  /\ linkedinOnly' = linkedinOnly /\ overlapped' = overlapped /\ playFaults <= playFaults'

(* Such a step keeps all that is about leads.                              *)
LEMMA SenseKeepsLeads ==
  ASSUME HiringInv, NEW r \in PlayRuns, HiringTypeOK', SenseStep(r)
  PROVE  Solo' /\ Listed' /\ Texts' /\ RefusalWaits' /\ ContactsKept'
<1>1. Solo'
  BY DEF HiringInv, Solo, SenseStep, Others, Active
<1>2. Listed'
  BY DEF HiringInv, Listed, ListedIn, SenseStep, Others, InSense, Looking, Drafting
<1>3. Texts' /\ RefusalWaits'
  BY DEF HiringInv, Texts, TextsOf, RefusalWaits, SenseStep
<1>4. ContactsKept'
  <2>1. ASSUME playFaults' = 0 PROVE playFaults = 0
    BY <2>1 DEF HiringInv, HiringTypeOK, SenseStep
  <2> QED
    BY <2>1 DEF HiringInv, ContactsKept, SenseStep, Others, InSense
<1> QED
  BY <1>1, <1>2, <1>3, <1>4

(* A step of the later stages touches no note and buys no facts.           *)
LeadStep(r) ==
  /\ Active(r) /\ Others(r)
  /\ playPc[r] \notin InSense /\ playPc'[r] \notin InSense
  /\ checkedNote' = checkedNote /\ jobSignal' = jobSignal /\ companyRow' = companyRow
  /\ ownNote' = ownNote /\ factsPaid' = factsPaid
  /\ overlapped' = overlapped /\ died' = died /\ playFaults <= playFaults'

(* Such a step keeps all that is about notes, and the lists of the         *)
(* others.                                                                 *)
LEMMA LeadKeepsNotes ==
  ASSUME HiringInv, NEW r \in PlayRuns, HiringTypeOK', LeadStep(r), ~overlapped => ListedIn(r)'
  PROVE  Solo' /\ Listed' /\ FactsKept' /\ NotesSaved'
<1>1. Solo'
  BY DEF HiringInv, Solo, LeadStep, Others, Active
<1>2. Listed'
  BY DEF HiringInv, Listed, ListedIn, Solo, LeadStep, Others, Active, Looking, Drafting
<1>3. /\ playFaults' = 0 => playFaults = 0
      /\ playFaults' <= 1 => playFaults <= 1
  BY DEF HiringInv, HiringTypeOK, LeadStep
<1>4. FactsKept'
  BY <1>3 DEF HiringInv, FactsKept, LeadStep, Others, InSense
<1>5. NotesSaved'
  BY <1>3 DEF HiringInv, NotesSaved, LeadStep, Others, InSense
<1> QED
  BY <1>1, <1>2, <1>4, <1>5

(* A step that only takes or leaves what is listed.                        *)
StillStep(r) ==
  /\ leadState' = leadState /\ drafts' = drafts /\ contactRow' = contactRow
  /\ contactPaid' = contactPaid /\ refused' = refused /\ linkedinOnly' = linkedinOnly
  /\ playPc[r] # "bought" /\ playFaults' = playFaults

(* Such a step keeps all that is about rows.                               *)
LEMMA StillKeeps ==
  ASSUME HiringInv, NEW r \in PlayRuns, LeadStep(r), StillStep(r)
  PROVE  Texts' /\ RefusalWaits' /\ ContactsKept'
<1>1. Texts' /\ RefusalWaits'
  BY DEF HiringInv, Texts, TextsOf, RefusalWaits, LeadStep, StillStep
<1>2. ContactsKept'
  BY DEF HiringInv, ContactsKept, LeadStep, StillStep, Others
<1> QED
  BY <1>1, <1>2

(* Saving the note leads on to the company kept, or drops it.              *)
LEMMA NoteStep ==
  ASSUME HiringTypeOK, InHand, NEW r \in PlayRuns, AfterNote(r)
  PROVE  /\ playPc[r] = "note" /\ at[r] \in todo[r]
         /\ \A q \in PlayRuns \ {r} : playPc'[q] = playPc[q]
         /\ \/ ownNote[r][at[r]] = "kept" /\ playPc'[r] = "keep" /\ todo' = todo /\ at' = at
            \/ /\ ownNote[r][at[r]] = "rejected" /\ playPc'[r] = "check"
               /\ todo' = [todo EXCEPT ![r] = @ \ {at[r]}] /\ at' = [at EXCEPT ![r] = NoCompany]
               /\ todo'[r] = todo[r] \ {at[r]}
BY DEF AfterNote, HiringTypeOK, InHand, Holding, Stage, Release, Drop, Take

(* Saving the note keeps the types.                                        *)
LEMMA AfterNoteTypes ==
  ASSUME HiringTypeOK, NEW r \in PlayRuns, AfterNote(r)
  PROVE  /\ todo' \in [PlayRuns -> SUBSET Companies] /\ at' \in [PlayRuns -> Companies \cup {NoCompany}]
         /\ playPc' \in [PlayRuns -> Stages]
<1>1. playPc' \in [PlayRuns -> Stages]
  BY DEF AfterNote, HiringTypeOK, Stages, Stage
<1>2. todo' \in [PlayRuns -> SUBSET Companies]
  <2>1. todo[r] \ {at[r]} \in SUBSET Companies
    BY DEF HiringTypeOK
  <2> QED
    BY <2>1 DEF AfterNote, HiringTypeOK, Release, Drop
<1>3. at' \in [PlayRuns -> Companies \cup {NoCompany}]
  BY DEF AfterNote, HiringTypeOK, Release, Take
<1> QED
  BY <1>1, <1>2, <1>3

(* A search lists what is not noted, and copies the note.                  *)
LEMMA SearchJobsKeeps ==
  ASSUME HiringInv, NEW r \in PlayRuns, SearchJobs(r)
  PROVE  HiringInv'
<1>1. HiringTypeOK'
  BY HiringAssumption DEF HiringInv, HiringTypeOK, InHand, Holding, Stages, SearchJobs, Stage,
    Take, Drop, Release, Move, Fault, Active, leadRows, playLocals, playHistory
<1>2. SenseStep(r)
  BY DEF HiringInv, HiringTypeOK, SenseStep, Others, InSense, SearchJobs, Stage, Take, Drop,
    Release, Move, Fault, Active, leadRows, playLocals, playHistory
<1>3. InHand'
  BY DEF HiringInv, HiringTypeOK, InHand, Holding, SearchJobs, Stage, Take, Drop, Release, Move,
    Fault, Active, leadRows, playLocals, playHistory
<1>4. FactsKept'
  <2>1. SUFFICES ASSUME ~overlapped, playFaults = 0
                 PROVE  FactsKept'
    BY DEF FactsKept, SearchJobs, playHistory
  <2>2. \A q \in PlayRuns : playPc[q] \notin InSense
    BY <2>1 DEF HiringInv, Solo, Active, InSense, SearchJobs, Stage
  <2>3. \A c \in Companies : factsPaid[c] <= 1 /\ (checkedNote[c] = "none" => factsPaid[c] = 0)
    BY <2>1, <2>2 DEF HiringInv, FactsKept, InSense
  <2>4. /\ factsPaid' = factsPaid /\ checkedNote' = checkedNote
        /\ ownNote' = [ownNote EXCEPT ![r] = checkedNote]
        /\ \A c \in todo'[r] : c \in Companies /\ checkedNote[c] = "none"
        /\ playPc'[r] \in {"check", "save"} /\ \A q \in PlayRuns \ {r} : playPc'[q] = playPc[q]
    BY DEF HiringInv, HiringTypeOK, SearchJobs, Stage, leadRows, playHistory
  <2>5. ownNote'[r] = checkedNote
    BY <2>4 DEF HiringInv, HiringTypeOK
  <2> QED
    BY <2>2, <2>3, <2>4, <2>5 DEF FactsKept, InSense
<1>5. NotesSaved'
  BY DEF HiringInv, HiringTypeOK, InHand, Holding, Solo, NotesSaved, InSense, SearchJobs, Stage,
    Take, Drop, Release, Move, Fault, Active, leadRows, playLocals, playHistory
<1> QED
  BY <1>1, <1>2, <1>3, <1>4, <1>5, SenseKeepsLeads DEF HiringInv

(* The loop over the list ends.                                            *)
LEMMA SenseEndsKeeps ==
  ASSUME HiringInv, NEW r \in PlayRuns, SenseEnds(r)
  PROVE  HiringInv'
<1>1. HiringTypeOK'
  BY HiringAssumption DEF HiringInv, HiringTypeOK, InHand, Holding, Stages, SenseEnds, Stage,
    Take, Drop, Release, Move, Fault, Active, leadRows, playLocals, playHistory
<1>2. SenseStep(r)
  BY DEF HiringInv, HiringTypeOK, SenseStep, Others, InSense, SenseEnds, Stage, Take, Drop,
    Release, Move, Fault, Active, leadRows, playLocals, playHistory
<1>3. InHand'
  BY DEF HiringInv, HiringTypeOK, InHand, Holding, SenseEnds, Stage, Take, Drop, Release, Move,
    Fault, Active, leadRows, playLocals, playHistory
<1>4. FactsKept'
  BY DEF HiringInv, HiringTypeOK, InHand, Holding, Solo, FactsKept, InSense, SenseEnds, Stage,
    Take, Drop, Release, Move, Fault, Active, leadRows, playLocals, playHistory
<1>5. NotesSaved'
  BY DEF HiringInv, HiringTypeOK, InHand, Holding, Solo, NotesSaved, InSense, SenseEnds, Stage,
    Take, Drop, Release, Move, Fault, Active, leadRows, playLocals, playHistory
<1> QED
  BY <1>1, <1>2, <1>3, <1>4, <1>5, SenseKeepsLeads DEF HiringInv

(* The whole note is written from the run's copy.                          *)
LEMMA SaveNoteKeeps ==
  ASSUME HiringInv, NEW r \in PlayRuns, SaveNote(r)
  PROVE  HiringInv'
<1>1. HiringTypeOK'
  <2>1. checkedNote' \in [Companies -> {"none", "kept", "rejected"}]
    BY DEF HiringInv, HiringTypeOK, SaveNote
  <2>2. todo' \in [PlayRuns -> SUBSET Companies] /\ at' \in [PlayRuns -> Companies \cup {NoCompany}]
        /\ playPc' \in [PlayRuns -> Stages]
    BY AfterNoteTypes DEF SaveNote, HiringInv
  <2> QED
    BY <2>1, <2>2 DEF HiringInv, HiringTypeOK, SaveNote, playHistory
<1>2. SenseStep(r)
  BY DEF HiringInv, HiringTypeOK, SenseStep, Others, InSense, SaveNote, AfterNote, Stage, Take,
    Drop, Release, Move, Fault, Active, leadRows, playLocals, playHistory
<1>3. InHand'
  BY DEF HiringInv, HiringTypeOK, InHand, Holding, SaveNote, AfterNote, Stage, Take, Drop,
    Release, Move, Fault, Active, leadRows, playLocals, playHistory
<1>4. FactsKept'
  <2>1. SUFFICES ASSUME ~overlapped, playFaults = 0
                 PROVE  FactsKept'
    BY DEF FactsKept, SaveNote, playHistory
  <2>2. /\ \A q \in PlayRuns \ {r} : playPc[q] \notin InSense /\ playPc'[q] = playPc[q]
        /\ factsPaid' = factsPaid /\ checkedNote' = ownNote[r] /\ ownNote' = ownNote
        /\ playPc[r] = "note" /\ at[r] \in todo[r] /\ todo[r] \subseteq Companies
    BY <2>1, NoteStep DEF HiringInv, HiringTypeOK, Solo, Active, InSense, InHand, Holding, SaveNote, playHistory
  <2>3. \A c \in Companies : checkedNote[c] # "none" => ownNote[r][c] # "none"
    BY <2>1, <2>2 DEF HiringInv, FactsKept, InSense
  <2>4. ownNote[r][at[r]] # "none" /\ \A c \in todo[r] : c = at[r] \/ factsPaid[c] = 0
    BY <2>1, <2>2 DEF HiringInv, FactsKept
  <2>5. \A c \in Companies : factsPaid[c] <= 1 /\ (factsPaid[c] = 0 \/ ownNote[r][c] # "none")
    <3>1. TAKE c \in Companies
    <3>2. ASSUME NEW q \in PlayRuns, playPc[q] = "note", at[q] = c PROVE ownNote[r][c] # "none"
      BY <2>2, <2>4, <3>2 DEF InSense
    <3> QED
      BY <2>1, <2>3, <3>2 DEF HiringInv, FactsKept
  <2>6. /\ playPc'[r] \in {"check", "keep"}
        /\ playPc'[r] = "check" => todo'[r] = todo[r] \ {at[r]}
        /\ playPc'[r] = "keep" => todo'[r] = todo[r] /\ at'[r] = at[r]
    BY NoteStep DEF HiringInv, HiringTypeOK, SaveNote
  <2>7. \A c \in Companies :
          /\ factsPaid'[c] <= 1
          /\ factsPaid'[c] = 0 \/ checkedNote'[c] # "none"
    BY <2>2, <2>5
  <2>8. \A q \in PlayRuns : playPc'[q] \in InSense => q = r
    BY <2>2
  <2>9. \A c \in todo'[r] : (playPc'[r] = "keep" /\ c = at'[r]) \/ factsPaid'[c] = 0
    BY <2>2, <2>4, <2>6
  <2> QED
    BY <2>2, <2>6, <2>7, <2>8, <2>9 DEF FactsKept, InSense
<1>5. NotesSaved'
  <2>1. SUFFICES ASSUME ~overlapped, ~died, playFaults <= 1
                 PROVE  NotesSaved'
    BY DEF NotesSaved, SaveNote, playHistory
  <2>2. /\ \A q \in PlayRuns \ {r} : playPc[q] \notin InSense /\ playPc'[q] = playPc[q]
        /\ checkedNote' = ownNote[r] /\ ownNote' = ownNote /\ jobSignal' = jobSignal /\ playPc[r] = "note"
    BY <2>1, NoteStep DEF HiringInv, HiringTypeOK, Solo, Active, InSense, SaveNote, playHistory
  <2>3. \A c \in Companies : ownNote[r][c] = "kept" => c \in jobSignal \/ at[r] = c
    BY <2>1, <2>2 DEF HiringInv, NotesSaved, InSense
  <2>4. \/ playPc'[r] = "keep" /\ at'[r] = at[r]
        \/ playPc'[r] = "check" /\ ownNote[r][at[r]] # "kept"
    BY NoteStep DEF HiringInv, HiringTypeOK, SaveNote
  <2>5. \A c \in Companies : ownNote[r][c] = "kept" => c \in jobSignal \/ (playPc'[r] = "keep" /\ at'[r] = c)
    BY <2>3, <2>4
  <2> QED
    BY <2>2, <2>4, <2>5 DEF NotesSaved, InSense
<1> QED
  BY <1>1, <1>2, <1>3, <1>4, <1>5, SenseKeepsLeads DEF HiringInv

(* Its commit fails: the fault is counted.                                 *)
LEMMA SaveNoteFailsKeeps ==
  ASSUME HiringInv, NEW r \in PlayRuns, SaveNoteFails(r)
  PROVE  HiringInv'
<1>1. HiringTypeOK'
  <2>1. todo' \in [PlayRuns -> SUBSET Companies] /\ at' \in [PlayRuns -> Companies \cup {NoCompany}]
        /\ playPc' \in [PlayRuns -> Stages]
    BY AfterNoteTypes DEF SaveNoteFails, HiringInv
  <2>2. playFaults' \in 0..MaxPlayFaults
    BY HiringAssumption DEF HiringInv, HiringTypeOK, SaveNoteFails, Fault
  <2> QED
    BY <2>1, <2>2 DEF HiringInv, HiringTypeOK, SaveNoteFails, leadRows
<1>2. SenseStep(r)
  BY DEF HiringInv, HiringTypeOK, SenseStep, Others, InSense, SaveNoteFails, AfterNote, Stage,
    Take, Drop, Release, Move, Fault, Active, leadRows, playLocals, playHistory
<1>3. InHand'
  BY DEF HiringInv, HiringTypeOK, InHand, Holding, SaveNoteFails, AfterNote, Stage, Take, Drop,
    Release, Move, Fault, Active, leadRows, playLocals, playHistory
<1>4. FactsKept'
  BY DEF HiringInv, HiringTypeOK, InHand, Holding, Solo, FactsKept, InSense, SaveNoteFails,
    AfterNote, Stage, Take, Drop, Release, Move, Fault, Active, leadRows, playLocals, playHistory
<1>5. NotesSaved'
  <2>1. SUFFICES ASSUME ~overlapped, ~died, playFaults' = 1
                 PROVE  NotesSaved'
    BY DEF HiringInv, HiringTypeOK, NotesSaved, SaveNoteFails, Fault
  <2>2. playFaults = 0
    BY <2>1 DEF HiringInv, HiringTypeOK, SaveNoteFails, Fault
  <2>3. /\ \A q \in PlayRuns \ {r} : playPc[q] \notin InSense /\ playPc'[q] = playPc[q]
        /\ checkedNote' = checkedNote /\ ownNote' = ownNote /\ jobSignal' = jobSignal /\ playPc[r] = "note"
    BY <2>1, NoteStep DEF HiringInv, HiringTypeOK, Solo, Active, InSense, SaveNoteFails, leadRows
  <2>4. \A c \in Companies : ownNote[r][c] = "kept" => c \in jobSignal \/ at[r] = c
    BY <2>1, <2>2, <2>3 DEF HiringInv, NotesSaved, InSense
  <2>5. \/ playPc'[r] = "keep" /\ at'[r] = at[r]
        \/ playPc'[r] = "check" /\ ownNote[r][at[r]] # "kept"
    BY NoteStep DEF HiringInv, HiringTypeOK, SaveNoteFails
  <2>6. \A c \in Companies : ownNote[r][c] = "kept" => c \in jobSignal \/ (playPc'[r] = "keep" /\ at'[r] = c)
    BY <2>4, <2>5
  <2> QED
    BY <2>1, <2>3, <2>5, <2>6 DEF NotesSaved, InSense
<1> QED
  BY <1>1, <1>2, <1>3, <1>4, <1>5, SenseKeepsLeads DEF HiringInv

(* The company's row is committed.                                         *)
LEMMA KeepCompanyKeeps ==
  ASSUME HiringInv, NEW r \in PlayRuns, KeepCompany(r)
  PROVE  HiringInv'
<1>1. HiringTypeOK'
  BY HiringAssumption DEF HiringInv, HiringTypeOK, InHand, Holding, Stages, KeepCompany, Stage,
    Take, Drop, Release, Move, Fault, Active, leadRows, playLocals, playHistory
<1>2. SenseStep(r)
  BY DEF HiringInv, HiringTypeOK, SenseStep, Others, InSense, KeepCompany, Stage, Take, Drop,
    Release, Move, Fault, Active, leadRows, playLocals, playHistory
<1>3. InHand'
  BY DEF HiringInv, HiringTypeOK, InHand, Holding, KeepCompany, Stage, Take, Drop, Release, Move,
    Fault, Active, leadRows, playLocals, playHistory
<1>4. FactsKept'
  BY DEF HiringInv, HiringTypeOK, InHand, Holding, Solo, FactsKept, InSense, KeepCompany, Stage,
    Take, Drop, Release, Move, Fault, Active, leadRows, playLocals, playHistory
<1>5. NotesSaved'
  BY DEF HiringInv, HiringTypeOK, InHand, Holding, Solo, NotesSaved, InSense, KeepCompany, Stage,
    Take, Drop, Release, Move, Fault, Active, leadRows, playLocals, playHistory
<1> QED
  BY <1>1, <1>2, <1>3, <1>4, <1>5, SenseKeepsLeads DEF HiringInv

(* So are its postings: what was noted as kept is saved.                   *)
LEMMA KeepPostingsKeeps ==
  ASSUME HiringInv, NEW r \in PlayRuns, KeepPostings(r)
  PROVE  HiringInv'
<1>1. HiringTypeOK'
  BY HiringAssumption DEF HiringInv, HiringTypeOK, InHand, Holding, Stages, KeepPostings, Stage,
    Take, Drop, Release, Move, Fault, Active, leadRows, playLocals, playHistory
<1>2. SenseStep(r)
  BY DEF HiringInv, HiringTypeOK, SenseStep, Others, InSense, KeepPostings, Stage, Take, Drop,
    Release, Move, Fault, Active, leadRows, playLocals, playHistory
<1>3. InHand'
  BY DEF HiringInv, HiringTypeOK, InHand, Holding, KeepPostings, Stage, Take, Drop, Release,
    Move, Fault, Active, leadRows, playLocals, playHistory
<1>4. FactsKept'
  BY DEF HiringInv, HiringTypeOK, InHand, Holding, Solo, FactsKept, InSense, KeepPostings, Stage,
    Take, Drop, Release, Move, Fault, Active, leadRows, playLocals, playHistory
<1>5. NotesSaved'
  BY DEF HiringInv, HiringTypeOK, InHand, Holding, Solo, NotesSaved, InSense, KeepPostings,
    Stage, Take, Drop, Release, Move, Fault, Active, leadRows, playLocals, playHistory
<1> QED
  BY <1>1, <1>2, <1>3, <1>4, <1>5, SenseKeepsLeads DEF HiringInv

(* One of the two commits fails, and the copy forgets the company.         *)
LEMMA KeepFailsKeeps ==
  ASSUME HiringInv, NEW r \in PlayRuns, KeepFails(r)
  PROVE  HiringInv'
<1>1. HiringTypeOK'
  BY HiringAssumption DEF HiringInv, HiringTypeOK, InHand, Holding, Stages, KeepFails, Stage,
    Take, Drop, Release, Move, Fault, Active, leadRows, playLocals, playHistory
<1>2. SenseStep(r)
  BY DEF HiringInv, HiringTypeOK, SenseStep, Others, InSense, KeepFails, Stage, Take, Drop,
    Release, Move, Fault, Active, leadRows, playLocals, playHistory
<1>3. InHand'
  BY DEF HiringInv, HiringTypeOK, InHand, Holding, KeepFails, Stage, Take, Drop, Release, Move,
    Fault, Active, leadRows, playLocals, playHistory
<1>4. FactsKept'
  BY DEF HiringInv, HiringTypeOK, InHand, Holding, Solo, FactsKept, InSense, KeepFails, Stage,
    Take, Drop, Release, Move, Fault, Active, leadRows, playLocals, playHistory
<1>5. NotesSaved'
  BY DEF HiringInv, HiringTypeOK, InHand, Holding, Solo, NotesSaved, InSense, KeepFails, Stage,
    Take, Drop, Release, Move, Fault, Active, leadRows, playLocals, playHistory
<1> QED
  BY <1>1, <1>2, <1>3, <1>4, <1>5, SenseKeepsLeads DEF HiringInv

(* The note is written once more at the end.                               *)
LEMMA SaveSenseKeeps ==
  ASSUME HiringInv, NEW r \in PlayRuns, SaveSense(r)
  PROVE  HiringInv'
<1>1. HiringTypeOK'
  BY HiringAssumption DEF HiringInv, HiringTypeOK, InHand, Holding, Stages, SaveSense, Stage,
    Take, Drop, Release, Move, Fault, Active, leadRows, playLocals, playHistory
<1>2. SenseStep(r)
  BY DEF HiringInv, HiringTypeOK, SenseStep, Others, InSense, SaveSense, Stage, Take, Drop,
    Release, Move, Fault, Active, leadRows, playLocals, playHistory
<1>3. InHand'
  BY DEF HiringInv, HiringTypeOK, InHand, Holding, SaveSense, Stage, Take, Drop, Release, Move,
    Fault, Active, leadRows, playLocals, playHistory
<1>4. FactsKept'
  <2>1. SUFFICES ASSUME ~overlapped, playFaults = 0
                 PROVE  FactsKept'
    BY DEF FactsKept, SaveSense, playHistory
  <2>2. /\ \A q \in PlayRuns : playPc'[q] \notin InSense /\ playPc[q] # "note"
        /\ factsPaid' = factsPaid /\ checkedNote' = ownNote[r] /\ playPc[r] = "save"
    BY <2>1 DEF HiringInv, HiringTypeOK, Solo, Active, InSense, SaveSense, Stage, playHistory
  <2>3. \A c \in Companies : factsPaid[c] <= 1 /\ (factsPaid[c] = 0 \/ ownNote[r][c] # "none")
    BY <2>1, <2>2 DEF HiringInv, FactsKept, InSense
  <2> QED
    BY <2>2, <2>3 DEF FactsKept, InSense
<1>5. NotesSaved'
  BY DEF HiringInv, HiringTypeOK, InHand, Holding, Solo, NotesSaved, InSense, SaveSense, Stage,
    Take, Drop, Release, Move, Fault, Active, leadRows, playLocals, playHistory
<1> QED
  BY <1>1, <1>2, <1>3, <1>4, <1>5, SenseKeepsLeads DEF HiringInv

(* That write fails: the shared note is as the last one left it.           *)
LEMMA SaveSenseFailsKeeps ==
  ASSUME HiringInv, NEW r \in PlayRuns, SaveSenseFails(r)
  PROVE  HiringInv'
<1>1. HiringTypeOK'
  BY HiringAssumption DEF HiringInv, HiringTypeOK, InHand, Holding, Stages, SaveSenseFails,
    Stage, Take, Drop, Release, Move, Fault, Active, leadRows, playLocals, playHistory
<1>2. SenseStep(r)
  BY DEF HiringInv, HiringTypeOK, SenseStep, Others, InSense, SaveSenseFails, Stage, Take, Drop,
    Release, Move, Fault, Active, leadRows, playLocals, playHistory
<1>3. InHand'
  BY DEF HiringInv, HiringTypeOK, InHand, Holding, SaveSenseFails, Stage, Take, Drop, Release,
    Move, Fault, Active, leadRows, playLocals, playHistory
<1>4. FactsKept'
  BY DEF HiringInv, HiringTypeOK, InHand, Holding, Solo, FactsKept, InSense, SaveSenseFails,
    Stage, Take, Drop, Release, Move, Fault, Active, leadRows, playLocals, playHistory
<1>5. NotesSaved'
  BY DEF HiringInv, HiringTypeOK, InHand, Holding, Solo, NotesSaved, InSense, SaveSenseFails,
    Stage, Take, Drop, Release, Move, Fault, Active, leadRows, playLocals, playHistory
<1> QED
  BY <1>1, <1>2, <1>3, <1>4, <1>5, SenseKeepsLeads DEF HiringInv

(* Facts are bought for a company on the list: it had none.                *)
LEMMA BuyFactsKeeps ==
  ASSUME HiringInv, NEW r \in PlayRuns, NEW c \in Companies, BuyFacts(r, c)
  PROVE  HiringInv'
<1>1. HiringTypeOK'
  BY HiringAssumption DEF HiringInv, HiringTypeOK, InHand, Holding, Stages, BuyFacts, Stage,
    Take, Drop, Release, Move, Fault, Active, leadRows, playLocals, playHistory
<1>2. SenseStep(r)
  BY DEF HiringInv, HiringTypeOK, SenseStep, Others, InSense, BuyFacts, Stage, Take, Drop,
    Release, Move, Fault, Active, leadRows, playLocals, playHistory
<1>3. InHand'
  BY DEF HiringInv, HiringTypeOK, InHand, Holding, BuyFacts, Stage, Take, Drop, Release, Move,
    Fault, Active, leadRows, playLocals, playHistory
<1>4. FactsKept'
  <2>1. SUFFICES ASSUME ~overlapped, playFaults = 0
                 PROVE  FactsKept'
    BY DEF FactsKept, BuyFacts
  <2>2. /\ \A q \in PlayRuns \ {r} : playPc[q] \notin InSense /\ playPc'[q] = playPc[q]
        /\ factsPaid' = [factsPaid EXCEPT ![c] = @ + 1] /\ checkedNote' = checkedNote
        /\ playPc[r] = "check" /\ playPc'[r] = "note" /\ c \in todo[r] /\ todo' = todo /\ at'[r] = c
    BY <2>1 DEF HiringInv, HiringTypeOK, Solo, Active, InSense, BuyFacts, Stage, Take, leadRows
  <2>3. factsPaid[c] = 0 /\ \A b \in todo[r] : factsPaid[b] = 0
    BY <2>1, <2>2 DEF HiringInv, FactsKept
  <2>4. /\ factsPaid'[c] = 1 /\ \A b \in Companies \ {c} : factsPaid'[b] = factsPaid[b]
        /\ todo[r] \subseteq Companies
    BY <2>2, <2>3 DEF HiringInv, HiringTypeOK
  <2>5. \A b \in Companies : factsPaid[b] <= 1 /\ (factsPaid[b] = 0 \/ checkedNote[b] # "none")
    BY <2>1, <2>2 DEF HiringInv, FactsKept, InSense
  <2>6. /\ ownNote'[r][c] # "none"
        /\ \A b \in Companies : checkedNote[b] # "none" => ownNote'[r][b] # "none"
    <3>1. \A b \in Companies : checkedNote[b] # "none" => ownNote[r][b] # "none"
      BY <2>1, <2>2 DEF HiringInv, FactsKept, InSense
    <3>2. ownNote'[r][c] # "none" /\ \A b \in Companies \ {c} : ownNote'[r][b] = ownNote[r][b]
      BY DEF HiringInv, HiringTypeOK, BuyFacts
    <3> QED
      BY <3>1, <3>2
  <2>7. \A b \in Companies :
          /\ factsPaid'[b] <= 1
          /\ factsPaid'[b] = 0 \/ checkedNote'[b] # "none" \/ b = c
    BY <2>2, <2>4, <2>5
  <2>8. \A b \in todo'[r] : b = at'[r] \/ factsPaid'[b] = 0
    BY <2>2, <2>3, <2>4
  <2> QED
    BY <2>2, <2>6, <2>7, <2>8 DEF FactsKept, InSense
<1>5. NotesSaved'
  BY DEF HiringInv, HiringTypeOK, InHand, Holding, Solo, NotesSaved, InSense, BuyFacts, Stage,
    Take, Drop, Release, Move, Fault, Active, leadRows, playLocals, playHistory
<1> QED
  BY <1>1, <1>2, <1>3, <1>4, <1>5, SenseKeepsLeads DEF HiringInv

(* A lookup fails.                                                         *)
LEMMA FactsFailKeeps ==
  ASSUME HiringInv, NEW r \in PlayRuns, NEW c \in Companies, FactsFail(r, c)
  PROVE  HiringInv'
<1>1. HiringTypeOK'
  BY HiringAssumption DEF HiringInv, HiringTypeOK, InHand, Holding, Stages, FactsFail, Stage,
    Take, Drop, Release, Move, Fault, Active, leadRows, playLocals, playHistory
<1>2. SenseStep(r)
  BY DEF HiringInv, HiringTypeOK, SenseStep, Others, InSense, FactsFail, Stage, Take, Drop,
    Release, Move, Fault, Active, leadRows, playLocals, playHistory
<1>3. InHand'
  BY DEF HiringInv, HiringTypeOK, InHand, Holding, FactsFail, Stage, Take, Drop, Release, Move,
    Fault, Active, leadRows, playLocals, playHistory
<1>4. FactsKept'
  BY DEF HiringInv, HiringTypeOK, InHand, Holding, Solo, FactsKept, InSense, FactsFail, Stage,
    Take, Drop, Release, Move, Fault, Active, leadRows, playLocals, playHistory
<1>5. NotesSaved'
  BY DEF HiringInv, HiringTypeOK, InHand, Holding, Solo, NotesSaved, InSense, FactsFail, Stage,
    Take, Drop, Release, Move, Fault, Active, leadRows, playLocals, playHistory
<1> QED
  BY <1>1, <1>2, <1>3, <1>4, <1>5, SenseKeepsLeads DEF HiringInv

(* Ingest lists the companies without a lead.                              *)
LEMMA ReadNewSignalsKeeps ==
  ASSUME HiringInv, NEW r \in PlayRuns, ReadNewSignals(r)
  PROVE  HiringInv'
<1>1. HiringTypeOK'
  BY HiringAssumption DEF HiringInv, HiringTypeOK, LeadStates, InHand, Holding, Stages,
    ReadNewSignals, Reads, Stage, Take, Drop, Release, Move, Fault, Active, leadRows, playLocals,
    playHistory
<1>2. LeadStep(r)
  BY DEF HiringInv, HiringTypeOK, LeadStep, Others, InSense, ReadNewSignals, Reads, Stage, Take,
    Drop, Release, Move, Fault, Active, leadRows, playLocals, playHistory
<1>3. InHand'
  BY DEF HiringInv, HiringTypeOK, InHand, Holding, ReadNewSignals, Reads, Stage, Take, Drop,
    Release, Move, Fault, Active, leadRows, playLocals, playHistory
<1>4. ~overlapped => ListedIn(r)'
  BY DEF HiringInv, HiringTypeOK, InHand, Holding, Listed, ListedIn, Looking, Drafting,
    ReadNewSignals, Reads, Stage, Take, Drop, Release, Move, Fault, Active, leadRows, playLocals,
    playHistory
<1>5. StillStep(r)
  BY DEF StillStep, ReadNewSignals, Reads, Stage, Take, Drop, Release, Move, Fault, Active,
    leadRows, playLocals, playHistory
<1> QED
  BY <1>1, <1>2, <1>3, <1>4, <1>5, LeadKeepsNotes, StillKeeps DEF HiringInv

(* They become leads.                                                      *)
LEMMA InsertLeadsKeeps ==
  ASSUME HiringInv, NEW r \in PlayRuns, InsertLeads(r)
  PROVE  HiringInv'
<1>1. HiringTypeOK'
  BY HiringAssumption DEF HiringInv, HiringTypeOK, LeadStates, InHand, Holding, Stages,
    InsertLeads, Stage, Take, Drop, Release, Move, Fault, Active, leadRows, playLocals,
    playHistory
<1>2. LeadStep(r)
  BY DEF HiringInv, HiringTypeOK, LeadStep, Others, InSense, InsertLeads, Stage, Take, Drop,
    Release, Move, Fault, Active, leadRows, playLocals, playHistory
<1>3. InHand'
  BY DEF HiringInv, HiringTypeOK, InHand, Holding, InsertLeads, Stage, Take, Drop, Release, Move,
    Fault, Active, leadRows, playLocals, playHistory
<1>4. ~overlapped => ListedIn(r)'
  BY DEF HiringInv, HiringTypeOK, InHand, Holding, Listed, ListedIn, Looking, Drafting,
    InsertLeads, Stage, Take, Drop, Release, Move, Fault, Active, leadRows, playLocals,
    playHistory
<1>5. Texts'
  BY DEF HiringInv, HiringTypeOK, InHand, Holding, Listed, ListedIn, Looking, Drafting, Texts,
    TextsOf, InsertLeads, Stage, Take, Drop, Release, Move, Fault, Active, leadRows, playLocals,
    playHistory
<1>6. RefusalWaits'
  BY DEF HiringInv, HiringTypeOK, InHand, Holding, Listed, ListedIn, Looking, Drafting,
    RefusalWaits, InsertLeads, Stage, Take, Drop, Release, Move, Fault, Active, leadRows,
    playLocals, playHistory
<1>7. ContactsKept'
  BY DEF HiringInv, HiringTypeOK, InHand, Holding, Solo, ContactsKept, InsertLeads, Stage, Take,
    Drop, Release, Move, Fault, Active, leadRows, playLocals, playHistory
<1> QED
  BY <1>1, <1>2, <1>3, <1>4, <1>5, <1>6, <1>7, LeadKeepsNotes DEF HiringInv

(* One was a lead already.                                                 *)
LEMMA InsertConflictsKeeps ==
  ASSUME HiringInv, NEW r \in PlayRuns, InsertConflicts(r)
  PROVE  HiringInv'
<1>1. HiringTypeOK'
  BY HiringAssumption DEF HiringInv, HiringTypeOK, LeadStates, InHand, Holding, Stages,
    InsertConflicts, Leaves, Stage, Take, Drop, Release, Move, Fault, Active, leadRows,
    playLocals, playHistory
<1>2. LeadStep(r)
  BY DEF HiringInv, HiringTypeOK, LeadStep, Others, InSense, InsertConflicts, Leaves, Stage,
    Take, Drop, Release, Move, Fault, Active, leadRows, playLocals, playHistory
<1>3. InHand'
  BY DEF HiringInv, HiringTypeOK, InHand, Holding, InsertConflicts, Leaves, Stage, Take, Drop,
    Release, Move, Fault, Active, leadRows, playLocals, playHistory
<1>4. ~overlapped => ListedIn(r)'
  BY DEF HiringInv, HiringTypeOK, InHand, Holding, Listed, ListedIn, Looking, Drafting,
    InsertConflicts, Leaves, Stage, Take, Drop, Release, Move, Fault, Active, leadRows,
    playLocals, playHistory
<1>5. StillStep(r)
  BY DEF StillStep, InsertConflicts, Leaves, Stage, Take, Drop, Release, Move, Fault, Active,
    leadRows, playLocals, playHistory
<1> QED
  BY <1>1, <1>2, <1>3, <1>4, <1>5, LeadKeepsNotes, StillKeeps DEF HiringInv

(* Qualify lists the new leads.                                            *)
LEMMA ReadSignalsKeeps ==
  ASSUME HiringInv, NEW r \in PlayRuns, ReadSignals(r)
  PROVE  HiringInv'
<1>1. HiringTypeOK'
  BY HiringAssumption DEF HiringInv, HiringTypeOK, LeadStates, InHand, Holding, Stages,
    ReadSignals, Reads, WithState, Stage, Take, Drop, Release, Move, Fault, Active, leadRows,
    playLocals, playHistory
<1>2. LeadStep(r)
  BY DEF HiringInv, HiringTypeOK, LeadStep, Others, InSense, ReadSignals, Reads, WithState,
    Stage, Take, Drop, Release, Move, Fault, Active, leadRows, playLocals, playHistory
<1>3. InHand'
  BY DEF HiringInv, HiringTypeOK, InHand, Holding, ReadSignals, Reads, WithState, Stage, Take,
    Drop, Release, Move, Fault, Active, leadRows, playLocals, playHistory
<1>4. ~overlapped => ListedIn(r)'
  BY DEF HiringInv, HiringTypeOK, InHand, Holding, Listed, ListedIn, Looking, Drafting,
    ReadSignals, Reads, WithState, Stage, Take, Drop, Release, Move, Fault, Active, leadRows,
    playLocals, playHistory
<1>5. StillStep(r)
  BY DEF StillStep, ReadSignals, Reads, WithState, Stage, Take, Drop, Release, Move, Fault,
    Active, leadRows, playLocals, playHistory
<1> QED
  BY <1>1, <1>2, <1>3, <1>4, <1>5, LeadKeepsNotes, StillKeeps DEF HiringInv

(* A verdict takes a new lead forward.                                     *)
LEMMA JudgeKeeps ==
  ASSUME HiringInv, NEW r \in PlayRuns, NEW c \in Companies, Judge(r, c)
  PROVE  HiringInv'
<1>1. HiringTypeOK'
  BY HiringAssumption DEF HiringInv, HiringTypeOK, LeadStates, InHand, Holding, Stages, Judge,
    Stage, Take, Drop, Release, Move, Fault, Active, leadRows, playLocals, playHistory
<1>2. LeadStep(r)
  BY DEF HiringInv, HiringTypeOK, LeadStep, Others, InSense, Judge, Stage, Take, Drop, Release,
    Move, Fault, Active, leadRows, playLocals, playHistory
<1>3. InHand'
  BY DEF HiringInv, HiringTypeOK, InHand, Holding, Judge, Stage, Take, Drop, Release, Move,
    Fault, Active, leadRows, playLocals, playHistory
<1>4. ~overlapped => ListedIn(r)'
  BY DEF HiringInv, HiringTypeOK, InHand, Holding, Listed, ListedIn, Looking, Drafting, Judge,
    Stage, Take, Drop, Release, Move, Fault, Active, leadRows, playLocals, playHistory
<1>5. Texts'
  BY DEF HiringInv, HiringTypeOK, InHand, Holding, Listed, ListedIn, Looking, Drafting, Texts,
    TextsOf, Judge, Stage, Take, Drop, Release, Move, Fault, Active, leadRows, playLocals,
    playHistory
<1>6. RefusalWaits'
  BY DEF HiringInv, HiringTypeOK, InHand, Holding, Listed, ListedIn, Looking, Drafting,
    RefusalWaits, Judge, Stage, Take, Drop, Release, Move, Fault, Active, leadRows, playLocals,
    playHistory
<1>7. ContactsKept'
  BY DEF HiringInv, HiringTypeOK, InHand, Holding, Solo, ContactsKept, Judge, Stage, Take, Drop,
    Release, Move, Fault, Active, leadRows, playLocals, playHistory
<1> QED
  BY <1>1, <1>2, <1>3, <1>4, <1>5, <1>6, <1>7, LeadKeepsNotes DEF HiringInv

(* A lead is not judged.                                                   *)
LEMMA JudgeFailsKeeps ==
  ASSUME HiringInv, NEW r \in PlayRuns, NEW c \in Companies, JudgeFails(r, c)
  PROVE  HiringInv'
<1>1. HiringTypeOK'
  BY HiringAssumption DEF HiringInv, HiringTypeOK, LeadStates, InHand, Holding, Stages,
    JudgeFails, Reads, Stage, Take, Drop, Release, Move, Fault, Active, leadRows, playLocals,
    playHistory
<1>2. LeadStep(r)
  BY DEF HiringInv, HiringTypeOK, LeadStep, Others, InSense, JudgeFails, Reads, Stage, Take,
    Drop, Release, Move, Fault, Active, leadRows, playLocals, playHistory
<1>3. InHand'
  BY DEF HiringInv, HiringTypeOK, InHand, Holding, JudgeFails, Reads, Stage, Take, Drop, Release,
    Move, Fault, Active, leadRows, playLocals, playHistory
<1>4. ~overlapped => ListedIn(r)'
  BY DEF HiringInv, HiringTypeOK, InHand, Holding, Listed, ListedIn, Looking, Drafting,
    JudgeFails, Reads, Stage, Take, Drop, Release, Move, Fault, Active, leadRows, playLocals,
    playHistory
<1>5. StillStep(r)
  BY DEF StillStep, JudgeFails, Reads, Stage, Take, Drop, Release, Move, Fault, Active, leadRows,
    playLocals, playHistory
<1> QED
  BY <1>1, <1>2, <1>3, <1>4, <1>5, LeadKeepsNotes, StillKeeps DEF HiringInv

(* The judging ends.                                                       *)
LEMMA JudgeEndsKeeps ==
  ASSUME HiringInv, NEW r \in PlayRuns, JudgeEnds(r)
  PROVE  HiringInv'
<1>1. HiringTypeOK'
  BY HiringAssumption DEF HiringInv, HiringTypeOK, LeadStates, InHand, Holding, Stages,
    JudgeEnds, Leaves, Stage, Take, Drop, Release, Move, Fault, Active, leadRows, playLocals,
    playHistory
<1>2. LeadStep(r)
  BY DEF HiringInv, HiringTypeOK, LeadStep, Others, InSense, JudgeEnds, Leaves, Stage, Take,
    Drop, Release, Move, Fault, Active, leadRows, playLocals, playHistory
<1>3. InHand'
  BY DEF HiringInv, HiringTypeOK, InHand, Holding, JudgeEnds, Leaves, Stage, Take, Drop, Release,
    Move, Fault, Active, leadRows, playLocals, playHistory
<1>4. ~overlapped => ListedIn(r)'
  BY DEF HiringInv, HiringTypeOK, InHand, Holding, Listed, ListedIn, Looking, Drafting,
    JudgeEnds, Leaves, Stage, Take, Drop, Release, Move, Fault, Active, leadRows, playLocals,
    playHistory
<1>5. StillStep(r)
  BY DEF StillStep, JudgeEnds, Leaves, Stage, Take, Drop, Release, Move, Fault, Active, leadRows,
    playLocals, playHistory
<1> QED
  BY <1>1, <1>2, <1>3, <1>4, <1>5, LeadKeepsNotes, StillKeeps DEF HiringInv

(* The contact stage lists the qualified leads.                            *)
LEMMA ReadQualifiedKeeps ==
  ASSUME HiringInv, NEW r \in PlayRuns, ReadQualified(r)
  PROVE  HiringInv'
<1>1. HiringTypeOK'
  BY HiringAssumption DEF HiringInv, HiringTypeOK, LeadStates, InHand, Holding, Stages,
    ReadQualified, Reads, WithState, Stage, Take, Drop, Release, Move, Fault, Active, leadRows,
    playLocals, playHistory
<1>2. LeadStep(r)
  BY DEF HiringInv, HiringTypeOK, LeadStep, Others, InSense, ReadQualified, Reads, WithState,
    Stage, Take, Drop, Release, Move, Fault, Active, leadRows, playLocals, playHistory
<1>3. InHand'
  BY DEF HiringInv, HiringTypeOK, InHand, Holding, ReadQualified, Reads, WithState, Stage, Take,
    Drop, Release, Move, Fault, Active, leadRows, playLocals, playHistory
<1>4. ~overlapped => ListedIn(r)'
  BY DEF HiringInv, HiringTypeOK, InHand, Holding, Listed, ListedIn, Looking, Drafting,
    ReadQualified, Reads, WithState, Stage, Take, Drop, Release, Move, Fault, Active, leadRows,
    playLocals, playHistory
<1>5. StillStep(r)
  BY DEF StillStep, ReadQualified, Reads, WithState, Stage, Take, Drop, Release, Move, Fault,
    Active, leadRows, playLocals, playHistory
<1> QED
  BY <1>1, <1>2, <1>3, <1>4, <1>5, LeadKeepsNotes, StillKeeps DEF HiringInv

(* The batch buys only for companies without a contact, one each.          *)
LEMMA SearchPeopleKeeps ==
  ASSUME HiringInv, NEW r \in PlayRuns, SearchPeople(r)
  PROVE  HiringInv'
<1>1. HiringTypeOK'
  BY HiringAssumption DEF HiringInv, HiringTypeOK, LeadStates, InHand, Holding, Stages,
    SearchPeople, Batchable, Stage, Take, Drop, Release, Move, Fault, Active, leadRows,
    playLocals, playHistory
<1>2. LeadStep(r)
  BY DEF HiringInv, HiringTypeOK, LeadStep, Others, InSense, SearchPeople, Batchable, Stage,
    Take, Drop, Release, Move, Fault, Active, leadRows, playLocals, playHistory
<1>3. InHand'
  BY DEF HiringInv, HiringTypeOK, InHand, Holding, SearchPeople, Batchable, Stage, Take, Drop,
    Release, Move, Fault, Active, leadRows, playLocals, playHistory
<1>4. ~overlapped => ListedIn(r)'
  BY DEF HiringInv, HiringTypeOK, InHand, Holding, Listed, ListedIn, Looking, Drafting,
    SearchPeople, Batchable, Stage, Take, Drop, Release, Move, Fault, Active, leadRows,
    playLocals, playHistory
<1>5. Texts'
  BY DEF HiringInv, HiringTypeOK, InHand, Holding, Listed, ListedIn, Looking, Drafting, Texts,
    TextsOf, SearchPeople, Batchable, Stage, Take, Drop, Release, Move, Fault, Active, leadRows,
    playLocals, playHistory
<1>6. RefusalWaits'
  BY DEF HiringInv, HiringTypeOK, InHand, Holding, Listed, ListedIn, Looking, Drafting,
    RefusalWaits, SearchPeople, Batchable, Stage, Take, Drop, Release, Move, Fault, Active,
    leadRows, playLocals, playHistory
<1>7. ContactsKept'
  <2>1. SUFFICES ASSUME ~overlapped, playFaults = 0
                 PROVE  ContactsKept'
    BY DEF ContactsKept, SearchPeople
  <2>2. \A q \in PlayRuns : playPc[q] # "bought"
    BY <2>1 DEF HiringInv, Solo, Active, SearchPeople, Stage
  <2>3. \A c \in Companies : contactPaid[c] <= 1 /\ (contactPaid[c] = 0 \/ c \in contactRow)
    BY <2>1, <2>2 DEF HiringInv, ContactsKept
  <2>4. PICK got \in SUBSET Batchable(r) :
          /\ contactRow' = contactRow \cup got
          /\ contactPaid' = [c \in Companies |-> contactPaid[c] + (IF c \in got THEN 1 ELSE 0)]
    BY DEF SearchPeople
  <2>5. \A c \in got : c \in Companies /\ c \notin contactRow
    BY <2>4 DEF Batchable, HiringInv, HiringTypeOK
  <2>6. ASSUME NEW c \in Companies
        PROVE  contactPaid'[c] <= 1 /\ (contactPaid'[c] = 0 \/ c \in contactRow')
    <3>1. CASE c \in got
      BY <2>3, <2>4, <2>5, <3>1
    <3>2. CASE c \notin got
      <4>1. contactPaid[c] \in Nat
        BY DEF HiringInv, HiringTypeOK
      <4> QED
        BY <2>3, <2>4, <3>2, <4>1
    <3> QED
      BY <3>1, <3>2
  <2> QED
    BY <2>6 DEF ContactsKept
<1> QED
  BY <1>1, <1>2, <1>3, <1>4, <1>5, <1>6, <1>7, LeadKeepsNotes DEF HiringInv

(* A known contact is taken.                                               *)
LEMMA ReuseKeeps ==
  ASSUME HiringInv, NEW r \in PlayRuns, NEW c \in Companies, Reuse(r, c)
  PROVE  HiringInv'
<1>1. HiringTypeOK'
  BY HiringAssumption DEF HiringInv, HiringTypeOK, LeadStates, InHand, Holding, Stages, Reuse,
    Stage, Take, Drop, Release, Move, Fault, Active, leadRows, playLocals, playHistory
<1>2. LeadStep(r)
  BY DEF HiringInv, HiringTypeOK, LeadStep, Others, InSense, Reuse, Stage, Take, Drop, Release,
    Move, Fault, Active, leadRows, playLocals, playHistory
<1>3. InHand'
  BY DEF HiringInv, HiringTypeOK, InHand, Holding, Reuse, Stage, Take, Drop, Release, Move,
    Fault, Active, leadRows, playLocals, playHistory
<1>4. ~overlapped => ListedIn(r)'
  BY DEF HiringInv, HiringTypeOK, InHand, Holding, Listed, ListedIn, Looking, Drafting, Reuse,
    Stage, Take, Drop, Release, Move, Fault, Active, leadRows, playLocals, playHistory
<1>5. StillStep(r)
  BY DEF StillStep, Reuse, Stage, Take, Drop, Release, Move, Fault, Active, leadRows, playLocals,
    playHistory
<1> QED
  BY <1>1, <1>2, <1>3, <1>4, <1>5, LeadKeepsNotes, StillKeeps DEF HiringInv

(* Only LinkedIn's batch finds nobody.                                     *)
LEMMA MarkMissingKeeps ==
  ASSUME HiringInv, NEW r \in PlayRuns, NEW c \in Companies, MarkMissing(r, c)
  PROVE  HiringInv'
<1>1. HiringTypeOK'
  BY HiringAssumption DEF HiringInv, HiringTypeOK, LeadStates, InHand, Holding, Stages,
    MarkMissing, Stage, Take, Drop, Release, Move, Fault, Active, leadRows, playLocals,
    playHistory
<1>2. LeadStep(r)
  BY DEF HiringInv, HiringTypeOK, LeadStep, Others, InSense, MarkMissing, Stage, Take, Drop,
    Release, Move, Fault, Active, leadRows, playLocals, playHistory
<1>3. InHand'
  BY DEF HiringInv, HiringTypeOK, InHand, Holding, MarkMissing, Stage, Take, Drop, Release, Move,
    Fault, Active, leadRows, playLocals, playHistory
<1>4. ~overlapped => ListedIn(r)'
  BY DEF HiringInv, HiringTypeOK, InHand, Holding, Listed, ListedIn, Looking, Drafting,
    MarkMissing, Stage, Take, Drop, Release, Move, Fault, Active, leadRows, playLocals,
    playHistory
<1>5. Texts'
  BY DEF HiringInv, HiringTypeOK, InHand, Holding, Listed, ListedIn, Looking, Drafting, Texts,
    TextsOf, MarkMissing, Stage, Take, Drop, Release, Move, Fault, Active, leadRows, playLocals,
    playHistory
<1>6. RefusalWaits'
  BY DEF HiringInv, HiringTypeOK, InHand, Holding, Listed, ListedIn, Looking, Drafting,
    RefusalWaits, MarkMissing, Stage, Take, Drop, Release, Move, Fault, Active, leadRows,
    playLocals, playHistory
<1>7. ContactsKept'
  BY DEF HiringInv, HiringTypeOK, InHand, Holding, Solo, ContactsKept, MarkMissing, Stage, Take,
    Drop, Release, Move, Fault, Active, leadRows, playLocals, playHistory
<1> QED
  BY <1>1, <1>2, <1>3, <1>4, <1>5, <1>6, <1>7, LeadKeepsNotes DEF HiringInv

(* The finder buys for a company without a contact.                        *)
LEMMA FinderBuysKeeps ==
  ASSUME HiringInv, NEW r \in PlayRuns, NEW c \in Companies, FinderBuys(r, c)
  PROVE  HiringInv'
<1>1. HiringTypeOK'
  BY HiringAssumption DEF HiringInv, HiringTypeOK, LeadStates, InHand, Holding, Stages,
    FinderBuys, NeedsFinder, Stage, Take, Drop, Release, Move, Fault, Active, leadRows,
    playLocals, playHistory
<1>2. LeadStep(r)
  BY DEF HiringInv, HiringTypeOK, LeadStep, Others, InSense, FinderBuys, NeedsFinder, Stage,
    Take, Drop, Release, Move, Fault, Active, leadRows, playLocals, playHistory
<1>3. InHand'
  BY DEF HiringInv, HiringTypeOK, InHand, Holding, FinderBuys, NeedsFinder, Stage, Take, Drop,
    Release, Move, Fault, Active, leadRows, playLocals, playHistory
<1>4. ~overlapped => ListedIn(r)'
  BY DEF HiringInv, HiringTypeOK, InHand, Holding, Listed, ListedIn, Looking, Drafting,
    FinderBuys, NeedsFinder, Stage, Take, Drop, Release, Move, Fault, Active, leadRows,
    playLocals, playHistory
<1>5. Texts'
  BY DEF HiringInv, HiringTypeOK, InHand, Holding, Listed, ListedIn, Looking, Drafting, Texts,
    TextsOf, FinderBuys, NeedsFinder, Stage, Take, Drop, Release, Move, Fault, Active, leadRows,
    playLocals, playHistory
<1>6. RefusalWaits'
  BY DEF HiringInv, HiringTypeOK, InHand, Holding, Listed, ListedIn, Looking, Drafting,
    RefusalWaits, FinderBuys, NeedsFinder, Stage, Take, Drop, Release, Move, Fault, Active,
    leadRows, playLocals, playHistory
<1>7. ContactsKept'
  <2>1. SUFFICES ASSUME ~overlapped, playFaults = 0
                 PROVE  ContactsKept'
    BY DEF ContactsKept, FinderBuys
  <2>2. \A q \in PlayRuns : playPc[q] # "bought"
    BY <2>1 DEF HiringInv, Solo, Active, FinderBuys, Stage
  <2>3. \A b \in Companies : contactPaid[b] <= 1 /\ (contactPaid[b] = 0 \/ b \in contactRow)
    BY <2>1, <2>2 DEF HiringInv, ContactsKept
  <2>4. /\ c \notin contactRow /\ contactRow' = contactRow /\ playPc'[r] = "bought" /\ at'[r] = c
        /\ contactPaid'[c] = contactPaid[c] + 1 /\ \A b \in Companies \ {c} : contactPaid'[b] = contactPaid[b]
    BY DEF HiringInv, HiringTypeOK, FinderBuys, NeedsFinder, Stage, Take, leadRows
  <2>5. contactPaid'[c] = 1
    BY <2>3, <2>4
  <2> QED
    BY <2>3, <2>4, <2>5 DEF ContactsKept
<1> QED
  BY <1>1, <1>2, <1>3, <1>4, <1>5, <1>6, <1>7, LeadKeepsNotes DEF HiringInv

(* The contact in hand goes on record.                                     *)
LEMMA MakeContactKeeps ==
  ASSUME HiringInv, NEW r \in PlayRuns, MakeContact(r)
  PROVE  HiringInv'
<1>1. HiringTypeOK'
  BY HiringAssumption DEF HiringInv, HiringTypeOK, LeadStates, InHand, Holding, Stages,
    MakeContact, Stage, Take, Drop, Release, Move, Fault, Active, leadRows, playLocals,
    playHistory
<1>2. LeadStep(r)
  BY DEF HiringInv, HiringTypeOK, LeadStep, Others, InSense, MakeContact, Stage, Take, Drop,
    Release, Move, Fault, Active, leadRows, playLocals, playHistory
<1>3. InHand'
  BY DEF HiringInv, HiringTypeOK, InHand, Holding, MakeContact, Stage, Take, Drop, Release, Move,
    Fault, Active, leadRows, playLocals, playHistory
<1>4. ~overlapped => ListedIn(r)'
  BY DEF HiringInv, HiringTypeOK, InHand, Holding, Listed, ListedIn, Looking, Drafting,
    MakeContact, Stage, Take, Drop, Release, Move, Fault, Active, leadRows, playLocals,
    playHistory
<1>5. Texts'
  BY DEF HiringInv, HiringTypeOK, InHand, Holding, Listed, ListedIn, Looking, Drafting, Texts,
    TextsOf, MakeContact, Stage, Take, Drop, Release, Move, Fault, Active, leadRows, playLocals,
    playHistory
<1>6. RefusalWaits'
  BY DEF HiringInv, HiringTypeOK, InHand, Holding, Listed, ListedIn, Looking, Drafting,
    RefusalWaits, MakeContact, Stage, Take, Drop, Release, Move, Fault, Active, leadRows,
    playLocals, playHistory
<1>7. ContactsKept'
  BY DEF HiringInv, HiringTypeOK, InHand, Holding, Solo, ContactsKept, MakeContact, Stage, Take,
    Drop, Release, Move, Fault, Active, leadRows, playLocals, playHistory
<1> QED
  BY <1>1, <1>2, <1>3, <1>4, <1>5, <1>6, <1>7, LeadKeepsNotes DEF HiringInv

(* The finder finds nobody: it was not refused.                            *)
LEMMA FinderFindsNobodyKeeps ==
  ASSUME HiringInv, NEW r \in PlayRuns, NEW c \in Companies, FinderFindsNobody(r, c)
  PROVE  HiringInv'
<1>1. HiringTypeOK'
  BY HiringAssumption DEF HiringInv, HiringTypeOK, LeadStates, InHand, Holding, Stages,
    FinderFindsNobody, NeedsFinder, Stage, Take, Drop, Release, Move, Fault, Active, leadRows,
    playLocals, playHistory
<1>2. LeadStep(r)
  BY DEF HiringInv, HiringTypeOK, LeadStep, Others, InSense, FinderFindsNobody, NeedsFinder,
    Stage, Take, Drop, Release, Move, Fault, Active, leadRows, playLocals, playHistory
<1>3. InHand'
  BY DEF HiringInv, HiringTypeOK, InHand, Holding, FinderFindsNobody, NeedsFinder, Stage, Take,
    Drop, Release, Move, Fault, Active, leadRows, playLocals, playHistory
<1>4. ~overlapped => ListedIn(r)'
  BY DEF HiringInv, HiringTypeOK, InHand, Holding, Listed, ListedIn, Looking, Drafting,
    FinderFindsNobody, NeedsFinder, Stage, Take, Drop, Release, Move, Fault, Active, leadRows,
    playLocals, playHistory
<1>5. Texts'
  BY DEF HiringInv, HiringTypeOK, InHand, Holding, Listed, ListedIn, Looking, Drafting, Texts,
    TextsOf, FinderFindsNobody, NeedsFinder, Stage, Take, Drop, Release, Move, Fault, Active,
    leadRows, playLocals, playHistory
<1>6. RefusalWaits'
  BY DEF HiringInv, HiringTypeOK, InHand, Holding, Listed, ListedIn, Looking, Drafting,
    RefusalWaits, FinderFindsNobody, NeedsFinder, Stage, Take, Drop, Release, Move, Fault,
    Active, leadRows, playLocals, playHistory
<1>7. ContactsKept'
  BY DEF HiringInv, HiringTypeOK, InHand, Holding, Solo, ContactsKept, FinderFindsNobody,
    NeedsFinder, Stage, Take, Drop, Release, Move, Fault, Active, leadRows, playLocals,
    playHistory
<1> QED
  BY <1>1, <1>2, <1>3, <1>4, <1>5, <1>6, <1>7, LeadKeepsNotes DEF HiringInv

(* A refused lead stays qualified.                                         *)
LEMMA FinderRefusedKeeps ==
  ASSUME HiringInv, NEW r \in PlayRuns, NEW c \in Companies, FinderRefused(r, c)
  PROVE  HiringInv'
<1>1. HiringTypeOK'
  BY HiringAssumption DEF HiringInv, HiringTypeOK, LeadStates, InHand, Holding, Stages,
    FinderRefused, NeedsFinder, Stage, Take, Drop, Release, Move, Fault, Active, leadRows,
    playLocals, playHistory
<1>2. LeadStep(r)
  BY DEF HiringInv, HiringTypeOK, LeadStep, Others, InSense, FinderRefused, NeedsFinder, Stage,
    Take, Drop, Release, Move, Fault, Active, leadRows, playLocals, playHistory
<1>3. InHand'
  BY DEF HiringInv, HiringTypeOK, InHand, Holding, FinderRefused, NeedsFinder, Stage, Take, Drop,
    Release, Move, Fault, Active, leadRows, playLocals, playHistory
<1>4. ~overlapped => ListedIn(r)'
  BY DEF HiringInv, HiringTypeOK, InHand, Holding, Listed, ListedIn, Looking, Drafting,
    FinderRefused, NeedsFinder, Stage, Take, Drop, Release, Move, Fault, Active, leadRows,
    playLocals, playHistory
<1>5. Texts'
  BY DEF HiringInv, HiringTypeOK, InHand, Holding, Listed, ListedIn, Looking, Drafting, Texts,
    TextsOf, FinderRefused, NeedsFinder, Stage, Take, Drop, Release, Move, Fault, Active,
    leadRows, playLocals, playHistory
<1>6. RefusalWaits'
  BY DEF HiringInv, HiringTypeOK, InHand, Holding, Listed, ListedIn, Looking, Drafting,
    RefusalWaits, FinderRefused, NeedsFinder, Stage, Take, Drop, Release, Move, Fault, Active,
    leadRows, playLocals, playHistory
<1>7. ContactsKept'
  BY DEF HiringInv, HiringTypeOK, InHand, Holding, Solo, ContactsKept, FinderRefused,
    NeedsFinder, Stage, Take, Drop, Release, Move, Fault, Active, leadRows, playLocals,
    playHistory
<1> QED
  BY <1>1, <1>2, <1>3, <1>4, <1>5, <1>6, <1>7, LeadKeepsNotes DEF HiringInv

(* The finder raises: the next lead.                                       *)
LEMMA FinderRaisesKeeps ==
  ASSUME HiringInv, NEW r \in PlayRuns, NEW c \in Companies, FinderRaises(r, c)
  PROVE  HiringInv'
<1>1. HiringTypeOK'
  BY HiringAssumption DEF HiringInv, HiringTypeOK, LeadStates, InHand, Holding, Stages,
    FinderRaises, NeedsFinder, Reads, Stage, Take, Drop, Release, Move, Fault, Active, leadRows,
    playLocals, playHistory
<1>2. LeadStep(r)
  BY DEF HiringInv, HiringTypeOK, LeadStep, Others, InSense, FinderRaises, NeedsFinder, Reads,
    Stage, Take, Drop, Release, Move, Fault, Active, leadRows, playLocals, playHistory
<1>3. InHand'
  BY DEF HiringInv, HiringTypeOK, InHand, Holding, FinderRaises, NeedsFinder, Reads, Stage, Take,
    Drop, Release, Move, Fault, Active, leadRows, playLocals, playHistory
<1>4. ~overlapped => ListedIn(r)'
  BY DEF HiringInv, HiringTypeOK, InHand, Holding, Listed, ListedIn, Looking, Drafting,
    FinderRaises, NeedsFinder, Reads, Stage, Take, Drop, Release, Move, Fault, Active, leadRows,
    playLocals, playHistory
<1>5. StillStep(r)
  BY DEF StillStep, FinderRaises, NeedsFinder, Reads, Stage, Take, Drop, Release, Move, Fault,
    Active, leadRows, playLocals, playHistory
<1> QED
  BY <1>1, <1>2, <1>3, <1>4, <1>5, LeadKeepsNotes, StillKeeps DEF HiringInv

(* A qualified lead has no composed draft, so one more version is none     *)
(* too many.                                                               *)
LEMMA WriteOpportunityKeeps ==
  ASSUME HiringInv, NEW r \in PlayRuns, WriteOpportunity(r)
  PROVE  HiringInv'
<1>1. HiringTypeOK'
  BY HiringAssumption DEF HiringInv, HiringTypeOK, LeadStates, InHand, Holding, Stages,
    WriteOpportunity, Stage, Take, Drop, Release, Move, Fault, Active, leadRows, playLocals,
    playHistory
<1>2. LeadStep(r)
  BY DEF HiringInv, HiringTypeOK, LeadStep, Others, InSense, WriteOpportunity, Stage, Take, Drop,
    Release, Move, Fault, Active, leadRows, playLocals, playHistory
<1>3. InHand'
  BY DEF HiringInv, HiringTypeOK, InHand, Holding, WriteOpportunity, Stage, Take, Drop, Release,
    Move, Fault, Active, leadRows, playLocals, playHistory
<1>4. ~overlapped => ListedIn(r)'
  BY DEF HiringInv, HiringTypeOK, InHand, Holding, Listed, ListedIn, Looking, Drafting,
    WriteOpportunity, Stage, Take, Drop, Release, Move, Fault, Active, leadRows, playLocals,
    playHistory
<1>5. Texts'
  BY DEF HiringInv, HiringTypeOK, InHand, Holding, Listed, ListedIn, Looking, Drafting, Texts,
    TextsOf, WriteOpportunity, Stage, Take, Drop, Release, Move, Fault, Active, leadRows,
    playLocals, playHistory
<1>6. RefusalWaits'
  BY DEF HiringInv, HiringTypeOK, InHand, Holding, Listed, ListedIn, Looking, Drafting,
    RefusalWaits, WriteOpportunity, Stage, Take, Drop, Release, Move, Fault, Active, leadRows,
    playLocals, playHistory
<1>7. ContactsKept'
  BY DEF HiringInv, HiringTypeOK, InHand, Holding, Solo, ContactsKept, WriteOpportunity, Stage,
    Take, Drop, Release, Move, Fault, Active, leadRows, playLocals, playHistory
<1> QED
  BY <1>1, <1>2, <1>3, <1>4, <1>5, <1>6, <1>7, LeadKeepsNotes DEF HiringInv

(* The lead fails.                                                         *)
LEMMA WriteFailsKeeps ==
  ASSUME HiringInv, NEW r \in PlayRuns, WriteFails(r)
  PROVE  HiringInv'
<1>1. HiringTypeOK'
  BY HiringAssumption DEF HiringInv, HiringTypeOK, LeadStates, InHand, Holding, Stages,
    WriteFails, Stage, Take, Drop, Release, Move, Fault, Active, leadRows, playLocals,
    playHistory
<1>2. LeadStep(r)
  BY DEF HiringInv, HiringTypeOK, LeadStep, Others, InSense, WriteFails, Stage, Take, Drop,
    Release, Move, Fault, Active, leadRows, playLocals, playHistory
<1>3. InHand'
  BY DEF HiringInv, HiringTypeOK, InHand, Holding, WriteFails, Stage, Take, Drop, Release, Move,
    Fault, Active, leadRows, playLocals, playHistory
<1>4. ~overlapped => ListedIn(r)'
  BY DEF HiringInv, HiringTypeOK, InHand, Holding, Listed, ListedIn, Looking, Drafting,
    WriteFails, Stage, Take, Drop, Release, Move, Fault, Active, leadRows, playLocals,
    playHistory
<1>5. Texts'
  BY DEF HiringInv, HiringTypeOK, InHand, Holding, Listed, ListedIn, Looking, Drafting, Texts,
    TextsOf, WriteFails, Stage, Take, Drop, Release, Move, Fault, Active, leadRows, playLocals,
    playHistory
<1>6. RefusalWaits'
  BY DEF HiringInv, HiringTypeOK, InHand, Holding, Listed, ListedIn, Looking, Drafting,
    RefusalWaits, WriteFails, Stage, Take, Drop, Release, Move, Fault, Active, leadRows,
    playLocals, playHistory
<1>7. ContactsKept'
  BY DEF HiringInv, HiringTypeOK, InHand, Holding, Solo, ContactsKept, WriteFails, Stage, Take,
    Drop, Release, Move, Fault, Active, leadRows, playLocals, playHistory
<1> QED
  BY <1>1, <1>2, <1>3, <1>4, <1>5, <1>6, <1>7, LeadKeepsNotes DEF HiringInv

(* The lead has its contact.                                               *)
LEMMA LeadFoundKeeps ==
  ASSUME HiringInv, NEW r \in PlayRuns, LeadFound(r)
  PROVE  HiringInv'
<1>1. HiringTypeOK'
  BY HiringAssumption DEF HiringInv, HiringTypeOK, LeadStates, InHand, Holding, Stages,
    LeadFound, Stage, Take, Drop, Release, Move, Fault, Active, leadRows, playLocals, playHistory
<1>2. LeadStep(r)
  BY DEF HiringInv, HiringTypeOK, LeadStep, Others, InSense, LeadFound, Stage, Take, Drop,
    Release, Move, Fault, Active, leadRows, playLocals, playHistory
<1>3. InHand'
  BY DEF HiringInv, HiringTypeOK, InHand, Holding, LeadFound, Stage, Take, Drop, Release, Move,
    Fault, Active, leadRows, playLocals, playHistory
<1>4. ~overlapped => ListedIn(r)'
  BY DEF HiringInv, HiringTypeOK, InHand, Holding, Listed, ListedIn, Looking, Drafting,
    LeadFound, Stage, Take, Drop, Release, Move, Fault, Active, leadRows, playLocals, playHistory
<1>5. Texts'
  BY DEF HiringInv, HiringTypeOK, InHand, Holding, Listed, ListedIn, Looking, Drafting, Texts,
    TextsOf, LeadFound, Stage, Take, Drop, Release, Move, Fault, Active, leadRows, playLocals,
    playHistory
<1>6. RefusalWaits'
  BY DEF HiringInv, HiringTypeOK, InHand, Holding, Listed, ListedIn, Looking, Drafting,
    RefusalWaits, LeadFound, Stage, Take, Drop, Release, Move, Fault, Active, leadRows,
    playLocals, playHistory
<1>7. ContactsKept'
  BY DEF HiringInv, HiringTypeOK, InHand, Holding, Solo, ContactsKept, LeadFound, Stage, Take,
    Drop, Release, Move, Fault, Active, leadRows, playLocals, playHistory
<1> QED
  BY <1>1, <1>2, <1>3, <1>4, <1>5, <1>6, <1>7, LeadKeepsNotes DEF HiringInv

(* The contact stage ends.                                                 *)
LEMMA ContactsEndKeeps ==
  ASSUME HiringInv, NEW r \in PlayRuns, ContactsEnd(r)
  PROVE  HiringInv'
<1>1. HiringTypeOK'
  BY HiringAssumption DEF HiringInv, HiringTypeOK, LeadStates, InHand, Holding, Stages,
    ContactsEnd, Leaves, Stage, Take, Drop, Release, Move, Fault, Active, leadRows, playLocals,
    playHistory
<1>2. LeadStep(r)
  BY DEF HiringInv, HiringTypeOK, LeadStep, Others, InSense, ContactsEnd, Leaves, Stage, Take,
    Drop, Release, Move, Fault, Active, leadRows, playLocals, playHistory
<1>3. InHand'
  BY DEF HiringInv, HiringTypeOK, InHand, Holding, ContactsEnd, Leaves, Stage, Take, Drop,
    Release, Move, Fault, Active, leadRows, playLocals, playHistory
<1>4. ~overlapped => ListedIn(r)'
  BY DEF HiringInv, HiringTypeOK, InHand, Holding, Listed, ListedIn, Looking, Drafting,
    ContactsEnd, Leaves, Stage, Take, Drop, Release, Move, Fault, Active, leadRows, playLocals,
    playHistory
<1>5. StillStep(r)
  BY DEF StillStep, ContactsEnd, Leaves, Stage, Take, Drop, Release, Move, Fault, Active,
    leadRows, playLocals, playHistory
<1> QED
  BY <1>1, <1>2, <1>3, <1>4, <1>5, LeadKeepsNotes, StillKeeps DEF HiringInv

(* The draft stage lists the leads with a contact.                         *)
LEMMA ReadFoundKeeps ==
  ASSUME HiringInv, NEW r \in PlayRuns, ReadFound(r)
  PROVE  HiringInv'
<1>1. HiringTypeOK'
  BY HiringAssumption DEF HiringInv, HiringTypeOK, LeadStates, InHand, Holding, Stages,
    ReadFound, Reads, WithState, Stage, Take, Drop, Release, Move, Fault, Active, leadRows,
    playLocals, playHistory
<1>2. LeadStep(r)
  BY DEF HiringInv, HiringTypeOK, LeadStep, Others, InSense, ReadFound, Reads, WithState, Stage,
    Take, Drop, Release, Move, Fault, Active, leadRows, playLocals, playHistory
<1>3. InHand'
  BY DEF HiringInv, HiringTypeOK, InHand, Holding, ReadFound, Reads, WithState, Stage, Take,
    Drop, Release, Move, Fault, Active, leadRows, playLocals, playHistory
<1>4. ~overlapped => ListedIn(r)'
  BY DEF HiringInv, HiringTypeOK, InHand, Holding, Listed, ListedIn, Looking, Drafting,
    ReadFound, Reads, WithState, Stage, Take, Drop, Release, Move, Fault, Active, leadRows,
    playLocals, playHistory
<1>5. StillStep(r)
  BY DEF StillStep, ReadFound, Reads, WithState, Stage, Take, Drop, Release, Move, Fault, Active,
    leadRows, playLocals, playHistory
<1> QED
  BY <1>1, <1>2, <1>3, <1>4, <1>5, LeadKeepsNotes, StillKeeps DEF HiringInv

(* It takes up the latest version of one.                                  *)
LEMMA StartDraftKeeps ==
  ASSUME HiringInv, NEW r \in PlayRuns, NEW c \in Companies, StartDraft(r, c)
  PROVE  HiringInv'
<1>1. HiringTypeOK'
  BY HiringAssumption DEF HiringInv, HiringTypeOK, LeadStates, InHand, Holding, Stages,
    StartDraft, Stage, Take, Drop, Release, Move, Fault, Active, leadRows, playLocals,
    playHistory
<1>2. LeadStep(r)
  BY DEF HiringInv, HiringTypeOK, LeadStep, Others, InSense, StartDraft, Stage, Take, Drop,
    Release, Move, Fault, Active, leadRows, playLocals, playHistory
<1>3. InHand'
  BY DEF HiringInv, HiringTypeOK, InHand, Holding, StartDraft, Stage, Take, Drop, Release, Move,
    Fault, Active, leadRows, playLocals, playHistory
<1>4. ~overlapped => ListedIn(r)'
  BY DEF HiringInv, HiringTypeOK, InHand, Holding, Listed, ListedIn, Looking, Drafting,
    StartDraft, Stage, Take, Drop, Release, Move, Fault, Active, leadRows, playLocals,
    playHistory
<1>5. StillStep(r)
  BY DEF StillStep, StartDraft, Stage, Take, Drop, Release, Move, Fault, Active, leadRows,
    playLocals, playHistory
<1> QED
  BY <1>1, <1>2, <1>3, <1>4, <1>5, LeadKeepsNotes, StillKeeps DEF HiringInv

(* Only that version is composed.                                          *)
LEMMA ComposeKeeps ==
  ASSUME HiringInv, NEW r \in PlayRuns, Compose(r)
  PROVE  HiringInv'
<1>1. HiringTypeOK'
  <2>1. PICK content \in {"text", "empty"} : drafts' = [drafts EXCEPT ![at[r]][version[r]] = content]
    BY DEF Compose
  <2> DEFINE d == drafts[at[r]]
             S == {"none", "empty", "text"}
  <2>2. at[r] \in Companies /\ d \in Seq(S)
    BY DEF HiringInv, HiringTypeOK, InHand, Holding, Compose, Stage
  <2>3. d \in [1..Len(d) -> S] /\ Len(d) \in Nat
    BY <2>2
  <2>4. [d EXCEPT ![version[r]] = content] \in [1..Len(d) -> S]
    BY <2>1, <2>3
  <2>5. [d EXCEPT ![version[r]] = content] \in Seq(S)
    BY <2>3, <2>4
  <2>6. drafts' = [drafts EXCEPT ![at[r]] = [d EXCEPT ![version[r]] = content]]
    BY <2>1
  <2>7. drafts' \in [Companies -> Seq(S)]
    BY <2>2, <2>5, <2>6 DEF HiringInv, HiringTypeOK
  <2>8. playPc' \in [PlayRuns -> Stages]
    BY DEF HiringInv, HiringTypeOK, Compose, Stage, Stages
  <2> QED
    BY <2>7, <2>8 DEF HiringInv, HiringTypeOK, Compose, playLocals, playHistory
<1>2. LeadStep(r)
  BY DEF HiringInv, HiringTypeOK, LeadStep, Others, InSense, Compose, Stage, Take, Drop, Release,
    Move, Fault, Active, leadRows, playLocals, playHistory
<1>3. InHand'
  BY DEF HiringInv, HiringTypeOK, InHand, Holding, Compose, Stage, Take, Drop, Release, Move,
    Fault, Active, leadRows, playLocals, playHistory
<1>4. ~overlapped => ListedIn(r)'
  BY DEF HiringInv, HiringTypeOK, InHand, Holding, Listed, ListedIn, Looking, Drafting, Compose,
    Stage, Take, Drop, Release, Move, Fault, Active, leadRows, playLocals, playHistory
<1>5. Texts'
  BY DEF HiringInv, HiringTypeOK, InHand, Holding, Listed, ListedIn, Looking, Drafting, Texts,
    TextsOf, Compose, Stage, Take, Drop, Release, Move, Fault, Active, leadRows, playLocals,
    playHistory
<1>6. RefusalWaits'
  BY DEF HiringInv, HiringTypeOK, InHand, Holding, Listed, ListedIn, Looking, Drafting,
    RefusalWaits, Compose, Stage, Take, Drop, Release, Move, Fault, Active, leadRows, playLocals,
    playHistory
<1>7. ContactsKept'
  BY DEF HiringInv, HiringTypeOK, InHand, Holding, Solo, ContactsKept, Compose, Stage, Take,
    Drop, Release, Move, Fault, Active, leadRows, playLocals, playHistory
<1> QED
  BY <1>1, <1>2, <1>3, <1>4, <1>5, <1>6, <1>7, LeadKeepsNotes DEF HiringInv

(* The draft was composed meanwhile.                                       *)
LEMMA ComposeConflictsKeeps ==
  ASSUME HiringInv, NEW r \in PlayRuns, ComposeConflicts(r)
  PROVE  HiringInv'
<1>1. HiringTypeOK'
  BY HiringAssumption DEF HiringInv, HiringTypeOK, LeadStates, InHand, Holding, Stages,
    ComposeConflicts, Stage, Take, Drop, Release, Move, Fault, Active, leadRows, playLocals,
    playHistory
<1>2. LeadStep(r)
  BY DEF HiringInv, HiringTypeOK, LeadStep, Others, InSense, ComposeConflicts, Stage, Take, Drop,
    Release, Move, Fault, Active, leadRows, playLocals, playHistory
<1>3. InHand'
  BY DEF HiringInv, HiringTypeOK, InHand, Holding, ComposeConflicts, Stage, Take, Drop, Release,
    Move, Fault, Active, leadRows, playLocals, playHistory
<1>4. ~overlapped => ListedIn(r)'
  BY DEF HiringInv, HiringTypeOK, InHand, Holding, Listed, ListedIn, Looking, Drafting,
    ComposeConflicts, Stage, Take, Drop, Release, Move, Fault, Active, leadRows, playLocals,
    playHistory
<1>5. StillStep(r)
  BY DEF StillStep, ComposeConflicts, Stage, Take, Drop, Release, Move, Fault, Active, leadRows,
    playLocals, playHistory
<1> QED
  BY <1>1, <1>2, <1>3, <1>4, <1>5, LeadKeepsNotes, StillKeeps DEF HiringInv

(* Only a text makes the lead drafted.                                     *)
LEMMA LinkDraftKeeps ==
  ASSUME HiringInv, NEW r \in PlayRuns, LinkDraft(r)
  PROVE  HiringInv'
<1>1. HiringTypeOK'
  BY HiringAssumption DEF HiringInv, HiringTypeOK, LeadStates, InHand, Holding, Stages,
    LinkDraft, Stage, Take, Drop, Release, Move, Fault, Active, leadRows, playLocals, playHistory
<1>2. LeadStep(r)
  BY DEF HiringInv, HiringTypeOK, LeadStep, Others, InSense, LinkDraft, Stage, Take, Drop,
    Release, Move, Fault, Active, leadRows, playLocals, playHistory
<1>3. InHand'
  BY DEF HiringInv, HiringTypeOK, InHand, Holding, LinkDraft, Stage, Take, Drop, Release, Move,
    Fault, Active, leadRows, playLocals, playHistory
<1>4. ~overlapped => ListedIn(r)'
  BY DEF HiringInv, HiringTypeOK, InHand, Holding, Listed, ListedIn, Looking, Drafting,
    LinkDraft, Stage, Take, Drop, Release, Move, Fault, Active, leadRows, playLocals, playHistory
<1>5. Texts'
  BY DEF HiringInv, HiringTypeOK, InHand, Holding, Listed, ListedIn, Looking, Drafting, Texts,
    TextsOf, LinkDraft, Stage, Take, Drop, Release, Move, Fault, Active, leadRows, playLocals,
    playHistory
<1>6. RefusalWaits'
  BY DEF HiringInv, HiringTypeOK, InHand, Holding, Listed, ListedIn, Looking, Drafting,
    RefusalWaits, LinkDraft, Stage, Take, Drop, Release, Move, Fault, Active, leadRows,
    playLocals, playHistory
<1>7. ContactsKept'
  BY DEF HiringInv, HiringTypeOK, InHand, Holding, Solo, ContactsKept, LinkDraft, Stage, Take,
    Drop, Release, Move, Fault, Active, leadRows, playLocals, playHistory
<1> QED
  BY <1>1, <1>2, <1>3, <1>4, <1>5, <1>6, <1>7, LeadKeepsNotes DEF HiringInv

(* The run ends.                                                           *)
LEMMA PlayEndsKeeps ==
  ASSUME HiringInv, NEW r \in PlayRuns, PlayEnds(r)
  PROVE  HiringInv'
<1>1. HiringTypeOK'
  BY HiringAssumption DEF HiringInv, HiringTypeOK, LeadStates, InHand, Holding, Stages, PlayEnds,
    Leaves, Stage, Take, Drop, Release, Move, Fault, Active, leadRows, playLocals, playHistory
<1>2. LeadStep(r)
  BY DEF HiringInv, HiringTypeOK, LeadStep, Others, InSense, PlayEnds, Leaves, Stage, Take, Drop,
    Release, Move, Fault, Active, leadRows, playLocals, playHistory
<1>3. InHand'
  BY DEF HiringInv, HiringTypeOK, InHand, Holding, PlayEnds, Leaves, Stage, Take, Drop, Release,
    Move, Fault, Active, leadRows, playLocals, playHistory
<1>4. ~overlapped => ListedIn(r)'
  BY DEF HiringInv, HiringTypeOK, InHand, Holding, Listed, ListedIn, Looking, Drafting, PlayEnds,
    Leaves, Stage, Take, Drop, Release, Move, Fault, Active, leadRows, playLocals, playHistory
<1>5. StillStep(r)
  BY DEF StillStep, PlayEnds, Leaves, Stage, Take, Drop, Release, Move, Fault, Active, leadRows,
    playLocals, playHistory
<1> QED
  BY <1>1, <1>2, <1>3, <1>4, <1>5, LeadKeepsNotes, StillKeeps DEF HiringInv

(* A run starts: it is alone, or overlapped is set.                        *)
LEMMA StartPlayKeeps ==
  ASSUME HiringInv, NEW r \in PlayRuns, StartPlay(r)
  PROVE  HiringInv'
<1>1. HiringTypeOK'
  BY DEF HiringInv, HiringTypeOK, Stages, StartPlay, Stage, leadRows, playLocals
<1>2. /\ playPc[r] = "idle" /\ playPc' = [playPc EXCEPT ![r] = "search"]
      /\ \A q \in PlayRuns \ {r} : playPc'[q] = playPc[q]
      /\ playPc'[r] = "search" /\ UNCHANGED <<leadState, checkedNote, companyRow, jobSignal, contactRow, drafts>>
      /\ UNCHANGED <<linkedinOnly, todo, ownNote, at, version, harvested>>
      /\ UNCHANGED <<factsPaid, contactPaid, refused, playFaults, died>>
      /\ ~overlapped' => ~overlapped /\ \A q \in PlayRuns : ~Active(q)
  BY DEF HiringInv, HiringTypeOK, StartPlay, Stage, leadRows, playLocals
<1>3. InHand' /\ Solo'
  BY <1>2 DEF HiringInv, InHand, Holding, Solo, Active
<1>4. Listed' /\ Texts' /\ RefusalWaits'
  BY <1>2 DEF HiringInv, Listed, ListedIn, Looking, Drafting, Texts, TextsOf, RefusalWaits
<1>5. ContactsKept'
  BY <1>2 DEF HiringInv, ContactsKept, Active
<1>6. FactsKept'
  BY <1>2 DEF HiringInv, FactsKept, Active, InSense
<1>7. NotesSaved'
  BY <1>2 DEF HiringInv, NotesSaved, Active, InSense
<1> QED
  BY <1>1, <1>3, <1>4, <1>5, <1>6, <1>7 DEF HiringInv

(* A halted run.                                                           *)
LEMMA PlayHaltedKeeps ==
  ASSUME HiringInv, NEW r \in PlayRuns, PlayHalted(r)
  PROVE  HiringInv'
<1>1. HiringTypeOK'
  BY DEF HiringInv, HiringTypeOK, Stages, PlayHalted, Stage, leadRows, playLocals, playHistory
<1>2. /\ playPc[r] = "idle" /\ playPc'[r] = "done"
      /\ \A q \in PlayRuns \ {r} : playPc'[q] = playPc[q]
      /\ UNCHANGED <<leadState, checkedNote, companyRow, jobSignal, contactRow, drafts>>
      /\ UNCHANGED <<linkedinOnly, todo, ownNote, at, version, harvested>>
      /\ UNCHANGED <<factsPaid, contactPaid, refused, overlapped, playFaults, died>>
  BY DEF HiringInv, HiringTypeOK, PlayHalted, Stage, leadRows, playLocals, playHistory
<1>3. InHand' /\ Solo'
  BY <1>2 DEF HiringInv, InHand, Holding, Solo, Active
<1>4. Listed' /\ Texts' /\ RefusalWaits'
  BY <1>2 DEF HiringInv, Listed, ListedIn, Looking, Drafting, Texts, TextsOf, RefusalWaits
<1>5. ContactsKept'
  BY <1>2 DEF HiringInv, ContactsKept
<1>6. FactsKept'
  BY <1>2 DEF HiringInv, FactsKept, InSense
<1>7. NotesSaved'
  BY <1>2 DEF HiringInv, NotesSaved, InSense
<1> QED
  BY <1>1, <1>3, <1>4, <1>5, <1>6, <1>7 DEF HiringInv

(* A run dies: the fault is counted and nothing is in hand.                *)
LEMMA PlayDiesKeeps ==
  ASSUME HiringInv, NEW r \in PlayRuns, PlayDies(r)
  PROVE  HiringInv'
<1>1. HiringTypeOK'
  BY HiringAssumption DEF HiringInv, HiringTypeOK, Stages, PlayDies, Fault, Take, leadRows
<1>2. /\ playPc'[r] = "done" /\ Active(r)
      /\ \A q \in PlayRuns \ {r} : playPc'[q] = playPc[q] /\ todo'[q] = todo[q] /\ at'[q] = at[q]
      /\ UNCHANGED <<leadState, checkedNote, companyRow, jobSignal, contactRow, drafts>>
      /\ UNCHANGED <<linkedinOnly, ownNote, version, harvested, factsPaid, contactPaid, refused, overlapped>>
      /\ playFaults' # 0 /\ died' = TRUE
  BY DEF HiringInv, HiringTypeOK, PlayDies, Fault, Take, leadRows
<1>3. InHand' /\ Solo'
  BY <1>2 DEF HiringInv, InHand, Holding, Solo, Active
<1>4. Listed' /\ Texts' /\ RefusalWaits'
  BY <1>2 DEF HiringInv, Listed, ListedIn, Looking, Drafting, Texts, TextsOf, RefusalWaits
<1>5. ContactsKept' /\ FactsKept' /\ NotesSaved'
  BY <1>2 DEF ContactsKept, FactsKept, NotesSaved
<1> QED
  BY <1>1, <1>3, <1>4, <1>5 DEF HiringInv

(* Stuttering.                                                             *)
LEMMA HiringStillKeeps == HiringInv /\ UNCHANGED hiringVars => HiringInv'
BY DEF HiringInv, hiringVars, leadRows, playLocals, playHistory, HiringTypeOK, InHand, Solo, Active,
       Listed, ListedIn, Texts, TextsOf, RefusalWaits, ContactsKept, FactsKept, NotesSaved

(* The invariant, from the steps.                                          *)
LEMMA HiringInvHolds == HiringSpec => []HiringInv
<1>1. HiringInit => HiringInv
  <2>1. SUFFICES ASSUME HiringInit PROVE HiringInv
    OBVIOUS
  <2>2. HiringTypeOK
    <3>1. drafts \in [Companies -> Seq({"none", "empty", "text"})]
      <4>1. <<>> \in Seq({"none", "empty", "text"})
        OBVIOUS
      <4> QED
        BY <2>1, <4>1 DEF HiringInit
    <3>2. /\ leadState \in [Companies -> LeadStates] /\ playPc \in [PlayRuns -> Stages]
          /\ checkedNote \in [Companies -> {"none", "kept", "rejected"}]
          /\ ownNote \in [PlayRuns -> [Companies -> {"none", "kept", "rejected"}]]
          /\ harvested \in [PlayRuns -> [Companies -> {"not_asked", "contact", "nobody"}]]
      BY <2>1 DEF HiringInit, LeadStates, Stages, NoNote, NotAsked
    <3>3. playFaults \in 0..MaxPlayFaults
      BY <2>1, HiringAssumption DEF HiringInit
    <3>4. /\ todo \in [PlayRuns -> SUBSET Companies] /\ at \in [PlayRuns -> Companies \cup {NoCompany}]
          /\ version \in [PlayRuns -> Nat] /\ factsPaid \in [Companies -> Nat]
          /\ contactPaid \in [Companies -> Nat]
      BY <2>1 DEF HiringInit
    <3> QED
      BY <2>1, <3>1, <3>2, <3>3, <3>4 DEF HiringInit, HiringTypeOK
  <2>3. InHand /\ Solo /\ Listed /\ Texts /\ RefusalWaits
    BY <2>1 DEF HiringInit, InHand, Holding, Solo, Active, Listed, ListedIn, Looking, Drafting,
                Texts, TextsOf, RefusalWaits, NotAsked
  <2>4. ContactsKept /\ FactsKept /\ NotesSaved
    BY <2>1 DEF HiringInit, ContactsKept, FactsKept, NotesSaved, InSense, NoNote
  <2> QED
    BY <2>2, <2>3, <2>4 DEF HiringInv
<1>2. HiringInv /\ [HiringNext]_hiringVars => HiringInv'
  <2>1. SUFFICES ASSUME HiringInv, HiringNext PROVE HiringInv'
    BY HiringStillKeeps
  <2>2. PICK r \in PlayRuns :
          \/ StartPlay(r) \/ PlayHalted(r) \/ PlayDies(r)
          \/ Sense(r) \/ IngestAndQualify(r) \/ FindContacts(r) \/ DraftMessages(r)
    BY <2>1 DEF HiringNext
  <2>3. CASE StartPlay(r) \/ PlayHalted(r) \/ PlayDies(r)
    BY <2>1, <2>3, StartPlayKeeps, PlayHaltedKeeps, PlayDiesKeeps
  <2>4. CASE Sense(r)
    BY <2>1, <2>4, SearchJobsKeeps, SenseEndsKeeps, SaveNoteKeeps, SaveNoteFailsKeeps,
      KeepCompanyKeeps, KeepPostingsKeeps, KeepFailsKeeps, SaveSenseKeeps, SaveSenseFailsKeeps,
      BuyFactsKeeps, FactsFailKeeps DEF Sense
  <2>5. CASE IngestAndQualify(r)
    BY <2>1, <2>5, ReadNewSignalsKeeps, InsertLeadsKeeps, InsertConflictsKeeps, ReadSignalsKeeps,
      JudgeKeeps, JudgeFailsKeeps, JudgeEndsKeeps DEF IngestAndQualify
  <2>6. CASE FindContacts(r)
    BY <2>1, <2>6, ReadQualifiedKeeps, SearchPeopleKeeps, ReuseKeeps, MarkMissingKeeps,
      FinderBuysKeeps, MakeContactKeeps, FinderFindsNobodyKeeps, FinderRefusedKeeps,
      FinderRaisesKeeps, WriteOpportunityKeeps, WriteFailsKeeps, LeadFoundKeeps, ContactsEndKeeps
      DEF FindContacts
  <2>7. CASE DraftMessages(r)
    BY <2>1, <2>7, ReadFoundKeeps, StartDraftKeeps, ComposeKeeps, ComposeConflictsKeeps,
      LinkDraftKeeps, PlayEndsKeeps DEF DraftMessages
  <2> QED
    BY <2>2, <2>3, <2>4, <2>5, <2>6, <2>7
<1> QED
  BY <1>1, <1>2, PTL DEF HiringSpec

-----------------------------------------------------------------------------
(* The steps that move a lead, and where they take it.                     *)
LEMMA LeadsMove ==
  ASSUME HiringInv, [HiringNext]_hiringVars, ~overlapped, NEW c \in Companies, leadState'[c] # leadState[c]
  PROVE  /\ Rank(leadState[c]) < Rank(leadState'[c])
         /\ leadState'[c] = "drafted" => drafts[c][Len(drafts[c])] = "text"
<1>1. HiringNext
  BY DEF hiringVars, leadRows
<1>2. PICK r \in PlayRuns :
        \/ StartPlay(r) \/ PlayHalted(r) \/ PlayDies(r)
        \/ Sense(r) \/ IngestAndQualify(r) \/ FindContacts(r) \/ DraftMessages(r)
  BY <1>1 DEF HiringNext
<1>3. \/ InsertLeads(r) \/ WriteFails(r) \/ LeadFound(r) \/ LinkDraft(r)
      \/ \E b \in Companies : Judge(r, b) \/ MarkMissing(r, b) \/ FinderFindsNobody(r, b)
  <2>1. ~(StartPlay(r) \/ PlayHalted(r) \/ PlayDies(r))
    BY DEF StartPlay, PlayHalted, PlayDies, leadRows
  <2>2. ~Sense(r)
    BY DEF Sense, SearchJobs, SenseEnds, SaveNote, SaveNoteFails, KeepCompany, KeepPostings, KeepFails,
           SaveSense, SaveSenseFails, BuyFacts, FactsFail, leadRows
  <2>3. ASSUME IngestAndQualify(r) PROVE InsertLeads(r) \/ \E b \in Companies : Judge(r, b)
    BY <2>3 DEF IngestAndQualify, ReadNewSignals, InsertConflicts, ReadSignals, JudgeEnds, JudgeFails,
                Reads, Leaves, leadRows
  <2>4. ASSUME FindContacts(r)
        PROVE  \/ WriteFails(r) \/ LeadFound(r)
               \/ \E b \in Companies : MarkMissing(r, b) \/ FinderFindsNobody(r, b)
    BY <2>4 DEF FindContacts, ReadQualified, SearchPeople, MakeContact, WriteOpportunity, ContactsEnd, Reuse,
                FinderBuys, FinderRefused, FinderRaises, Reads, Leaves, leadRows
  <2>5. ASSUME DraftMessages(r) PROVE LinkDraft(r)
    BY <2>5 DEF DraftMessages, ReadFound, Compose, ComposeConflicts, PlayEnds, StartDraft, Reads, Leaves, leadRows
  <2> QED
    BY <1>2, <2>1, <2>2, <2>3, <2>4, <2>5
<1>4. CASE InsertLeads(r)
  BY <1>4 DEF InsertLeads, HiringInv, HiringTypeOK, Rank
<1>5. CASE WriteFails(r)
  BY <1>5 DEF WriteFails, Stage, Move, HiringInv, HiringTypeOK, InHand, Holding, Listed, ListedIn, Looking, Rank
<1>6. CASE LeadFound(r)
  BY <1>6 DEF LeadFound, Stage, Move, HiringInv, HiringTypeOK, InHand, Holding, Listed, ListedIn, Looking, Rank
<1>7. CASE LinkDraft(r)
  BY <1>7 DEF LinkDraft, Stage, Move, HiringInv, HiringTypeOK, InHand, Holding, Listed, ListedIn, Drafting, Rank
<1>8. ASSUME NEW b \in Companies, Judge(r, b)
      PROVE  Rank(leadState[c]) < Rank(leadState'[c]) /\ leadState'[c] # "drafted"
  BY <1>8 DEF Judge, Stage, Move, HiringInv, HiringTypeOK, Listed, ListedIn, Rank
<1>9. ASSUME NEW b \in Companies, MarkMissing(r, b) \/ FinderFindsNobody(r, b)
      PROVE  Rank(leadState[c]) < Rank(leadState'[c]) /\ leadState'[c] # "drafted"
  BY <1>9 DEF MarkMissing, FinderFindsNobody, NeedsFinder, Stage, Move, HiringInv, HiringTypeOK, Listed,
              ListedIn, Looking, Rank
<1> QED
  BY <1>3, <1>4, <1>5, <1>6, <1>7, <1>8, <1>9

(* Leads only move forward, an empty draft is final, nothing is bought     *)
(* twice, what is noted as kept is saved and a contact gets one text, for  *)
(* any number of runs and companies.                                       *)
THEOREM HiringRulesHold == HiringSpec => HiringRules
<1>1. HiringInv => HiringTypeOK /\ RefusalWaits /\ BoughtOnce /\ KeptIsSaved /\ OneTextPerContact
  <2>1. SUFFICES ASSUME HiringInv PROVE BoughtOnce /\ KeptIsSaved /\ OneTextPerContact
    BY DEF HiringInv
  <2>2. BoughtOnce
    BY <2>1 DEF HiringInv, ContactsKept, FactsKept, BoughtOnce
  <2>3. KeptIsSaved
    <3>1. ~(playFaults > 1) => playFaults <= 1
      BY <2>1 DEF HiringInv, HiringTypeOK
    <3> QED
      BY <2>1, <3>1 DEF HiringInv, NotesSaved, KeptIsSaved, InSense
  <2>4. OneTextPerContact
    <3>1. SUFFICES ASSUME ~overlapped, NEW c \in Companies
                   PROVE  ~(Cardinality({v \in DOMAIN drafts[c] : drafts[c][v] = "text"}) > 1)
      BY DEF OneTextPerContact
    <3> DEFINE T == {v \in DOMAIN drafts[c] : drafts[c][v] = "text"}
    <3>2. T \subseteq {Len(drafts[c])}
      BY <2>1, <3>1 DEF HiringInv, Texts, TextsOf
    <3>3. IsFiniteSet({Len(drafts[c])}) /\ Cardinality({Len(drafts[c])}) = 1
      BY FS_Singleton
    <3>4. IsFiniteSet(T) /\ Cardinality(T) <= 1 /\ Cardinality(T) \in Nat
      BY <3>2, <3>3, FS_Subset, FS_CardinalityType
    <3> QED
      BY <3>4
  <2> QED
    BY <2>2, <2>3, <2>4
<1>2. HiringInv /\ [HiringNext]_hiringVars =>
        [\A c \in Companies :
           leadState'[c] # leadState[c] => Rank(leadState[c]) < Rank(leadState'[c]) \/ overlapped]_hiringVars
  BY LeadsMove
<1>3. HiringInv /\ [HiringNext]_hiringVars =>
        [\A c \in Companies :
           drafts[c] # <<>> /\ drafts[c][Len(drafts[c])] = "empty" /\ ~overlapped
             => leadState'[c] # "drafted"]_hiringVars
  <2>1. SUFFICES ASSUME HiringInv, [HiringNext]_hiringVars, ~overlapped, NEW c \in Companies,
                        leadState'[c] = "drafted"
                 PROVE  drafts[c][Len(drafts[c])] = "text"
    OBVIOUS
  <2>2. CASE leadState'[c] = leadState[c]
    BY <2>1, <2>2 DEF HiringInv, Texts, TextsOf
  <2>3. CASE leadState'[c] # leadState[c]
    BY <2>1, <2>3, LeadsMove
  <2> QED
    BY <2>2, <2>3
<1> QED
  BY <1>1, <1>2, <1>3, HiringInvHolds, PTL DEF HiringRules, LeadMovesForward, EmptyDraftIsFinal, HiringSpec

-----------------------------------------------------------------------------
(* The sourcing route.                                                     *)
(* Rows and records.                                                       *)
ListCursor == [filters : FirmFilters, page : 1..MaxPage, exhausted : BOOLEAN]
SearchOutcomes == {"none", "ok", "empty_suspect", "empty_validated", "budget_blocked", "quality_fail"}
SourcingRun ==
  [pc : FirmSteps, order : Seq(FirmProviders), filters : FirmFilters, page : 1..MaxPage, turns : Nat,
   known : SUBSET Firms, todo : SUBSET Firms, pending : SUBSET Firms, found : SUBSET Firms,
   at : Firms \cup {NoFirm}, from : {"page", "pool"}, need : Nat, made : Nat, rows : BOOLEAN, last : BOOLEAN,
   unsaved : SUBSET (1..MaxPage), outcome : SearchOutcomes, broken : BOOLEAN]
ListPage == [provider : FirmProviders, filters : FirmFilters, page : 1..MaxPage]

RunsTyped == firmRun \in [FirmRuns -> SourcingRun]
TablesTyped ==
  /\ firmLead \in [Firms -> {"absent", "signal", "rejected", "contact_found"}]
  /\ leadToday \subseteq Firms /\ named \subseteq Firms /\ firmRow \subseteq Firms /\ firmContact \subseteq Firms
  /\ poolRow \subseteq Firms /\ poolGiven \subseteq Firms
  /\ strategies \in [Firms -> Nat] /\ offered \in [Firms -> Nat]
RouteTyped ==
  /\ listCursor \in [FirmProviders -> ListCursor] /\ strikes \in [FirmProviders -> 0..BreakAt]
  /\ icpEdition \in 0..MaxIcpEdits
  /\ bought \subseteq ListPage /\ again \subseteq ListPage
  /\ firmsMet \in BOOLEAN /\ firmFaults \in 0..MaxFirmFaults

(* What a run has in hand refers to rows that are there.                   *)
SearchSteps == {"pool", "mark", "judge", "person", "insert", "page", "keep", "industry", "rows", "settle"}
PageSteps == SearchSteps \cup {"end"}
HandOK(rec) ==
  /\ rec.pc \in PageSteps \cup {"search", "route"} => rec.order # <<>>
  /\ rec.pc \in {"mark", "judge", "person", "insert", "promote"} => rec.at \in Firms
  /\ rec.pc \in {"person", "insert"} => rec.at \in firmRow
  /\ rec.pc = "insert" => rec.at \in firmContact
  /\ rec.pending \subseteq firmRow /\ rec.found \subseteq firmContact
  /\ rec.pc \in {"qualify", "promote"} => rec.todo \subseteq firmContact \cap named
  /\ rec.pc = "promote" => rec.at \in firmContact \cap named
HandInv ==
  /\ named \subseteq firmRow
  /\ \A f \in Firms : firmLead[f] \in {"signal", "contact_found"} => f \in firmContact \cap named
  /\ \A r \in FirmRuns : HandOK(firmRun[r])

(* A run that searches alone knows every lead, and finds its keys free.    *)
KnownOK(rec) ==
  /\ ~rec.broken
  /\ rec.pc \in SearchSteps =>
       /\ \A f \in Firms : firmLead[f] # "absent" => f \in rec.known
       /\ rec.pending \subseteq rec.known
  /\ rec.pc \in {"person", "insert"} => firmLead[rec.at] = "absent"
KnownInv == \A r \in FirmRuns : KnownOK(firmRun[r])

(* A pooled company is in one place: not offered, in hand, or delivered.   *)
FromPool(rec) == rec.from = "pool" /\ rec.pc \in {"judge", "person", "insert", "mark"}
PoolOK(rec) ==
  /\ rec.pc \in {"page", "keep", "industry", "rows", "settle", "end"} => rec.from = "page"
  /\ rec.pc = "mark" => rec.from = "pool"
  /\ rec.pc = "pool" \/ FromPool(rec) => rec.todo \cap poolGiven = {}
  /\ FromPool(rec) => rec.at \notin poolGiven \cup rec.todo
OfferedOK(f) ==
  /\ offered[f] <= firmFaults + 1
  /\ offered[f] <= firmFaults \/ f \in poolGiven \/ \E r \in FirmRuns : FromPool(firmRun[r]) /\ firmRun[r].at = f
PoolInv == (\A r \in FirmRuns : PoolOK(firmRun[r])) /\ \A f \in Firms : OfferedOK(f)

(* A lead with a strategy is promoted, or about to be.                     *)
JudgedOK(rec) ==
  /\ rec.pc \in {"qualify", "promote"} => \A f \in rec.todo : firmLead[f] = "signal"
  /\ rec.pc = "promote" => firmLead[rec.at] = "signal" /\ rec.at \notin rec.todo
StrategyOK(f) ==
  /\ strategies[f] <= firmFaults + 1
  /\ \/ strategies[f] <= firmFaults \/ firmLead[f] = "contact_found"
     \/ \E r \in FirmRuns : firmRun[r].pc = "promote" /\ firmRun[r].at = f
StrategyInv == (\A r \in FirmRuns : JudgedOK(firmRun[r])) /\ \A f \in Firms : StrategyOK(f)

(* Filters only narrow.  A page that was bought is behind the cursor of    *)
(* its list, and behind the run that searches; or the death of that run    *)
(* would give it up.                                                       *)
Upto(x, y) == x.edition <= y.edition /\ x.without \subseteq y.without
Behind(b, filters, page) == Upto(b.filters, filters) /\ (b.filters = filters => b.page < page)
Safe(b) ==
  \/ Behind(b, listCursor[b.provider].filters, listCursor[b.provider].page)
  \/ listCursor[b.provider].exhausted /\ Upto(b.filters, listCursor[b.provider].filters)
GivenUp(rec, b) ==
  /\ rec.pc \in PageSteps \ {"pool"} /\ rec.from = "page" /\ b.provider = Head(rec.order)
  /\ \/ b.filters = rec.filters /\ b.page \in rec.unsaved
     \/ BeginsAnew(listCursor[b.provider])
PageOK(rec) ==
  /\ rec.pc \in PageSteps =>
       /\ Upto(rec.filters, FiltersFor(Head(rec.order))) /\ Upto(listCursor[Head(rec.order)].filters, rec.filters)
       /\ \A b \in bought : b.provider = Head(rec.order) =>
            \/ Behind(b, rec.filters, rec.page)
            \/ Upto(b.filters, rec.filters) /\ rec.page = 1 /\ (rec.last \/ rec.pc = "end")
  /\ rec.from = "pool" \/ rec.pc \in {"pool", "page"} => ~rec.last
ListsOK ==
  /\ again = {}
  /\ \A p \in FirmProviders : Upto(listCursor[p].filters, FiltersFor(p))
  /\ ~listCursor["crustdata"].exhausted
BoughtOK == \A b \in bought : Safe(b) \/ \E r \in FirmRuns : GivenUp(firmRun[r], b)
PagesInv == ListsOK /\ BoughtOK /\ \A r \in FirmRuns : PageOK(firmRun[r])

OneSearches == \A q, r \in FirmRuns : Busy(q) /\ Busy(r) => q = r
AloneInv == OneSearches /\ KnownInv /\ PoolInv /\ StrategyInv /\ PagesInv
RowsTyped == TablesTyped /\ RouteTyped
SourcingInv == RunsTyped /\ RowsTyped /\ HandInv /\ (firmsMet \/ AloneInv)

-----------------------------------------------------------------------------
(* A run's record before its first step.                                   *)
LEMMA BlankIs ==
  /\ Blank \in SourcingRun
  /\ Blank.pc = "idle" /\ Blank.order = <<>> /\ Blank.filters = [edition |-> 0, without |-> {}] /\ Blank.page = 1
  /\ Blank.known = {} /\ Blank.todo = {} /\ Blank.pending = {} /\ Blank.found = {} /\ Blank.at = NoFirm
  /\ Blank.from = "page" /\ Blank.last = FALSE /\ Blank.unsaved = {} /\ Blank.broken = FALSE
<1>1. 1 \in 1..MaxPage /\ 0 \in 0..MaxIcpEdits
  BY SourcingAssumption
<1>2. [edition |-> 0, without |-> {}] \in FirmFilters
  BY <1>1 DEF FirmFilters
<1>3. <<>> \in Seq(FirmProviders)
  OBVIOUS
<1> QED
  BY <1>1, <1>2, <1>3 DEF Blank, SourcingRun, FirmSteps, SearchOutcomes

(* One run moves, and no other.                                            *)
Moves(r, rec) ==
  /\ rec \in SourcingRun /\ firmRun' \in [FirmRuns -> SourcingRun]
  /\ firmRun'[r] = rec /\ \A q \in FirmRuns \ {r} : firmRun'[q] = firmRun[q]
(* What Put does, with a run's record.                                     *)
LEMMA PutMoves ==
  ASSUME RunsTyped, NEW r \in FirmRuns, NEW rec \in SourcingRun, Put(r, rec)
  PROVE  Moves(r, rec)
BY DEF RunsTyped, Put, Moves

(* The others are at rest while a run searches alone.                      *)
Quiet(r) == \A q \in FirmRuns \ {r} : firmRun[q].pc \in {"idle", "over"}
(* One run is busy: the others are at rest.                                *)
LEMMA OthersQuiet ==
  ASSUME RunsTyped, OneSearches, NEW r \in FirmRuns, Busy(r)
  PROVE  Quiet(r)
BY DEF RunsTyped, OneSearches, Quiet, Busy

(* A run at rest is within every rule.                                     *)
LEMMA RestingRun ==
  ASSUME NEW rec, rec.pc \in {"idle", "over"}
  PROVE  /\ ~rec.broken => KnownOK(rec)
         /\ PoolOK(rec) /\ JudgedOK(rec) /\ ~FromPool(rec)
         /\ rec.from = "page" => PageOK(rec)
         /\ \A b : ~GivenUp(rec, b)
BY DEF KnownOK, PoolOK, JudgedOK, FromPool, PageOK, GivenUp, SearchSteps, PageSteps

(* What a run's own rules leave to show when it moves.                     *)
LEMMA RunMoves ==
  ASSUME SourcingInv, NEW r \in FirmRuns, NEW rec, Moves(r, rec), firmsMet' \/ Quiet(r), RowsTyped',
         firmRow \subseteq firmRow', firmContact \subseteq firmContact', named \subseteq named', named' \subseteq firmRow',
         \A f \in Firms : firmLead'[f] \in {"signal", "contact_found"} => f \in firmContact' \cap named',
         HandOK(rec)', firmsMet => firmsMet',
         ~firmsMet' => KnownOK(rec)' /\ PoolOK(rec)' /\ JudgedOK(rec)' /\ PageOK(rec)',
         ~firmsMet' => ListsOK' /\ BoughtOK' /\ \A f \in Firms : OfferedOK(f)' /\ StrategyOK(f)'
  PROVE  SourcingInv'
<1>1. RunsTyped'
  BY DEF Moves, RunsTyped
<1>2. HandInv'
  <2>1. ASSUME NEW q \in FirmRuns \ {r} PROVE HandOK(firmRun[q])'
    <3>1. HandOK(firmRun[q])
      BY <2>1 DEF SourcingInv, HandInv
    <3>2. firmRun'[q] = firmRun[q]
      BY <2>1 DEF Moves
    <3> QED
      BY <3>1, <3>2 DEF HandOK
  <2>2. HandOK(firmRun[r])'
    BY DEF Moves
  <2> QED
    BY <2>1, <2>2 DEF HandInv
<1>3. ASSUME ~firmsMet' PROVE AloneInv'
  <2>1. AloneInv /\ Quiet(r)
    BY <1>3 DEF SourcingInv
  <2>2. ASSUME NEW q \in FirmRuns \ {r}
        PROVE  firmRun'[q].pc \in {"idle", "over"} /\ ~firmRun'[q].broken /\ PageOK(firmRun[q])'
    <3>1. firmRun'[q] = firmRun[q] /\ firmRun[q].pc \in {"idle", "over"}
      BY <2>1, <2>2 DEF Moves, Quiet
    <3>2. ~firmRun[q].broken
      BY <2>1 DEF AloneInv, KnownInv, KnownOK
    <3>3. PageOK(firmRun[q])
      BY <2>1 DEF AloneInv, PagesInv
    <3> QED
      BY <3>1, <3>2, <3>3 DEF PageOK, PageSteps, SearchSteps
  <2>3. OneSearches'
    BY <2>2 DEF OneSearches, Busy
  <2>4. KnownInv'
    <3>1. ASSUME NEW q \in FirmRuns \ {r} PROVE KnownOK(firmRun[q])'
      BY <2>2 DEF KnownOK, SearchSteps
    <3> QED
      BY <1>3, <3>1 DEF KnownInv, Moves
  <2>5. PoolInv'
    <3>1. ASSUME NEW q \in FirmRuns \ {r} PROVE PoolOK(firmRun[q])'
      BY <2>2 DEF PoolOK, FromPool
    <3> QED
      BY <1>3, <3>1 DEF PoolInv, Moves
  <2>6. StrategyInv'
    <3>1. ASSUME NEW q \in FirmRuns \ {r} PROVE JudgedOK(firmRun[q])'
      BY <2>2 DEF JudgedOK
    <3> QED
      BY <1>3, <3>1 DEF StrategyInv, Moves
  <2>7. PagesInv'
    <3>1. ASSUME NEW q \in FirmRuns PROVE PageOK(firmRun[q])'
      <4>1. CASE q = r
        BY <1>3, <4>1 DEF Moves
      <4>2. CASE q # r
        BY <2>2, <4>2
      <4> QED
        BY <4>1, <4>2
    <3> QED
      BY <1>3, <3>1 DEF PagesInv
  <2> QED
    BY <2>3, <2>4, <2>5, <2>6, <2>7 DEF AloneInv
<1> QED
  BY <1>1, <1>2, <1>3 DEF SourcingInv

(* What stays of the rules about companies, leads and pages.               *)
LEMMA OffersStay ==
  ASSUME PoolInv, NEW r \in FirmRuns, NEW rec, Moves(r, rec), UNCHANGED <<offered, poolGiven, firmFaults>>,
         FromPool(firmRun[r]) => FromPool(rec) /\ rec.at = firmRun[r].at
  PROVE  \A f \in Firms : OfferedOK(f)'
<1>1. SUFFICES ASSUME NEW f \in Firms PROVE OfferedOK(f)'
  OBVIOUS
<1>2. OfferedOK(f)
  BY DEF PoolInv
<1>3. ASSUME NEW q \in FirmRuns, FromPool(firmRun[q]), firmRun[q].at = f
      PROVE  FromPool(firmRun'[q]) /\ firmRun'[q].at = f
  BY <1>3 DEF Moves
<1>4. \A q \in FirmRuns : FromPool(firmRun'[q]) <=> FromPool(firmRun[q])'
  BY DEF FromPool
<1> QED
  BY <1>2, <1>3, <1>4 DEF OfferedOK

(* A lead that has its strategy keeps its place.                           *)
LEMMA StrategiesStay ==
  ASSUME StrategyInv, NEW r \in FirmRuns, NEW rec, Moves(r, rec), UNCHANGED <<strategies, firmFaults>>,
         firmRun[r].pc # "promote", \A f \in Firms : firmLead[f] = "contact_found" => firmLead'[f] = "contact_found"
  PROVE  \A f \in Firms : StrategyOK(f)'
<1>1. SUFFICES ASSUME NEW f \in Firms PROVE StrategyOK(f)'
  OBVIOUS
<1>2. StrategyOK(f)
  BY DEF StrategyInv
<1>3. \A q \in FirmRuns : firmRun[q].pc = "promote" => firmRun'[q] = firmRun[q]
  BY DEF Moves
<1> QED
  BY <1>2, <1>3 DEF StrategyOK

(* What was bought stays safe, or given up by the run that moves.          *)
LEMMA PagesStay ==
  ASSUME PagesInv, NEW r \in FirmRuns, NEW rec, Moves(r, rec), UNCHANGED <<bought, listCursor>>,
         \A b \in bought : GivenUp(firmRun[r], b) => GivenUp(rec, b)
  PROVE  BoughtOK'
<1>1. SUFFICES ASSUME NEW b \in bought, ~Safe(b) PROVE \E q \in FirmRuns : GivenUp(firmRun[q], b)'
  BY DEF BoughtOK, Safe
<1>2. PICK q \in FirmRuns : GivenUp(firmRun[q], b)
  BY <1>1 DEF PagesInv, BoughtOK
<1>3. GivenUp(firmRun'[q], b)
  BY <1>1, <1>2 DEF Moves
<1>4. GivenUp(firmRun[q], b)'
  BY <1>3 DEF GivenUp
<1> QED
  BY <1>4

(* The lists stay, and the filters only narrow.                            *)
LEMMA ListsStay ==
  ASSUME ListsOK, UNCHANGED <<listCursor, icpEdition, again>>, named \subseteq named'
  PROVE  ListsOK'
BY DEF ListsOK, Upto, FiltersFor

(* A fault pays for whatever is in hand.                                   *)
LEMMA FaultsPay ==
  ASSUME PoolInv, StrategyInv, TablesTyped, firmFaults \in Nat, firmFaults' = firmFaults + 1, UNCHANGED <<offered, strategies>>
  PROVE  \A f \in Firms : OfferedOK(f)' /\ StrategyOK(f)'
<1>1. SUFFICES ASSUME NEW f \in Firms PROVE OfferedOK(f)' /\ StrategyOK(f)'
  OBVIOUS
<1>2. offered[f] <= firmFaults + 1 /\ strategies[f] <= firmFaults + 1 /\ offered[f] \in Nat /\ strategies[f] \in Nat
  BY DEF PoolInv, StrategyInv, OfferedOK, StrategyOK, TablesTyped
<1>3. offered'[f] <= firmFaults' /\ strategies'[f] <= firmFaults' /\ offered'[f] <= firmFaults' + 1
        /\ strategies'[f] <= firmFaults' + 1
  BY <1>2
<1> QED
  BY <1>3 DEF OfferedOK, StrategyOK

(* A step of a run that changes no table.                                  *)
Keeps(r, rec) ==
  /\ KnownOK(rec) /\ PoolOK(rec) /\ JudgedOK(rec) /\ PageOK(rec)
  /\ FromPool(firmRun[r]) => FromPool(rec) /\ rec.at = firmRun[r].at
  /\ \A b \in bought : GivenUp(firmRun[r], b) => GivenUp(rec, b)
(* Such a step keeps the invariant.                                        *)
LEMMA TablesStay ==
  ASSUME SourcingInv, NEW r \in FirmRuns, NEW rec, Moves(r, rec), Busy(r), firmRun[r].pc # "promote",
         UNCHANGED <<firmTables, routeTables, firmHistory>>, HandOK(rec),
         ~firmsMet => Keeps(r, rec)
  PROVE  SourcingInv'
<1>1. UNCHANGED <<firmLead, leadToday, named, firmRow, firmContact, strategies, poolRow, poolGiven, listCursor, strikes,
                  icpEdition, bought, again, offered, firmsMet, firmFaults>>
  BY DEF firmTables, routeTables, firmHistory
<1>2. RowsTyped'
  BY <1>1 DEF SourcingInv, RowsTyped, TablesTyped, RouteTyped
<1>3. HandOK(rec)'
  BY <1>1 DEF HandOK
<1>4. ~firmsMet => Quiet(r)
  BY OthersQuiet DEF SourcingInv, AloneInv
<1>5. ~firmsMet => KnownOK(rec)' /\ PoolOK(rec)' /\ JudgedOK(rec)' /\ PageOK(rec)'
  <2>1. SUFFICES ASSUME ~firmsMet PROVE KnownOK(rec)' /\ PoolOK(rec)' /\ JudgedOK(rec)' /\ PageOK(rec)'
    OBVIOUS
  <2>2. KnownOK(rec)' /\ PoolOK(rec)' /\ JudgedOK(rec)'
    BY <1>1, <2>1 DEF Keeps, KnownOK, PoolOK, FromPool, JudgedOK
  <2>3. PageOK(rec)'
    BY <1>1, <2>1 DEF Keeps, PageOK, Upto, FiltersFor, Behind
  <2> QED
    BY <2>2, <2>3
<1>6. ~firmsMet => ListsOK' /\ BoughtOK' /\ \A f \in Firms : OfferedOK(f)' /\ StrategyOK(f)'
  BY <1>1, OffersStay, StrategiesStay, PagesStay, ListsStay DEF Keeps, SourcingInv, AloneInv, PagesInv
<1>7. named' \subseteq firmRow'
        /\ \A f \in Firms : firmLead'[f] \in {"signal", "contact_found"} => f \in firmContact' \cap named'
  BY <1>1 DEF SourcingInv, HandInv
<1> QED
  BY <1>1, <1>2, <1>3, <1>4, <1>5, <1>6, <1>7, RunMoves

(* What the rules say of one run.                                          *)
LEMMA RunIs ==
  ASSUME SourcingInv, NEW r \in FirmRuns
  PROVE  /\ firmRun[r] \in SourcingRun /\ HandOK(firmRun[r])
         /\ ~firmsMet => KnownOK(firmRun[r]) /\ PoolOK(firmRun[r]) /\ JudgedOK(firmRun[r]) /\ PageOK(firmRun[r])
BY DEF SourcingInv, RunsTyped, HandInv, AloneInv, KnownInv, PoolInv, StrategyInv, PagesInv

(* What a step leaves of a run's record.                                   *)
OnSamePage(rec, run) ==
  /\ rec.order = run.order /\ rec.filters = run.filters /\ rec.page = run.page
  /\ rec.last = run.last /\ rec.unsaved = run.unsaved
WithSameFirms(rec, run) ==
  /\ rec.known = run.known /\ rec.todo = run.todo /\ rec.pending = run.pending /\ rec.found = run.found
  /\ rec.at = run.at /\ rec.from = run.from /\ rec.broken = run.broken

(* Of the run that leaves the company in hand.                             *)
LEMMA LeftIs ==
  ASSUME NEW r \in FirmRuns, firmRun[r] \in SourcingRun, firmRun[r].at \in Firms
  PROVE  /\ Left(r) \in SourcingRun
         /\ firmRun[r].from = "pool" => Left(r).pc = "mark" /\ Left(r).at = firmRun[r].at
         /\ firmRun[r].from # "pool" => Left(r).pc = "rows" /\ Left(r).at = NoFirm
         /\ OnSamePage(Left(r), firmRun[r])
         /\ Left(r).known = firmRun[r].known \cup {firmRun[r].at}
         /\ Left(r).todo = firmRun[r].todo /\ Left(r).pending = firmRun[r].pending /\ Left(r).found = firmRun[r].found
         /\ Left(r).from = firmRun[r].from /\ Left(r).broken = firmRun[r].broken /\ Left(r).made = firmRun[r].made
BY DEF Left, SourcingRun, FirmSteps, OnSamePage

(* The judged page is worked on.                                           *)
LEMMA IndustryDoneKeeps ==
  ASSUME SourcingInv, NEW r \in FirmRuns, IndustryDone(r)
  PROVE  SourcingInv'
<1>1. firmRun[r] \in SourcingRun /\ RunsTyped /\ HandOK(firmRun[r])
  BY RunIs DEF SourcingInv
<1>2. PICK rec \in SourcingRun :
        /\ Moves(r, rec)
        /\ OnSamePage(rec, firmRun[r]) /\ WithSameFirms(rec, firmRun[r]) /\ rec.pc = "rows"
        /\ firmRun[r].pc = "industry"
  <2> DEFINE run == [firmRun[r] EXCEPT !.pc = "rows"]
  <2>1. run \in SourcingRun
    BY <1>1 DEF SourcingRun, FirmSteps, SearchOutcomes, IndustryDone, At
  <2>2. Moves(r, run)
    BY <1>1, <2>1, PutMoves DEF IndustryDone, Put, Go, Ends, Stop
  <2> QED
    BY <1>1, <2>1, <2>2 DEF SourcingRun, IndustryDone, At, OnSamePage, WithSameFirms
<1>3. HandOK(rec)
  BY <1>1, <1>2 DEF HandOK, PageSteps, SearchSteps, OnSamePage, WithSameFirms
<1>4. ASSUME ~firmsMet PROVE Keeps(r, rec)
  <2>1. KnownOK(rec) /\ PoolOK(rec) /\ JudgedOK(rec)
    BY <1>1, <1>2, <1>4, RunIs DEF KnownOK, PoolOK, JudgedOK, FromPool, SearchSteps, OnSamePage, WithSameFirms
  <2>2. PageOK(rec)
    BY <1>2, <1>4, RunIs DEF PageOK, PoolOK, PageSteps, SearchSteps, OnSamePage, WithSameFirms
  <2>3. \A b \in bought : GivenUp(firmRun[r], b) => GivenUp(rec, b)
    BY <1>2 DEF GivenUp, PageSteps, SearchSteps, OnSamePage, WithSameFirms
  <2>4. FromPool(firmRun[r]) => FromPool(rec) /\ rec.at = firmRun[r].at
    BY <1>1, <1>2, <1>4, RunIs DEF FromPool, PoolOK, WithSameFirms
  <2> QED
    BY <2>1, <2>2, <2>3, <2>4 DEF Keeps
<1> QED
  BY <1>2, <1>3, <1>4, TablesStay DEF IndustryDone, Busy

(* The budget refuses a page.                                              *)
LEMMA SearchRefusedKeeps ==
  ASSUME SourcingInv, NEW r \in FirmRuns, SearchRefused(r)
  PROVE  SourcingInv'
<1>1. firmRun[r] \in SourcingRun /\ RunsTyped /\ HandOK(firmRun[r])
  BY RunIs DEF SourcingInv
<1>2. PICK rec \in SourcingRun :
        /\ Moves(r, rec)
        /\ OnSamePage(rec, firmRun[r]) /\ WithSameFirms(rec, firmRun[r]) /\ rec.pc = "end"
        /\ firmRun[r].pc = "page"
  <2> DEFINE run == [firmRun[r] EXCEPT !.pc = "end", !.outcome = "budget_blocked"]
  <2>1. run \in SourcingRun
    BY <1>1 DEF SourcingRun, FirmSteps, SearchOutcomes, SearchRefused, At
  <2>2. Moves(r, run)
    BY <1>1, <2>1, PutMoves DEF SearchRefused, Put, Go, Ends, Stop
  <2> QED
    BY <1>1, <2>1, <2>2 DEF SourcingRun, SearchRefused, At, OnSamePage, WithSameFirms
<1>3. HandOK(rec)
  BY <1>1, <1>2 DEF HandOK, PageSteps, SearchSteps, OnSamePage, WithSameFirms
<1>4. ASSUME ~firmsMet PROVE Keeps(r, rec)
  <2>1. KnownOK(rec) /\ PoolOK(rec) /\ JudgedOK(rec)
    BY <1>1, <1>2, <1>4, RunIs DEF KnownOK, PoolOK, JudgedOK, FromPool, SearchSteps, OnSamePage, WithSameFirms
  <2>2. PageOK(rec)
    BY <1>2, <1>4, RunIs DEF PageOK, PoolOK, PageSteps, SearchSteps, OnSamePage, WithSameFirms
  <2>3. \A b \in bought : GivenUp(firmRun[r], b) => GivenUp(rec, b)
    BY <1>2 DEF GivenUp, PageSteps, SearchSteps, OnSamePage, WithSameFirms
  <2>4. FromPool(firmRun[r]) => FromPool(rec) /\ rec.at = firmRun[r].at
    BY <1>1, <1>2, <1>4, RunIs DEF FromPool, PoolOK, WithSameFirms
  <2> QED
    BY <2>1, <2>2, <2>3, <2>4 DEF Keeps
<1> QED
  BY <1>2, <1>3, <1>4, TablesStay DEF SearchRefused, Busy

(* A page fails.                                                           *)
LEMMA SearchFailsKeeps ==
  ASSUME SourcingInv, NEW r \in FirmRuns, SearchFails(r)
  PROVE  SourcingInv'
<1>1. firmRun[r] \in SourcingRun /\ RunsTyped /\ HandOK(firmRun[r])
  BY RunIs DEF SourcingInv
<1>2. PICK rec \in SourcingRun :
        /\ Moves(r, rec)
        /\ OnSamePage(rec, firmRun[r]) /\ WithSameFirms(rec, firmRun[r]) /\ rec.pc = "end"
        /\ firmRun[r].pc = "page"
  <2> DEFINE run == [firmRun[r] EXCEPT !.pc = "end", !.outcome = IF firmRun[r].rows THEN "ok" ELSE "empty_suspect"]
  <2>1. run \in SourcingRun
    BY <1>1 DEF SourcingRun, FirmSteps, SearchOutcomes, SearchFails, At
  <2>2. Moves(r, run)
    BY <1>1, <2>1, PutMoves DEF SearchFails, Put, Go, Ends, Stop
  <2> QED
    BY <1>1, <2>1, <2>2 DEF SourcingRun, SearchFails, At, OnSamePage, WithSameFirms
<1>3. HandOK(rec)
  BY <1>1, <1>2 DEF HandOK, PageSteps, SearchSteps, OnSamePage, WithSameFirms
<1>4. ASSUME ~firmsMet PROVE Keeps(r, rec)
  <2>1. KnownOK(rec) /\ PoolOK(rec) /\ JudgedOK(rec)
    BY <1>1, <1>2, <1>4, RunIs DEF KnownOK, PoolOK, JudgedOK, FromPool, SearchSteps, OnSamePage, WithSameFirms
  <2>2. PageOK(rec)
    BY <1>2, <1>4, RunIs DEF PageOK, PoolOK, PageSteps, SearchSteps, OnSamePage, WithSameFirms
  <2>3. \A b \in bought : GivenUp(firmRun[r], b) => GivenUp(rec, b)
    BY <1>2 DEF GivenUp, PageSteps, SearchSteps, OnSamePage, WithSameFirms
  <2>4. FromPool(firmRun[r]) => FromPool(rec) /\ rec.at = firmRun[r].at
    BY <1>1, <1>2, <1>4, RunIs DEF FromPool, PoolOK, WithSameFirms
  <2> QED
    BY <2>1, <2>2, <2>3, <2>4 DEF Keeps
<1> QED
  BY <1>2, <1>3, <1>4, TablesStay DEF SearchFails, Busy

(* A page is found to be of the wrong companies.                           *)
LEMMA QualityFailsKeeps ==
  ASSUME SourcingInv, NEW r \in FirmRuns, QualityFails(r)
  PROVE  SourcingInv'
<1>1. firmRun[r] \in SourcingRun /\ RunsTyped /\ HandOK(firmRun[r])
  BY RunIs DEF SourcingInv
<1>2. PICK rec \in SourcingRun :
        /\ Moves(r, rec)
        /\ OnSamePage(rec, firmRun[r]) /\ rec.known = firmRun[r].known /\ rec.pending = firmRun[r].pending
        /\ rec.found = firmRun[r].found /\ rec.at = firmRun[r].at /\ rec.from = firmRun[r].from
        /\ rec.broken = firmRun[r].broken /\ rec.pc = "end" /\ rec.todo = {}
        /\ firmRun[r].pc \in {"keep", "industry"}
  <2> DEFINE run == [[firmRun[r] EXCEPT !.todo = {}] EXCEPT !.pc = "end", !.outcome = "quality_fail"]
  <2>1. run \in SourcingRun
    BY <1>1 DEF SourcingRun, FirmSteps, SearchOutcomes, QualityFails, At
  <2>2. Moves(r, run)
    BY <1>1, <2>1, PutMoves DEF QualityFails, Put, Go, Ends, Stop
  <2> QED
    BY <1>1, <2>1, <2>2 DEF SourcingRun, QualityFails, At, OnSamePage, WithSameFirms
<1>3. HandOK(rec)
  BY <1>1, <1>2 DEF HandOK, PageSteps, SearchSteps, OnSamePage, WithSameFirms
<1>4. ASSUME ~firmsMet PROVE Keeps(r, rec)
  <2>1. KnownOK(rec) /\ PoolOK(rec) /\ JudgedOK(rec)
    BY <1>1, <1>2, <1>4, RunIs DEF KnownOK, PoolOK, JudgedOK, FromPool, SearchSteps, OnSamePage, WithSameFirms
  <2>2. PageOK(rec)
    BY <1>2, <1>4, RunIs DEF PageOK, PoolOK, PageSteps, SearchSteps, OnSamePage, WithSameFirms
  <2>3. \A b \in bought : GivenUp(firmRun[r], b) => GivenUp(rec, b)
    BY <1>2 DEF GivenUp, PageSteps, SearchSteps, OnSamePage, WithSameFirms
  <2>4. FromPool(firmRun[r]) => FromPool(rec) /\ rec.at = firmRun[r].at
    BY <1>1, <1>2, <1>4, RunIs DEF FromPool, PoolOK, WithSameFirms
  <2> QED
    BY <2>1, <2>2, <2>3, <2>4 DEF Keeps
<1> QED
  BY <1>2, <1>3, <1>4, TablesStay DEF QualityFails, Busy

(* The next company of a page.                                             *)
LEMMA WorkOnRowKeeps ==
  ASSUME SourcingInv, NEW r \in FirmRuns, WorkOnRow(r)
  PROVE  SourcingInv'
<1>1. firmRun[r] \in SourcingRun /\ RunsTyped /\ HandOK(firmRun[r])
  BY RunIs DEF SourcingInv
<1>2. PICK rec \in SourcingRun :
        /\ Moves(r, rec)
        /\ OnSamePage(rec, firmRun[r]) /\ rec.known = firmRun[r].known /\ rec.pending = firmRun[r].pending
        /\ rec.found = firmRun[r].found /\ rec.from = firmRun[r].from /\ rec.broken = firmRun[r].broken
        /\ rec.pc = "judge" /\ rec.at \in Firms /\ rec.todo \subseteq firmRun[r].todo /\ firmRun[r].pc = "rows"
  <2>0. PICK f \in firmRun[r].todo : Put(r, [firmRun[r] EXCEPT !.pc = "judge", !.at = f, !.todo = @ \ {f}])
    BY DEF WorkOnRow
  <2> DEFINE run == [firmRun[r] EXCEPT !.pc = "judge", !.at = f, !.todo = @ \ {f}]
  <2>1. run \in SourcingRun
    BY <1>1, <2>0 DEF SourcingRun, FirmSteps, SearchOutcomes, WorkOnRow, At
  <2>2. Moves(r, run)
    BY <1>1, <2>0, <2>1, PutMoves DEF WorkOnRow, Put, Go, Ends, Stop
  <2> QED
    BY <1>1, <2>0, <2>1, <2>2 DEF SourcingRun, WorkOnRow, At, OnSamePage, WithSameFirms
<1>3. HandOK(rec)
  BY <1>1, <1>2 DEF HandOK, PageSteps, SearchSteps, OnSamePage, WithSameFirms
<1>4. ASSUME ~firmsMet PROVE Keeps(r, rec)
  <2>1. KnownOK(rec) /\ PoolOK(rec) /\ JudgedOK(rec)
    BY <1>1, <1>2, <1>4, RunIs DEF KnownOK, PoolOK, JudgedOK, FromPool, SearchSteps, OnSamePage, WithSameFirms
  <2>2. PageOK(rec)
    BY <1>2, <1>4, RunIs DEF PageOK, PoolOK, PageSteps, SearchSteps, OnSamePage, WithSameFirms
  <2>3. \A b \in bought : GivenUp(firmRun[r], b) => GivenUp(rec, b)
    BY <1>2 DEF GivenUp, PageSteps, SearchSteps, OnSamePage, WithSameFirms
  <2>4. FromPool(firmRun[r]) => FromPool(rec) /\ rec.at = firmRun[r].at
    BY <1>1, <1>2, <1>4, RunIs DEF FromPool, PoolOK, WithSameFirms
  <2> QED
    BY <2>1, <2>2, <2>3, <2>4 DEF Keeps
<1> QED
  BY <1>2, <1>3, <1>4, TablesStay DEF WorkOnRow, Busy

(* A company that is known, or in outreach.                                *)
LEMMA SkipFirmKeeps ==
  ASSUME SourcingInv, NEW r \in FirmRuns, SkipFirm(r)
  PROVE  SourcingInv'
<1>1. firmRun[r] \in SourcingRun /\ RunsTyped /\ HandOK(firmRun[r])
  <2>1. firmRun[r] \in SourcingRun
    BY RunIs
  <2> QED
    BY <2>1, RunIs DEF SourcingInv
<1>5. firmRun[r].at \in Firms /\ firmRun[r].from \in {"page", "pool"}
  BY <1>1 DEF SourcingRun, HandOK, SkipFirm, At
<1>2. PICK rec \in SourcingRun :
        /\ Moves(r, rec)
        /\ OnSamePage(rec, firmRun[r]) /\ rec.todo = firmRun[r].todo /\ rec.pending = firmRun[r].pending
        /\ rec.found = firmRun[r].found /\ rec.from = firmRun[r].from /\ rec.broken = firmRun[r].broken
        /\ (firmRun[r].from = "pool" => rec.pc = "mark" /\ rec.at = firmRun[r].at)
        /\ (firmRun[r].from # "pool" => rec.pc = "rows" /\ rec.at = NoFirm)
        /\ rec.known = firmRun[r].known \cup {firmRun[r].at} /\ firmRun[r].pc = "judge"
  <2> DEFINE run == Left(r)
  <2>1. run \in SourcingRun
    BY <1>1, <1>5, LeftIs DEF SourcingRun, FirmSteps, SearchOutcomes, SkipFirm, At
  <2>2. Moves(r, run)
    BY <1>1, <2>1, PutMoves DEF SkipFirm, Put, Go, Ends, Stop
  <2> QED
    BY <1>1, <1>5, <2>1, <2>2, LeftIs DEF SourcingRun, SkipFirm, At, OnSamePage, WithSameFirms
<1>3. HandOK(rec)
  BY <1>1, <1>5, <1>2 DEF HandOK, PageSteps, SearchSteps, OnSamePage, WithSameFirms
<1>4. ASSUME ~firmsMet PROVE Keeps(r, rec)
  <2>1. KnownOK(rec) /\ PoolOK(rec) /\ JudgedOK(rec)
    BY <1>1, <1>5, <1>2, <1>4, RunIs DEF KnownOK, PoolOK, JudgedOK, FromPool, SearchSteps, OnSamePage, WithSameFirms
  <2>2. PageOK(rec)
    BY <1>2, <1>4, RunIs DEF PageOK, PoolOK, PageSteps, SearchSteps, OnSamePage, WithSameFirms
  <2>3. \A b \in bought : GivenUp(firmRun[r], b) => GivenUp(rec, b)
    BY <1>2 DEF GivenUp, PageSteps, SearchSteps, OnSamePage, WithSameFirms
  <2>4. FromPool(firmRun[r]) => FromPool(rec) /\ rec.at = firmRun[r].at
    BY <1>1, <1>5, <1>2, <1>4, RunIs DEF FromPool, PoolOK, WithSameFirms
  <2> QED
    BY <2>1, <2>2, <2>3, <2>4 DEF Keeps
<1> QED
  BY <1>2, <1>3, <1>4, TablesStay DEF SkipFirm, Busy

(* A company without a free leader waits for the lookup.                   *)
LEMMA DeferFirmKeeps ==
  ASSUME SourcingInv, NEW r \in FirmRuns, DeferFirm(r)
  PROVE  SourcingInv'
<1>1. firmRun[r] \in SourcingRun /\ RunsTyped /\ HandOK(firmRun[r])
  <2>1. firmRun[r] \in SourcingRun
    BY RunIs
  <2> QED
    BY <2>1, RunIs DEF SourcingInv
<1>5. firmRun[r].at \in Firms /\ firmRun[r].from \in {"page", "pool"}
  BY <1>1 DEF SourcingRun, HandOK, DeferFirm, At
<1>2. PICK rec \in SourcingRun :
        /\ Moves(r, rec)
        /\ OnSamePage(rec, firmRun[r]) /\ rec.todo = firmRun[r].todo /\ rec.found = firmRun[r].found
        /\ rec.from = firmRun[r].from /\ rec.broken = firmRun[r].broken
        /\ (firmRun[r].from = "pool" => rec.pc = "mark" /\ rec.at = firmRun[r].at)
        /\ (firmRun[r].from # "pool" => rec.pc = "rows" /\ rec.at = NoFirm)
        /\ rec.known = firmRun[r].known \cup {firmRun[r].at}
        /\ rec.pending = firmRun[r].pending \cup {firmRun[r].at} /\ firmRun[r].pc = "person"
  <2> DEFINE run == [Left(r) EXCEPT !.pending = @ \cup {firmRun[r].at}]
  <2>1. run \in SourcingRun
    <3>1. \A x \in SourcingRun : [x EXCEPT !.pending = @ \cup {firmRun[r].at}] \in SourcingRun
      BY <1>5 DEF SourcingRun
    <3> QED
      BY <1>1, <1>5, <3>1, LeftIs
  <2>2. Moves(r, run)
    BY <1>1, <2>1, PutMoves DEF DeferFirm, Put, Go, Ends, Stop
  <2> QED
    BY <1>1, <1>5, <2>1, <2>2, LeftIs DEF SourcingRun, DeferFirm, At, OnSamePage, WithSameFirms
<1>3. HandOK(rec)
  BY <1>1, <1>5, <1>2 DEF HandOK, PageSteps, SearchSteps, OnSamePage, WithSameFirms
<1>4. ASSUME ~firmsMet PROVE Keeps(r, rec)
  <2>1. KnownOK(rec) /\ PoolOK(rec) /\ JudgedOK(rec)
    BY <1>1, <1>5, <1>2, <1>4, RunIs DEF KnownOK, PoolOK, JudgedOK, FromPool, SearchSteps, OnSamePage, WithSameFirms
  <2>2. PageOK(rec)
    BY <1>2, <1>4, RunIs DEF PageOK, PoolOK, PageSteps, SearchSteps, OnSamePage, WithSameFirms
  <2>3. \A b \in bought : GivenUp(firmRun[r], b) => GivenUp(rec, b)
    BY <1>2 DEF GivenUp, PageSteps, SearchSteps, OnSamePage, WithSameFirms
  <2>4. FromPool(firmRun[r]) => FromPool(rec) /\ rec.at = firmRun[r].at
    BY <1>1, <1>5, <1>2, <1>4, RunIs DEF FromPool, PoolOK, WithSameFirms
  <2> QED
    BY <2>1, <2>2, <2>3, <2>4 DEF Keeps
<1> QED
  BY <1>2, <1>3, <1>4, TablesStay DEF DeferFirm, Busy

(* Of a run that ends.                                                     *)
Ended == [Blank EXCEPT !.pc = "over"]
(* Its record is within every rule.                                        *)
LEMMA EndsMoves ==
  ASSUME RunsTyped, NEW r \in FirmRuns, Ends(r)
  PROVE  /\ Moves(r, Ended) /\ HandOK(Ended) /\ KnownOK(Ended) /\ PoolOK(Ended) /\ JudgedOK(Ended) /\ PageOK(Ended)
         /\ ~FromPool(Ended) /\ Ended.pc = "over"
<1>1. /\ Ended \in SourcingRun /\ Ended.pc = "over" /\ ~Ended.broken /\ Ended.from = "page"
      /\ Ended.pending = {} /\ Ended.found = {}
  BY BlankIs DEF Ended, SourcingRun, FirmSteps
<1>2. Moves(r, Ended)
  BY <1>1, PutMoves DEF Ends, Ended
<1> QED
  BY <1>1, <1>2, RestingRun DEF HandOK, PageSteps, SearchSteps

(* The leads are judged.                                                   *)
LEMMA SourcingOverKeeps ==
  ASSUME SourcingInv, NEW r \in FirmRuns, SourcingOver(r)
  PROVE  SourcingInv'
<1>1. firmRun[r].pc = "qualify" /\ RunsTyped /\ Ends(r) /\ UNCHANGED <<firmTables, routeTables, firmHistory>>
  BY DEF SourcingInv, SourcingOver, At
<1>2. ~FromPool(firmRun[r]) /\ \A b : ~GivenUp(firmRun[r], b)
  BY <1>1 DEF FromPool, GivenUp, PageSteps, SearchSteps
<1>3. Keeps(r, Ended)
  BY <1>1, <1>2, EndsMoves DEF Keeps
<1> QED
  BY <1>1, <1>3, EndsMoves, TablesStay DEF Busy

(* The session is broken, or a key is taken, only beside another run.      *)
LEMMA BrokenSessionKeeps ==
  ASSUME SourcingInv, NEW r \in FirmRuns, BrokenSession(r)
  PROVE  SourcingInv'
<1>1. /\ firmRun[r].pc = "keep" /\ firmRun[r].broken
      /\ RunsTyped /\ Ends(r) /\ UNCHANGED <<firmTables, routeTables, firmHistory>>
  BY DEF SourcingInv, BrokenSession, At
<1>2. firmsMet
  BY <1>1, RunIs DEF KnownOK
<1> QED
  BY <1>1, <1>2, EndsMoves, TablesStay DEF Busy

(* A key is taken: from the pool, or from a page.                          *)
LEMMA KeyTakenKeeps ==
  ASSUME SourcingInv, NEW r \in FirmRuns, KeyTaken(r)
  PROVE  SourcingInv'
<1>1. /\ firmRun[r] \in SourcingRun /\ RunsTyped /\ HandOK(firmRun[r])
      /\ firmRun[r].pc \in {"judge", "person", "insert"} /\ firmLead[firmRun[r].at] # "absent"
      /\ firmRun[r].pc = "judge" => firmRun[r].at \notin firmRun[r].known
      /\ UNCHANGED <<firmTables, routeTables, firmHistory>>
  BY RunIs DEF SourcingInv, KeyTaken, At
<1>2. firmRun[r].at \in Firms
  BY <1>1 DEF HandOK
<1>3. firmsMet
  BY <1>1, <1>2, RunIs DEF KnownOK, SearchSteps
<1>4. CASE firmRun[r].from = "pool"
  <2> DEFINE run == [firmRun[r] EXCEPT !.pc = "pool", !.todo = {}, !.at = NoFirm, !.broken = TRUE]
  <2>1. run \in SourcingRun
    BY <1>1 DEF SourcingRun, FirmSteps
  <2>2. Moves(r, run)
    BY <1>1, <1>4, <2>1, PutMoves DEF KeyTaken
  <2>3. HandOK(run)
    BY <1>1 DEF HandOK, SourcingRun, PageSteps, SearchSteps
  <2> QED
    BY <1>1, <1>3, <2>2, <2>3, TablesStay DEF Busy
<1>5. CASE firmRun[r].from # "pool"
  <2>1. Ends(r)
    BY <1>5 DEF KeyTaken
  <2> QED
    BY <1>1, <1>3, <2>1, EndsMoves, TablesStay DEF Busy
<1> QED
  BY <1>4, <1>5

(* A request that is refused changes nothing.                              *)
LEMMA SourcingSkippedKeeps ==
  ASSUME SourcingInv, NEW r \in FirmRuns, SourcingSkipped(r)
  PROVE  SourcingInv'
<1>1. /\ firmRun[r].pc = "idle" /\ RunsTyped /\ Ends(r)
      /\ UNCHANGED <<firmLead, leadToday, named, firmRow, firmContact, strategies, poolRow, poolGiven, listCursor,
                     strikes, icpEdition, bought, again, offered, firmsMet, firmFaults>>
  BY DEF SourcingInv, SourcingSkipped, At, firmTables, routeTables, firmHistory
<1>2. Moves(r, Ended) /\ HandOK(Ended) /\ KnownOK(Ended) /\ PoolOK(Ended) /\ JudgedOK(Ended) /\ PageOK(Ended)
  BY <1>1, EndsMoves
<1>3. \A q \in FirmRuns : firmRun'[q] = IF q = r THEN Ended ELSE firmRun[q]
  BY <1>2 DEF Moves
<1>4. RunsTyped' /\ RowsTyped'
  BY <1>1, <1>2 DEF SourcingInv, RunsTyped, RowsTyped, TablesTyped, RouteTyped, Moves
<1>5. HandInv'
  BY <1>1, <1>2, <1>3 DEF SourcingInv, HandInv, HandOK
<1>6. ASSUME ~firmsMet PROVE AloneInv'
  <2>1. AloneInv
    BY <1>6 DEF SourcingInv
  <2>2. OneSearches'
    BY <1>3, <2>1, EndsMoves, <1>1 DEF AloneInv, OneSearches, Busy
  <2>3. KnownInv'
    BY <1>1, <1>2, <1>3, <2>1 DEF AloneInv, KnownInv, KnownOK
  <2>4. FromPool(firmRun[r]) = FALSE
    BY <1>1 DEF FromPool
  <2>5. PoolInv'
    <3>1. \A q \in FirmRuns : PoolOK(firmRun[q])'
      BY <1>1, <1>2, <1>3, <2>1 DEF AloneInv, PoolInv, PoolOK, FromPool
    <3>2. \A f \in Firms : OfferedOK(f)'
      BY <1>1, <1>2, <2>1, <2>4, OffersStay DEF AloneInv
    <3> QED
      BY <3>1, <3>2 DEF PoolInv
  <2>6. StrategyInv'
    <3>1. \A q \in FirmRuns : JudgedOK(firmRun[q])'
      BY <1>1, <1>2, <1>3, <2>1 DEF AloneInv, StrategyInv, JudgedOK
    <3>2. \A f \in Firms : StrategyOK(f)'
      BY <1>1, <1>2, <2>1, StrategiesStay DEF AloneInv
    <3> QED
      BY <3>1, <3>2 DEF StrategyInv
  <2>7. PagesInv'
    <3>1. ASSUME NEW q \in FirmRuns PROVE PageOK(firmRun[q])'
      <4>1. PageOK(firmRun'[q])
        BY <1>2, <1>3, <2>1 DEF AloneInv, PagesInv
      <4> QED
        BY <1>1, <4>1 DEF PageOK, Upto, FiltersFor, Behind
    <3>2. \A b : ~GivenUp(firmRun[r], b)
      BY <1>1 DEF GivenUp, PageSteps, SearchSteps
    <3>3. ListsOK' /\ BoughtOK'
      BY <1>1, <1>2, <2>1, <3>2, PagesStay, ListsStay DEF AloneInv, PagesInv
    <3> QED
      BY <3>1, <3>3 DEF PagesInv
  <2> QED
    BY <2>2, <2>3, <2>5, <2>6, <2>7 DEF AloneInv
<1> QED
  BY <1>1, <1>4, <1>5, <1>6 DEF SourcingInv

(* Filters: narrower than narrower is narrower, and both ways is the same. *)
LEMMA Narrowing ==
  ASSUME NEW x \in FirmFilters, NEW y \in FirmFilters, NEW z \in FirmFilters, Upto(x, y)
  PROVE  /\ Upto(y, z) => Upto(x, z)
         /\ Upto(y, x) => x = y
<1>1. x.edition \in Int /\ y.edition \in Int /\ z.edition \in Int
  BY SourcingAssumption DEF FirmFilters
<1>2. Upto(y, z) => Upto(x, z)
  BY <1>1 DEF Upto
<1>3. Upto(y, x) => x.edition = y.edition /\ x.without = y.without
  BY <1>1 DEF Upto
<1> QED
  BY <1>2, <1>3 DEF FirmFilters

(* The filters of a search and of a cursor.                                *)
LEMMA FiltersAre ==
  ASSUME RowsTyped, NEW p \in FirmProviders
  PROVE  FiltersFor(p) \in FirmFilters /\ listCursor[p] \in ListCursor /\ listCursor[p].filters \in FirmFilters
BY DEF RowsTyped, TablesTyped, RouteTyped, FiltersFor, FirmFilters, ListCursor

(* The quota is a number.                                                  *)
LEMMA QuotaIs == ASSUME TablesTyped PROVE Quota \in Nat
<1>1. IsFiniteSet({f \in leadToday : firmLead[f] # "rejected"})
  BY SourcingAssumption, FS_Subset DEF TablesTyped
<1>2. Cardinality({f \in leadToday : firmLead[f] # "rejected"}) \in Nat
  BY <1>1, FS_CardinalityType
<1> QED
  BY <1>2, SourcingAssumption DEF Quota

(* The pool is done: the search ends, or turns to the provider.            *)
LEMMA PoolDoneKeeps ==
  ASSUME SourcingInv, NEW r \in FirmRuns, PoolDone(r)
  PROVE  SourcingInv'
<1>1. /\ firmRun[r] \in SourcingRun /\ RunsTyped /\ HandOK(firmRun[r]) /\ firmRun[r].pc = "pool" /\ Quota \in Nat
      /\ UNCHANGED <<firmTables, routeTables, firmHistory>>
  BY RunIs, QuotaIs DEF SourcingInv, RowsTyped, PoolDone, At
<1>2. ~FromPool(firmRun[r]) /\ \A b : ~GivenUp(firmRun[r], b)
  BY <1>1 DEF FromPool, GivenUp
<1>3. CASE Ends(r)
  BY <1>1, <1>2, <1>3, EndsMoves, TablesStay DEF Keeps, Busy
<1>4. CASE ~Ends(r)
  <2>1. PICK rec \in SourcingRun :
          /\ Moves(r, rec) /\ rec.pc \in {"route", "page"} /\ OnSamePage(rec, firmRun[r])
          /\ rec.from = "page" /\ rec.known = firmRun[r].known /\ rec.pending = firmRun[r].pending
          /\ rec.found = firmRun[r].found /\ rec.at = firmRun[r].at /\ rec.broken = firmRun[r].broken
    <3> DEFINE need == IF firmRun[r].made > 0 THEN Quota ELSE firmRun[r].need
               run == [firmRun[r] EXCEPT !.need = need, !.from = "page"]
               routed == [run EXCEPT !.pc = "route", !.outcome = "empty_suspect"]
               paged == [run EXCEPT !.pc = "page"]
    <3>1. need \in Nat
      BY <1>1 DEF SourcingRun
    <3>2. run \in SourcingRun
      BY <1>1, <3>1 DEF SourcingRun
    <3>3. Put(r, routed) \/ Put(r, paged)
      BY <1>4 DEF PoolDone
    <3>4. /\ run.order = firmRun[r].order /\ run.filters = firmRun[r].filters /\ run.page = firmRun[r].page
          /\ run.last = firmRun[r].last /\ run.unsaved = firmRun[r].unsaved /\ run.from = "page"
          /\ run.known = firmRun[r].known /\ run.pending = firmRun[r].pending
          /\ run.found = firmRun[r].found /\ run.at = firmRun[r].at /\ run.broken = firmRun[r].broken
      BY <1>1 DEF SourcingRun
    <3> HIDE DEF run
    <3>6. routed \in SourcingRun /\ paged \in SourcingRun
      BY <3>2 DEF SourcingRun, FirmSteps, SearchOutcomes
    <3>5. ASSUME NEW rec \in {routed, paged}
          PROVE  /\ rec.pc \in {"route", "page"} /\ OnSamePage(rec, firmRun[r])
                 /\ rec.from = "page" /\ rec.known = firmRun[r].known /\ rec.pending = firmRun[r].pending
                 /\ rec.found = firmRun[r].found /\ rec.at = firmRun[r].at /\ rec.broken = firmRun[r].broken
      BY <3>2, <3>4, <3>5 DEF SourcingRun, OnSamePage
    <3> QED
      BY <1>1, <3>3, <3>5, <3>6, PutMoves
  <2>2. HandOK(rec)
    BY <1>1, <2>1 DEF HandOK, PageSteps, SearchSteps, OnSamePage
  <2>3. ASSUME ~firmsMet PROVE Keeps(r, rec)
    <3>1. KnownOK(rec) /\ PoolOK(rec) /\ JudgedOK(rec)
      BY <1>1, <2>1, <2>3, RunIs DEF KnownOK, PoolOK, JudgedOK, FromPool, SearchSteps
    <3>2. PageOK(rec)
      BY <1>1, <2>1, <2>3, RunIs DEF PageOK, PageSteps, SearchSteps, OnSamePage
    <3> QED
      BY <1>2, <3>1, <3>2 DEF Keeps
  <2> QED
    BY <1>1, <2>1, <2>2, <2>3, TablesStay DEF Busy
<1> QED
  BY <1>3, <1>4

(* A page is done: the search ends, or another page is asked for.          *)
LEMMA TurnPageKeeps ==
  ASSUME SourcingInv, NEW r \in FirmRuns, TurnPage(r)
  PROVE  SourcingInv'
<1>1. /\ firmRun[r] \in SourcingRun /\ RunsTyped /\ HandOK(firmRun[r]) /\ firmRun[r].pc = "settle"
      /\ UNCHANGED <<firmTables, routeTables, firmHistory>>
  BY RunIs DEF SourcingInv, TurnPage, At
<1>2. PICK rec \in SourcingRun :
        /\ Moves(r, rec)
        /\ rec.order = firmRun[r].order /\ rec.filters = firmRun[r].filters /\ rec.page = firmRun[r].page
        /\ rec.unsaved = firmRun[r].unsaved /\ rec.known = firmRun[r].known /\ rec.pending = firmRun[r].pending
        /\ rec.found \subseteq firmRun[r].found /\ rec.from = firmRun[r].from /\ rec.broken = firmRun[r].broken
        /\ rec.pc = "end" \/ (rec.pc = "page" /\ ~rec.last /\ ~firmRun[r].last)
  <2> DEFINE run == [firmRun[r] EXCEPT !.turns = @ + 1]
             outcome == IF run.rows THEN "ok" ELSE IF run.last THEN "empty_validated" ELSE "ok"
             ended == [run EXCEPT !.last = @ /\ ~Enough(r)]
             stopped == [ended EXCEPT !.pc = "end", !.outcome = outcome]
             turned == [run EXCEPT !.pc = "page", !.found = {}]
  <2>1. /\ run \in SourcingRun /\ run.order = firmRun[r].order /\ run.filters = firmRun[r].filters
        /\ run.page = firmRun[r].page /\ run.last = firmRun[r].last /\ run.unsaved = firmRun[r].unsaved
        /\ run.from = firmRun[r].from /\ run.known = firmRun[r].known /\ run.pending = firmRun[r].pending
        /\ run.found = firmRun[r].found /\ run.broken = firmRun[r].broken
    BY <1>1 DEF SourcingRun
  <2>2. \/ Put(r, stopped)
        \/ Put(r, turned) /\ ~run.last
    BY DEF TurnPage, Stop
  <2> HIDE DEF run
  <2>3. (run.last /\ ~Enough(r)) \in BOOLEAN /\ outcome \in SearchOutcomes
    BY <2>1 DEF SearchOutcomes
  <2> HIDE DEF outcome
  <2>4. turned \in SourcingRun /\ turned.pc = "page" /\ turned.last = run.last
    BY <2>1 DEF SourcingRun, FirmSteps
  <2>5. /\ ended \in SourcingRun /\ ended.order = run.order /\ ended.filters = run.filters /\ ended.page = run.page
        /\ ended.unsaved = run.unsaved /\ ended.known = run.known /\ ended.pending = run.pending
        /\ ended.found = run.found /\ ended.from = run.from /\ ended.broken = run.broken
    <3>1. \A x \in BOOLEAN : [run EXCEPT !.last = x] \in SourcingRun
      BY <2>1 DEF SourcingRun
    <3>2. ended = [run EXCEPT !.last = (run.last /\ ~Enough(r))]
      OBVIOUS
    <3> QED
      BY <2>1, <2>3, <3>1, <3>2 DEF SourcingRun
  <2> HIDE DEF ended
  <2>6. stopped \in SourcingRun /\ stopped.pc = "end"
    BY <2>3, <2>5 DEF SourcingRun, FirmSteps
  <2>7. ASSUME NEW rec \in {stopped, turned}
        PROVE  /\ rec.order = firmRun[r].order /\ rec.filters = firmRun[r].filters /\ rec.page = firmRun[r].page
               /\ rec.unsaved = firmRun[r].unsaved /\ rec.known = firmRun[r].known /\ rec.pending = firmRun[r].pending
               /\ rec.found \subseteq firmRun[r].found /\ rec.from = firmRun[r].from /\ rec.broken = firmRun[r].broken
    BY <2>1, <2>5, <2>7 DEF SourcingRun
  <2> QED
    BY <1>1, <2>1, <2>2, <2>4, <2>6, <2>7, PutMoves
<1>3. HandOK(rec)
  BY <1>1, <1>2 DEF HandOK, PageSteps, SearchSteps
<1>4. ASSUME ~firmsMet PROVE Keeps(r, rec)
  <2>1. KnownOK(rec) /\ PoolOK(rec) /\ JudgedOK(rec)
    BY <1>1, <1>2, <1>4, RunIs DEF KnownOK, PoolOK, JudgedOK, FromPool, SearchSteps
  <2>2. PageOK(rec)
    <3>1. firmRun[r].from = "page"
      BY <1>1, <1>4, RunIs DEF PoolOK
    <3> QED
      BY <1>1, <1>2, <1>4, <3>1, RunIs DEF PageOK, PageSteps, SearchSteps
  <2>3. \A b \in bought : GivenUp(firmRun[r], b) => GivenUp(rec, b)
    BY <1>2 DEF GivenUp, PageSteps, SearchSteps
  <2>4. ~FromPool(firmRun[r])
    BY <1>1 DEF FromPool
  <2> QED
    BY <2>1, <2>2, <2>3, <2>4 DEF Keeps
<1> QED
  BY <1>1, <1>2, <1>3, <1>4, TablesStay DEF Busy

(* Where a search begins, nothing of its list is bought.                   *)
LEMMA NothingAhead ==
  ASSUME RowsTyped, ListsOK, NEW p \in FirmProviders, ~Cooling(p), NEW b \in bought, b.provider = p, Safe(b)
  PROVE  Behind(b, FiltersFor(p), IF Resumes(p) THEN listCursor[p].page ELSE 1)
<1>1. /\ FiltersFor(p) \in FirmFilters /\ listCursor[p].filters \in FirmFilters /\ b.filters \in FirmFilters
      /\ Upto(listCursor[p].filters, FiltersFor(p)) /\ Upto(b.filters, listCursor[p].filters)
  BY FiltersAre DEF RowsTyped, RouteTyped, ListPage, ListsOK, Safe, Behind
<1>2. Upto(b.filters, FiltersFor(p))
  BY <1>1, Narrowing
<1>3. ASSUME b.filters = FiltersFor(p) PROVE b.page < (IF Resumes(p) THEN listCursor[p].page ELSE 1)
  <2>1. listCursor[p].filters = FiltersFor(p)
    BY <1>1, <1>3, Narrowing
  <2>2. ~listCursor[p].exhausted
    BY <2>1 DEF Cooling, Resumes, ListsOK, FirmProviders
  <2> QED
    BY <1>3, <2>1, <2>2 DEF Safe, Behind, Resumes
<1> QED
  BY <1>2, <1>3 DEF Behind

(* A search begins: with the pool, or not at all.                          *)
LEMMA BeginSearchKeeps ==
  ASSUME SourcingInv, NEW r \in FirmRuns, BeginSearch(r)
  PROVE  SourcingInv'
<1>1. /\ firmRun[r] \in SourcingRun /\ RunsTyped /\ RowsTyped /\ HandOK(firmRun[r]) /\ firmRun[r].pc = "search"
      /\ UNCHANGED <<firmTables, routeTables, firmHistory>>
  BY RunIs DEF SourcingInv, BeginSearch, At
<1>2. firmRun[r].order # <<>> /\ firmRun[r].order \in Seq(FirmProviders) /\ Provider(r) \in FirmProviders
  BY <1>1 DEF HandOK, SourcingRun, Provider
<1>3. ~FromPool(firmRun[r]) /\ \A b : ~GivenUp(firmRun[r], b)
  BY <1>1 DEF FromPool, GivenUp, PageSteps, SearchSteps
<1>4. CASE Cooling(Provider(r)) \/ Quota = 0
  <2> DEFINE run == [firmRun[r] EXCEPT !.pc = "route", !.outcome = "empty_suspect"]
  <2>1. run \in SourcingRun /\ Moves(r, run)
    <3>1. run \in SourcingRun
      BY <1>1 DEF SourcingRun, FirmSteps, SearchOutcomes
    <3> QED
      BY <1>1, <1>4, <3>1, PutMoves DEF BeginSearch
  <2>2. /\ run.pc = "route" /\ run.order = firmRun[r].order /\ run.pending = firmRun[r].pending
        /\ run.found = firmRun[r].found /\ run.broken = firmRun[r].broken /\ run.from = firmRun[r].from
        /\ run.last = firmRun[r].last
    BY <1>1 DEF SourcingRun
  <2> HIDE DEF run
  <2>3. HandOK(run)
    BY <1>1, <2>2 DEF HandOK, PageSteps, SearchSteps
  <2>4. ~firmsMet => Keeps(r, run)
    BY <1>1, <1>3, <2>2, RunIs DEF Keeps, KnownOK, PoolOK, FromPool, JudgedOK, PageOK, PageSteps, SearchSteps
  <2> QED
    BY <1>1, <2>1, <2>3, <2>4, TablesStay DEF Busy
<1>5. CASE ~(Cooling(Provider(r)) \/ Quota = 0)
  <2> DEFINE p == Provider(r)
             start == IF Resumes(p) THEN listCursor[p].page ELSE 1
             leads == {f \in Firms : firmLead[f] # "absent"}
  <2>1. /\ p \in FirmProviders /\ p = Head(firmRun[r].order) /\ ~Cooling(p)
        /\ FiltersFor(p) \in FirmFilters /\ start \in 1..MaxPage /\ Quota \in Nat
    <3>1. 1 \in 1..MaxPage
      BY SourcingAssumption
    <3> QED
      BY <1>1, <1>2, <1>5, <3>1, FiltersAre, QuotaIs DEF RowsTyped, ListCursor, Provider
  <2> HIDE DEF p, start
  <2>2. PICK rec \in SourcingRun :
          /\ Moves(r, rec) /\ rec.pc = "pool" /\ rec.order = firmRun[r].order /\ rec.filters = FiltersFor(p)
          /\ rec.page = start /\ rec.known = leads /\ rec.todo \cap poolGiven = {} /\ rec.pending = {} /\ rec.found = {}
          /\ rec.from = "page" /\ ~rec.last /\ rec.unsaved = {} /\ ~rec.broken
    <3>1. PICK matches \in SUBSET (poolRow \ poolGiven) :
            Put(r, [Blank EXCEPT !.pc = "pool", !.order = firmRun[r].order, !.filters = FiltersFor(p), !.page = start,
                                 !.known = leads, !.todo = matches, !.need = Quota])
      BY <1>5 DEF BeginSearch, p, start
    <3> DEFINE run == [Blank EXCEPT !.pc = "pool", !.order = firmRun[r].order, !.filters = FiltersFor(p), !.page = start,
                                    !.known = leads, !.todo = matches, !.need = Quota]
    <3>2. matches \in SUBSET Firms /\ matches \cap poolGiven = {} /\ leads \in SUBSET Firms
      BY <1>1 DEF RowsTyped, TablesTyped
    <3> HIDE DEF leads
    <3>3. run \in SourcingRun
      <4>1. "pool" \in FirmSteps /\ firmRun[r].order \in Seq(FirmProviders) /\ Blank \in SourcingRun
        BY <1>1, BlankIs DEF SourcingRun, FirmSteps
      <4> QED
        BY <2>1, <3>2, <4>1 DEF SourcingRun
    <3>4. Moves(r, run)
      BY <1>1, <3>1, <3>3, PutMoves
    <3> QED
      BY <3>2, <3>3, <3>4, BlankIs DEF SourcingRun
  <2>3. HandOK(rec)
    BY <1>2, <2>2 DEF HandOK, PageSteps, SearchSteps
  <2>4. ASSUME ~firmsMet PROVE Keeps(r, rec)
    <3>1. AloneInv /\ Quiet(r)
      BY <1>1, <2>4, OthersQuiet DEF SourcingInv, AloneInv, Busy
    <3>2. \A b \in bought : Safe(b)
      <4>1. \A q \in FirmRuns, b \in bought : ~GivenUp(firmRun[q], b)
        BY <1>3, <3>1, RestingRun DEF Quiet
      <4> QED
        BY <3>1, <4>1 DEF AloneInv, PagesInv, BoughtOK
    <3>3. \A b \in bought : b.provider = p => Behind(b, FiltersFor(p), start)
      BY <1>1, <2>1, <3>1, <3>2, NothingAhead DEF AloneInv, PagesInv, start
    <3>4. Upto(FiltersFor(p), FiltersFor(p)) /\ Upto(listCursor[p].filters, FiltersFor(p))
      <4>1. FiltersFor(p).edition \in Int
        BY <2>1, SourcingAssumption DEF FirmFilters
      <4> QED
        BY <2>1, <3>1, <4>1 DEF AloneInv, PagesInv, ListsOK, Upto
    <3>5. PageOK(rec)
      BY <2>1, <2>2, <3>3, <3>4 DEF PageOK
    <3>6. KnownOK(rec) /\ PoolOK(rec) /\ JudgedOK(rec)
      BY <2>2 DEF KnownOK, PoolOK, FromPool, JudgedOK
    <3> QED
      BY <1>3, <3>5, <3>6 DEF Keeps
  <2> QED
    BY <1>1, <2>2, <2>3, <2>4, TablesStay DEF Busy
<1> QED
  BY <1>4, <1>5

(* A step that touches neither cursors nor purchases: rows only come, and  *)
(* a lead that may be contacted has its contact and its name.              *)
RowsGrow ==
  /\ TablesTyped' /\ strikes' \in [FirmProviders -> 0..BreakAt] /\ firmFaults' \in 0..MaxFirmFaults
  /\ firmRow \subseteq firmRow' /\ firmContact \subseteq firmContact' /\ named \subseteq named'
       /\ named' \subseteq firmRow'
  /\ \A f \in Firms : firmLead'[f] \in {"signal", "contact_found"} => f \in firmContact' \cap named'
KeepsRows(r, rec) ==
  /\ KnownOK(rec)' /\ PoolOK(rec)' /\ JudgedOK(rec)' /\ PageOK(rec)
  /\ \A b \in bought : GivenUp(firmRun[r], b) => GivenUp(rec, b)
  /\ \A f \in Firms : OfferedOK(f)' /\ StrategyOK(f)'
(* Such a step keeps the invariant.                                        *)
LEMMA FirmsMove ==
  ASSUME SourcingInv, NEW r \in FirmRuns, NEW rec, Moves(r, rec), Busy(r),
         UNCHANGED <<listCursor, icpEdition, bought, again, firmsMet>>, RowsGrow, HandOK(rec)',
         ~firmsMet => KeepsRows(r, rec)
  PROVE  SourcingInv'
<1>1. RowsTyped'
  BY DEF SourcingInv, RowsTyped, RouteTyped, RowsGrow
<1>2. ~firmsMet => Quiet(r)
  BY OthersQuiet DEF SourcingInv, AloneInv
<1>3. ASSUME ~firmsMet PROVE KnownOK(rec)' /\ PoolOK(rec)' /\ JudgedOK(rec)' /\ PageOK(rec)'
  <2>1. PageOK(rec)'
    BY <1>3 DEF KeepsRows, PageOK, Upto, FiltersFor, Behind, RowsGrow
  <2> QED
    BY <1>3, <2>1 DEF KeepsRows
<1>4. ASSUME ~firmsMet PROVE ListsOK' /\ BoughtOK' /\ \A f \in Firms : OfferedOK(f)' /\ StrategyOK(f)'
  BY <1>4, PagesStay, ListsStay DEF KeepsRows, SourcingInv, AloneInv, PagesInv, RowsGrow
<1> QED
  BY <1>1, <1>2, <1>3, <1>4, RunMoves DEF RowsGrow

(* Of a step that leaves rows as they are.                                 *)
LEMMA SameRows ==
  ASSUME SourcingInv, UNCHANGED <<firmLead, leadToday, named, firmRow, firmContact, poolRow, strikes, firmFaults>>,
         poolGiven' \subseteq Firms, strategies' \in [Firms -> Nat], offered' \in [Firms -> Nat]
  PROVE  RowsGrow
BY DEF SourcingInv, RowsTyped, TablesTyped, RouteTyped, HandInv, RowsGrow

(* Of a company that was in no place before.                               *)
LEMMA OfferIs ==
  ASSUME PoolInv, NEW r \in FirmRuns, Quiet(r), ~FromPool(firmRun[r]), NEW f \in Firms \ poolGiven
  PROVE  offered[f] <= firmFaults
<1>1. \A q \in FirmRuns : ~FromPool(firmRun[q])
  BY DEF Quiet, FromPool
<1> QED
  BY <1>1 DEF PoolInv, OfferedOK

(* The next company of the pool.                                           *)
LEMMA WorkOnPooledKeeps ==
  ASSUME SourcingInv, NEW r \in FirmRuns, WorkOnPooled(r)
  PROVE  SourcingInv'
<1>1. /\ firmRun[r] \in SourcingRun /\ RunsTyped /\ RowsTyped /\ HandOK(firmRun[r]) /\ firmRun[r].pc = "pool"
      /\ UNCHANGED <<firmLead, leadToday, named, firmRow, firmContact, strategies, poolRow, poolGiven, listCursor,
                     strikes, icpEdition, bought, again, firmsMet, firmFaults>>
  BY RunIs DEF SourcingInv, WorkOnPooled, At, firmTables, routeTables
<1>2. PICK f \in firmRun[r].todo :
        /\ Put(r, [firmRun[r] EXCEPT !.pc = "judge", !.from = "pool", !.at = f, !.todo = @ \ {f}])
        /\ offered' = [offered EXCEPT ![f] = @ + 1]
  BY DEF WorkOnPooled
<1>3. f \in Firms /\ offered \in [Firms -> Nat]
  BY <1>1 DEF SourcingRun, RowsTyped, TablesTyped
<1>4. PICK rec \in SourcingRun :
        /\ Moves(r, rec) /\ OnSamePage(rec, firmRun[r]) /\ rec.pc = "judge" /\ rec.from = "pool" /\ rec.at = f
        /\ rec.todo = firmRun[r].todo \ {f} /\ rec.known = firmRun[r].known /\ rec.pending = firmRun[r].pending
        /\ rec.found = firmRun[r].found /\ rec.broken = firmRun[r].broken
  <2> DEFINE run == [firmRun[r] EXCEPT !.pc = "judge", !.from = "pool", !.at = f, !.todo = @ \ {f}]
  <2>1. run \in SourcingRun
    BY <1>1, <1>3 DEF SourcingRun, FirmSteps
  <2> QED
    BY <1>1, <1>2, <2>1, PutMoves DEF SourcingRun, OnSamePage
<1>5. RowsGrow
  <2>1. offered' \in [Firms -> Nat]
    BY <1>2, <1>3
  <2> QED
    BY <1>1, <2>1, SameRows DEF RowsTyped, TablesTyped
<1>6. HandOK(rec)'
  BY <1>1, <1>3, <1>4 DEF HandOK, PageSteps, SearchSteps, OnSamePage
<1>7. ASSUME ~firmsMet PROVE KeepsRows(r, rec)
  <2>1. /\ KnownOK(firmRun[r]) /\ PoolOK(firmRun[r]) /\ PageOK(firmRun[r])
        /\ PoolInv /\ StrategyInv /\ Quiet(r)
    BY <1>1, <1>7, RunIs, OthersQuiet DEF SourcingInv, AloneInv, Busy
  <2>2. KnownOK(rec)' /\ PoolOK(rec)' /\ JudgedOK(rec)'
    BY <1>1, <1>2, <1>4, <2>1 DEF KnownOK, PoolOK, JudgedOK, FromPool, SearchSteps
  <2>3. PageOK(rec) /\ \A b : ~GivenUp(firmRun[r], b)
    BY <1>1, <1>4, <2>1 DEF PageOK, PageSteps, SearchSteps, OnSamePage, GivenUp
  <2>4. \A g \in Firms : StrategyOK(g)'
    BY <1>1, <1>4, <2>1, StrategiesStay
  <2>5. ASSUME NEW g \in Firms PROVE OfferedOK(g)'
    <3>1. CASE g = f
      <4>1. offered[f] <= firmFaults /\ offered[f] \in Nat /\ firmFaults \in Nat
        BY <1>1, <1>2, <1>3, <2>1, OfferIs DEF PoolOK, FromPool, RowsTyped, RouteTyped
      <4>2. offered'[f] = offered[f] + 1
        BY <1>2, <1>3
      <4>3. FromPool(firmRun[r])' /\ firmRun'[r].at = f
        BY <1>4 DEF FromPool, Moves
      <4> QED
        BY <1>1, <3>1, <4>1, <4>2, <4>3 DEF OfferedOK
    <3>2. CASE g # f
      <4>1. offered'[g] = offered[g] /\ OfferedOK(g)
        BY <1>2, <1>3, <2>1, <3>2 DEF PoolInv
      <4>2. \A q \in FirmRuns : ~FromPool(firmRun[q])
        BY <1>1, <2>1 DEF Quiet, FromPool
      <4> QED
        BY <1>1, <4>1, <4>2 DEF OfferedOK
    <3> QED
      BY <3>1, <3>2
  <2> QED
    BY <2>2, <2>3, <2>4, <2>5 DEF KeepsRows
<1> QED
  BY <1>1, <1>4, <1>5, <1>6, <1>7, FirmsMove DEF Busy

(* Its delivery is recorded.                                               *)
LEMMA MarkDeliveredKeeps ==
  ASSUME SourcingInv, NEW r \in FirmRuns, MarkDelivered(r)
  PROVE  SourcingInv'
<1>1. /\ firmRun[r] \in SourcingRun /\ RunsTyped /\ RowsTyped /\ HandOK(firmRun[r]) /\ firmRun[r].pc = "mark"
      /\ poolGiven' = poolGiven \cup {firmRun[r].at}
      /\ UNCHANGED <<firmLead, leadToday, named, firmRow, firmContact, strategies, poolRow, listCursor, strikes,
                     icpEdition, bought, again, offered, firmsMet, firmFaults>>
  BY RunIs DEF SourcingInv, MarkDelivered, At, firmTables, firmHistory
<1>2. PICK rec \in SourcingRun :
        /\ Moves(r, rec) /\ OnSamePage(rec, firmRun[r]) /\ rec.pc = "pool" /\ rec.from = firmRun[r].from
        /\ rec.todo = firmRun[r].todo /\ rec.known = firmRun[r].known /\ rec.pending = firmRun[r].pending
        /\ rec.found = firmRun[r].found /\ rec.broken = firmRun[r].broken
  <2> DEFINE run == [firmRun[r] EXCEPT !.pc = "pool", !.at = NoFirm]
  <2>1. run \in SourcingRun
    BY <1>1 DEF SourcingRun, FirmSteps
  <2> QED
    BY <1>1, <2>1, PutMoves DEF SourcingRun, OnSamePage, MarkDelivered
<1>3. firmRun[r].at \in Firms
  BY <1>1 DEF HandOK
<1>4. RowsGrow
  BY <1>1, <1>3, SameRows DEF RowsTyped, TablesTyped
<1>5. HandOK(rec)'
  BY <1>1, <1>2 DEF HandOK, PageSteps, SearchSteps, OnSamePage
<1>6. ASSUME ~firmsMet PROVE KeepsRows(r, rec)
  <2>1. /\ KnownOK(firmRun[r]) /\ PoolOK(firmRun[r]) /\ PageOK(firmRun[r])
        /\ PoolInv /\ StrategyInv
    BY <1>6, RunIs DEF SourcingInv, AloneInv
  <2>2. FromPool(firmRun[r])
    BY <1>1, <2>1 DEF PoolOK, FromPool
  <2>3. KnownOK(rec)' /\ PoolOK(rec)' /\ JudgedOK(rec)'
    BY <1>1, <1>2, <2>1, <2>2 DEF KnownOK, PoolOK, JudgedOK, FromPool, SearchSteps
  <2>4. PageOK(rec) /\ \A b : ~GivenUp(firmRun[r], b)
    BY <1>1, <1>2, <2>1, <2>2 DEF PageOK, PageSteps, SearchSteps, OnSamePage, GivenUp, FromPool
  <2>5. \A g \in Firms : StrategyOK(g)'
    BY <1>1, <1>2, <2>1, StrategiesStay
  <2>6. ASSUME NEW g \in Firms PROVE OfferedOK(g)'
    <3>1. OfferedOK(g)
      BY <2>1 DEF PoolInv
    <3>2. ASSUME NEW q \in FirmRuns, FromPool(firmRun[q]), firmRun[q].at = g
          PROVE  g \in poolGiven' \/ (FromPool(firmRun'[q]) /\ firmRun'[q].at = g)
      <4>1. CASE q = r
        BY <1>1, <3>2, <4>1
      <4>2. CASE q # r
        BY <1>2, <3>2, <4>2 DEF Moves
      <4> QED
        BY <4>1, <4>2
    <3>3. \A q \in FirmRuns : FromPool(firmRun'[q]) <=> FromPool(firmRun[q])'
      BY DEF FromPool
    <3> QED
      BY <1>1, <3>1, <3>2, <3>3 DEF OfferedOK
  <2> QED
    BY <2>3, <2>4, <2>5, <2>6 DEF KeepsRows
<1> QED
  BY <1>1, <1>2, <1>4, <1>5, <1>6, FirmsMove DEF Busy

(* A step that works on a company adds its rows, or none.                  *)
RestUnchanged ==
  UNCHANGED <<strategies, poolGiven, listCursor, strikes, icpEdition, bought, again, offered, firmsMet>>
(* It adds a lead and what goes with it.                                   *)
LEMMA RowsAdded ==
  ASSUME SourcingInv, RestUnchanged, NEW f \in Firms, NEW s \in {"absent", "signal", "rejected", "contact_found"},
         firmLead' = [firmLead EXCEPT ![f] = s], leadToday' \in {leadToday, leadToday \cup {f}},
         named' \in {named, named \cup {f}}, firmRow' \in {firmRow, firmRow \cup {f}},
         firmContact' \in SUBSET Firms, firmContact \subseteq firmContact', poolRow' \in {poolRow, poolRow \cup {f}},
         named' \subseteq firmRow', s \in {"signal", "contact_found"} => f \in firmContact' \cap named',
         firmFaults' \in 0..MaxFirmFaults
  PROVE  RowsGrow
<1>1. TablesTyped /\ RouteTyped /\ HandInv
  BY DEF SourcingInv, RowsTyped
<1>2. TablesTyped'
  BY <1>1 DEF TablesTyped, RestUnchanged
<1>3. strikes' \in [FirmProviders -> 0..BreakAt]
  BY <1>1 DEF RouteTyped, RestUnchanged
<1>4. \A g \in Firms : firmLead'[g] \in {"signal", "contact_found"} => g \in firmContact' \cap named'
  <2>1. SUFFICES ASSUME NEW g \in Firms, firmLead'[g] \in {"signal", "contact_found"}
                 PROVE  g \in firmContact' \cap named'
    OBVIOUS
  <2>2. CASE g = f
    BY <1>1, <2>1, <2>2 DEF TablesTyped
  <2>3. CASE g # f
    BY <1>1, <2>1, <2>3 DEF TablesTyped, HandInv
  <2> QED
    BY <2>2, <2>3
<1> QED
  BY <1>2, <1>3, <1>4 DEF RowsGrow

(* It adds no lead.                                                        *)
LEMMA RowsSame ==
  ASSUME SourcingInv, RestUnchanged, UNCHANGED <<firmLead, leadToday, named, poolRow>>,
         firmRow' \in SUBSET Firms, firmRow \subseteq firmRow',
         firmContact' \in SUBSET Firms, firmContact \subseteq firmContact', firmFaults' \in 0..MaxFirmFaults
  PROVE  RowsGrow
BY DEF SourcingInv, RowsTyped, TablesTyped, RouteTyped, HandInv, RowsGrow, RestUnchanged

(* A page's company is found to be of another industry.                    *)
LEMMA IndustryRejectsKeeps ==
  ASSUME SourcingInv, NEW r \in FirmRuns, IndustryRejects(r)
  PROVE  SourcingInv'
<1>1. /\ firmRun[r] \in SourcingRun /\ RunsTyped /\ RowsTyped /\ HandOK(firmRun[r]) /\ firmRun[r].pc = "industry"
      /\ UNCHANGED <<poolGiven, listCursor, strikes, icpEdition, bought, again, offered, firmsMet, firmFaults>>
      /\ firmFaults' \in 0..MaxFirmFaults
  BY RunIs DEF SourcingInv, IndustryRejects, At, routeTables, firmHistory, RowsTyped, RouteTyped
<1>2. PICK f \in firmRun[r].todo :
        /\ Put(r, [firmRun[r] EXCEPT !.todo = @ \ {f}, !.known = @ \cup {f}])
        /\ \/ UNCHANGED <<firmLead, leadToday, named, firmRow, firmContact, strategies, poolRow>>
           \/ /\ firmLead[f] = "absent" /\ AddLead(f, "rejected")
              /\ firmRow' = firmRow \cup {f} /\ named' = named \cup {f}
              /\ UNCHANGED <<firmContact, strategies, poolRow>>
  BY DEF IndustryRejects, firmTables
<1>3. f \in Firms /\ TablesTyped
  BY <1>1 DEF SourcingRun, RowsTyped
<1>4. PICK rec \in SourcingRun :
        /\ Moves(r, rec) /\ OnSamePage(rec, firmRun[r]) /\ rec.pc = "industry" /\ rec.from = firmRun[r].from
        /\ rec.todo \subseteq firmRun[r].todo /\ rec.known = firmRun[r].known \cup {f}
        /\ rec.pending = firmRun[r].pending /\ rec.found = firmRun[r].found /\ rec.broken = firmRun[r].broken
  <2> DEFINE run == [firmRun[r] EXCEPT !.todo = @ \ {f}, !.known = @ \cup {f}]
  <2>1. run \in SourcingRun
    BY <1>1, <1>3 DEF SourcingRun
  <2> QED
    BY <1>1, <1>2, <2>1, PutMoves DEF SourcingRun, OnSamePage
<1>5. RestUnchanged
  BY <1>1, <1>2 DEF RestUnchanged
<1>6. RowsGrow /\ firmRow \subseteq firmRow' /\ firmContact' = firmContact
  <2>1. CASE UNCHANGED <<firmLead, leadToday, named, firmRow, firmContact, strategies, poolRow>>
    BY <1>1, <1>3, <1>5, <2>1, RowsSame DEF TablesTyped
  <2>2. CASE /\ AddLead(f, "rejected") /\ firmRow' = firmRow \cup {f} /\ named' = named \cup {f}
             /\ UNCHANGED <<firmContact, strategies, poolRow>>
    <3>1. named' \subseteq firmRow'
      BY <2>2 DEF SourcingInv, HandInv
    <3> QED
      BY <1>1, <1>3, <1>5, <2>2, <3>1, RowsAdded DEF TablesTyped, AddLead
  <2> QED
    BY <1>2, <2>1, <2>2
<1>7. \A g \in Firms : firmLead'[g] = firmLead[g] \/ (g = f /\ firmLead[g] = "absent")
  BY <1>2, <1>3 DEF AddLead, TablesTyped
<1>8. HandOK(rec)'
  BY <1>1, <1>4, <1>6 DEF HandOK, PageSteps, SearchSteps, OnSamePage
<1>9. ASSUME ~firmsMet PROVE KeepsRows(r, rec)
  <2>1. KnownOK(firmRun[r]) /\ PoolOK(firmRun[r]) /\ PageOK(firmRun[r]) /\ PoolInv /\ StrategyInv
    BY <1>9, RunIs DEF SourcingInv, AloneInv
  <2>2. KnownOK(rec)'
    BY <1>1, <1>4, <1>7, <2>1 DEF KnownOK, SearchSteps
  <2>3. PoolOK(rec)' /\ JudgedOK(rec)' /\ ~FromPool(firmRun[r])
    BY <1>1, <1>4, <2>1 DEF PoolOK, FromPool, JudgedOK
  <2>4. PageOK(rec)
    BY <1>1, <1>4, <2>1 DEF PageOK, PageSteps, SearchSteps, OnSamePage
  <2>5. \A b \in bought : GivenUp(firmRun[r], b) => GivenUp(rec, b)
    BY <1>1, <1>4 DEF GivenUp, PageSteps, SearchSteps, OnSamePage
  <2>6. \A g \in Firms : OfferedOK(g)'
    BY <1>1, <1>4, <2>1, <2>3, OffersStay
  <2>7. \A g \in Firms : StrategyOK(g)'
    BY <1>1, <1>2, <1>4, <1>7, <2>1, StrategiesStay
  <2> QED
    BY <2>2, <2>3, <2>4, <2>5, <2>6, <2>7 DEF KeepsRows
<1> QED
  BY <1>1, <1>4, <1>6, <1>8, <1>9, FirmsMove DEF Busy

(* The company in hand is rejected.                                        *)
LEMMA RejectFirmKeeps ==
  ASSUME SourcingInv, NEW r \in FirmRuns, RejectFirm(r)
  PROVE  SourcingInv'
<1> DEFINE f == firmRun[r].at
<1>1. /\ firmRun[r] \in SourcingRun /\ RunsTyped /\ RowsTyped /\ HandOK(firmRun[r])
           /\ firmRun[r].pc \in {"judge", "person"}
      /\ firmLead[f] = "absent" /\ AddLead(f, "rejected") /\ Put(r, Left(r))
      /\ UNCHANGED <<named, firmRow, firmContact, strategies, poolRow, poolGiven, listCursor, strikes, icpEdition,
                     bought, again, offered, firmsMet, firmFaults>>
      /\ firmFaults' \in 0..MaxFirmFaults
  BY RunIs DEF SourcingInv, RejectFirm, At, routeTables, firmHistory, RowsTyped, RouteTyped
<1>2. f \in Firms /\ TablesTyped
  BY <1>1 DEF HandOK, RowsTyped
<1>3. PICK rec \in SourcingRun :
        /\ Moves(r, rec) /\ OnSamePage(rec, firmRun[r]) /\ rec.from = firmRun[r].from
        /\ firmRun[r].from = "pool" => rec.pc = "mark" /\ rec.at = f
        /\ firmRun[r].from # "pool" => rec.pc = "rows" /\ rec.at = NoFirm
        /\ rec.todo = firmRun[r].todo /\ rec.known = firmRun[r].known \cup {f}
        /\ rec.pending = firmRun[r].pending /\ rec.found = firmRun[r].found /\ rec.broken = firmRun[r].broken
  BY <1>1, <1>2, LeftIs, PutMoves
<1>4. RowsGrow
  <2>1. named' \subseteq firmRow' /\ RestUnchanged
    BY <1>1 DEF SourcingInv, HandInv, RestUnchanged
  <2> QED
    BY <1>1, <1>2, <2>1, RowsAdded DEF TablesTyped, AddLead
<1>5. \A g \in Firms : firmLead'[g] = firmLead[g] \/ (g = f /\ firmLead[g] = "absent")
  BY <1>1, <1>2 DEF AddLead, TablesTyped
<1> HIDE DEF f
<1>6. HandOK(rec)'
  BY <1>1, <1>2, <1>3 DEF HandOK, PageSteps, SearchSteps, OnSamePage
<1>7. ASSUME ~firmsMet PROVE KeepsRows(r, rec)
  <2>1. KnownOK(firmRun[r]) /\ PoolOK(firmRun[r]) /\ PageOK(firmRun[r]) /\ PoolInv /\ StrategyInv
    BY <1>7, RunIs DEF SourcingInv, AloneInv
  <2>2. KnownOK(rec)'
    BY <1>1, <1>3, <1>5, <2>1 DEF KnownOK, SearchSteps
  <2>3. PoolOK(rec)' /\ JudgedOK(rec)' /\ (FromPool(firmRun[r]) => FromPool(rec) /\ rec.at = firmRun[r].at)
    <3>1. firmRun[r].from \in {"page", "pool"}
      BY <1>1 DEF SourcingRun
    <3> QED
      BY <1>1, <1>3, <2>1, <3>1 DEF PoolOK, FromPool, JudgedOK, f
  <2>4. PageOK(rec)
    BY <1>1, <1>3, <2>1 DEF PageOK, PageSteps, SearchSteps, OnSamePage
  <2>5. \A b \in bought : GivenUp(firmRun[r], b) => GivenUp(rec, b)
    BY <1>1, <1>3 DEF GivenUp, PageSteps, SearchSteps, OnSamePage
  <2>6. \A g \in Firms : OfferedOK(g)'
    BY <1>1, <1>3, <2>1, <2>3, OffersStay
  <2>7. \A g \in Firms : StrategyOK(g)'
    BY <1>1, <1>3, <1>5, <2>1, StrategiesStay
  <2> QED
    BY <2>2, <2>3, <2>4, <2>5, <2>6, <2>7 DEF KeepsRows
<1> QED
  BY <1>1, <1>3, <1>4, <1>6, <1>7, FirmsMove DEF Busy

(* The company in hand is accepted: it has a row, and no lead.             *)
LEMMA AcceptFirmKeeps ==
  ASSUME SourcingInv, NEW r \in FirmRuns, AcceptFirm(r)
  PROVE  SourcingInv'
<1> DEFINE f == firmRun[r].at
<1>1. /\ firmRun[r] \in SourcingRun /\ RunsTyped /\ RowsTyped /\ HandOK(firmRun[r]) /\ firmRun[r].pc = "judge"
      /\ f \notin firmRun[r].known /\ firmRow' = firmRow \cup {f} /\ poolRow' = poolRow \cup {f}
      /\ UNCHANGED <<firmLead, leadToday, named, firmContact, strategies, poolGiven, listCursor, strikes, icpEdition,
                     bought, again, offered, firmsMet, firmFaults>>
      /\ firmFaults' \in 0..MaxFirmFaults
  BY RunIs DEF SourcingInv, AcceptFirm, At, routeTables, firmHistory, RowsTyped, RouteTyped
<1>2. f \in Firms /\ TablesTyped
  BY <1>1 DEF HandOK, RowsTyped
<1>3. PICK rec \in SourcingRun :
        /\ Moves(r, rec) /\ OnSamePage(rec, firmRun[r]) /\ WithSameFirms(rec, firmRun[r]) /\ rec.pc = "person"
  <2> DEFINE run == [firmRun[r] EXCEPT !.pc = "person"]
  <2>1. run \in SourcingRun
    BY <1>1 DEF SourcingRun, FirmSteps
  <2> QED
    BY <1>1, <2>1, PutMoves DEF SourcingRun, OnSamePage, WithSameFirms, AcceptFirm, Go
<1>4. RowsGrow
  <2>1. TablesTyped' /\ strikes' \in [FirmProviders -> 0..BreakAt]
    BY <1>1, <1>2 DEF TablesTyped, RowsTyped, RouteTyped
  <2> QED
    BY <1>1, <2>1 DEF RowsGrow, SourcingInv, HandInv
<1>5. HandOK(rec)'
  BY <1>1, <1>2, <1>3 DEF HandOK, PageSteps, SearchSteps, OnSamePage, WithSameFirms
<1>6. ASSUME ~firmsMet PROVE KeepsRows(r, rec)
  <2>1. KnownOK(firmRun[r]) /\ PoolOK(firmRun[r]) /\ PageOK(firmRun[r]) /\ PoolInv /\ StrategyInv
    BY <1>6, RunIs DEF SourcingInv, AloneInv
  <2>2. firmLead[f] = "absent"
    BY <1>1, <1>2, <2>1 DEF KnownOK, SearchSteps
  <2>3. KnownOK(rec)'
    BY <1>1, <1>3, <2>1, <2>2 DEF KnownOK, SearchSteps, WithSameFirms
  <2>4. PoolOK(rec)' /\ JudgedOK(rec)' /\ (FromPool(firmRun[r]) => FromPool(rec) /\ rec.at = firmRun[r].at)
    BY <1>1, <1>3, <2>1 DEF PoolOK, FromPool, JudgedOK, WithSameFirms
  <2>5. PageOK(rec)
    BY <1>1, <1>3, <2>1 DEF PageOK, PageSteps, SearchSteps, OnSamePage, WithSameFirms
  <2>6. \A b \in bought : GivenUp(firmRun[r], b) => GivenUp(rec, b)
    BY <1>1, <1>3 DEF GivenUp, PageSteps, SearchSteps, OnSamePage, WithSameFirms
  <2>7. \A g \in Firms : OfferedOK(g)'
    BY <1>1, <1>3, <2>1, <2>4, OffersStay
  <2>8. \A g \in Firms : StrategyOK(g)'
    BY <1>1, <1>3, <2>1, StrategiesStay
  <2> QED
    BY <2>3, <2>4, <2>5, <2>6, <2>7, <2>8 DEF KeepsRows
<1> QED
  BY <1>1, <1>3, <1>4, <1>5, <1>6, FirmsMove DEF Busy

(* A leader is at hand for free.                                           *)
LEMMA FreeLeaderKeeps ==
  ASSUME SourcingInv, NEW r \in FirmRuns, FreeLeader(r)
  PROVE  SourcingInv'
<1> DEFINE f == firmRun[r].at
<1>1. /\ firmRun[r] \in SourcingRun /\ RunsTyped /\ RowsTyped /\ HandOK(firmRun[r]) /\ firmRun[r].pc = "person"
      /\ firmContact' = firmContact \cup {f}
      /\ UNCHANGED <<firmLead, leadToday, named, firmRow, strategies, poolRow, poolGiven, listCursor, strikes, icpEdition,
                     bought, again, offered, firmsMet, firmFaults>>
      /\ firmFaults' \in 0..MaxFirmFaults
  BY RunIs DEF SourcingInv, FreeLeader, At, routeTables, firmHistory, RowsTyped, RouteTyped
<1>2. f \in Firms /\ TablesTyped
  BY <1>1 DEF HandOK, RowsTyped
<1>3. PICK rec \in SourcingRun :
        /\ Moves(r, rec) /\ OnSamePage(rec, firmRun[r]) /\ WithSameFirms(rec, firmRun[r]) /\ rec.pc = "insert"
  <2> DEFINE run == [firmRun[r] EXCEPT !.pc = "insert"]
  <2>1. run \in SourcingRun
    BY <1>1 DEF SourcingRun, FirmSteps
  <2> QED
    BY <1>1, <2>1, PutMoves DEF SourcingRun, OnSamePage, WithSameFirms, FreeLeader, Go
<1>4. RowsGrow
  <2>1. RestUnchanged
    BY <1>1 DEF RestUnchanged
  <2> QED
    BY <1>1, <1>2, <2>1, RowsSame DEF TablesTyped
<1>5. HandOK(rec)'
  BY <1>1, <1>2, <1>3 DEF HandOK, PageSteps, SearchSteps, OnSamePage, WithSameFirms
<1>6. ASSUME ~firmsMet PROVE KeepsRows(r, rec)
  <2>1. KnownOK(firmRun[r]) /\ PoolOK(firmRun[r]) /\ PageOK(firmRun[r]) /\ PoolInv /\ StrategyInv
    BY <1>6, RunIs DEF SourcingInv, AloneInv
  <2>2. KnownOK(rec)'
    BY <1>1, <1>3, <2>1 DEF KnownOK, SearchSteps, WithSameFirms
  <2>3. PoolOK(rec)' /\ JudgedOK(rec)' /\ (FromPool(firmRun[r]) => FromPool(rec) /\ rec.at = firmRun[r].at)
    BY <1>1, <1>3, <2>1 DEF PoolOK, FromPool, JudgedOK, WithSameFirms
  <2>4. PageOK(rec)
    BY <1>1, <1>3, <2>1 DEF PageOK, PageSteps, SearchSteps, OnSamePage, WithSameFirms
  <2>5. \A b \in bought : GivenUp(firmRun[r], b) => GivenUp(rec, b)
    BY <1>1, <1>3 DEF GivenUp, PageSteps, SearchSteps, OnSamePage, WithSameFirms
  <2>6. \A g \in Firms : OfferedOK(g)'
    BY <1>1, <1>3, <2>1, <2>3, OffersStay
  <2>7. \A g \in Firms : StrategyOK(g)'
    BY <1>1, <1>3, <2>1, StrategiesStay
  <2> QED
    BY <2>2, <2>3, <2>4, <2>5, <2>6, <2>7 DEF KeepsRows
<1> QED
  BY <1>1, <1>3, <1>4, <1>5, <1>6, FirmsMove DEF Busy

(* The lead is created.                                                    *)
LEMMA CreateLeadKeeps ==
  ASSUME SourcingInv, NEW r \in FirmRuns, CreateLead(r)
  PROVE  SourcingInv'
<1> DEFINE f == firmRun[r].at
<1>1. /\ firmRun[r] \in SourcingRun /\ RunsTyped /\ RowsTyped /\ HandOK(firmRun[r]) /\ firmRun[r].pc = "insert"
      /\ firmLead[f] = "absent" /\ AddLead(f, "signal") /\ named' = named \cup {f}
      /\ Put(r, [Left(r) EXCEPT !.made = @ + 1])
      /\ UNCHANGED <<firmRow, firmContact, strategies, poolRow, poolGiven, listCursor, strikes, icpEdition,
                     bought, again, offered, firmsMet, firmFaults>>
      /\ firmFaults' \in 0..MaxFirmFaults
  BY RunIs DEF SourcingInv, CreateLead, At, routeTables, firmHistory, RowsTyped, RouteTyped
<1>2. f \in Firms /\ f \in firmRow /\ f \in firmContact /\ TablesTyped
  BY <1>1 DEF HandOK, RowsTyped
<1>3. PICK rec \in SourcingRun :
        /\ Moves(r, rec) /\ OnSamePage(rec, firmRun[r]) /\ rec.from = firmRun[r].from
        /\ firmRun[r].from = "pool" => rec.pc = "mark" /\ rec.at = f
        /\ firmRun[r].from # "pool" => rec.pc = "rows" /\ rec.at = NoFirm
        /\ rec.todo = firmRun[r].todo /\ rec.known = firmRun[r].known \cup {f}
        /\ rec.pending = firmRun[r].pending /\ rec.found = firmRun[r].found /\ rec.broken = firmRun[r].broken
  <2>1. Left(r) \in SourcingRun
    BY <1>1, <1>2, LeftIs
  <2> DEFINE run == [Left(r) EXCEPT !.made = @ + 1]
  <2>2. run \in SourcingRun
    BY <2>1 DEF SourcingRun
  <2>3. /\ run.pc = Left(r).pc /\ run.at = Left(r).at /\ run.from = Left(r).from /\ run.todo = Left(r).todo
        /\ run.known = Left(r).known /\ run.pending = Left(r).pending /\ run.found = Left(r).found
        /\ run.broken = Left(r).broken /\ OnSamePage(run, Left(r))
    BY <2>1 DEF SourcingRun, OnSamePage
  <2>4. Moves(r, run)
    BY <1>1, <2>2, PutMoves
  <2>5. OnSamePage(run, firmRun[r])
    BY <1>1, <1>2, <2>3, LeftIs DEF OnSamePage
  <2> HIDE DEF run
  <2> QED
    BY <1>1, <1>2, <2>2, <2>3, <2>4, <2>5, LeftIs
<1>4. RowsGrow
  <2>1. named' \subseteq firmRow' /\ RestUnchanged
    BY <1>1, <1>2 DEF SourcingInv, HandInv, RestUnchanged
  <2> QED
    BY <1>1, <1>2, <2>1, RowsAdded DEF TablesTyped, AddLead
<1>5. \A g \in Firms : firmLead'[g] = firmLead[g] \/ (g = f /\ firmLead[g] = "absent")
  BY <1>1, <1>2 DEF AddLead, TablesTyped
<1> HIDE DEF f
<1>6. HandOK(rec)'
  BY <1>1, <1>2, <1>3 DEF HandOK, PageSteps, SearchSteps, OnSamePage
<1>7. ASSUME ~firmsMet PROVE KeepsRows(r, rec)
  <2>1. KnownOK(firmRun[r]) /\ PoolOK(firmRun[r]) /\ PageOK(firmRun[r]) /\ PoolInv /\ StrategyInv
    BY <1>7, RunIs DEF SourcingInv, AloneInv
  <2>2. KnownOK(rec)'
    BY <1>1, <1>3, <1>5, <2>1 DEF KnownOK, SearchSteps
  <2>3. PoolOK(rec)' /\ JudgedOK(rec)' /\ (FromPool(firmRun[r]) => FromPool(rec) /\ rec.at = firmRun[r].at)
    <3>1. firmRun[r].from \in {"page", "pool"}
      BY <1>1 DEF SourcingRun
    <3> QED
      BY <1>1, <1>3, <2>1, <3>1 DEF PoolOK, FromPool, JudgedOK, f
  <2>4. PageOK(rec)
    BY <1>1, <1>3, <2>1 DEF PageOK, PageSteps, SearchSteps, OnSamePage
  <2>5. \A b \in bought : GivenUp(firmRun[r], b) => GivenUp(rec, b)
    BY <1>1, <1>3 DEF GivenUp, PageSteps, SearchSteps, OnSamePage
  <2>6. \A g \in Firms : OfferedOK(g)'
    BY <1>1, <1>3, <2>1, <2>3, OffersStay
  <2>7. \A g \in Firms : StrategyOK(g)'
    BY <1>1, <1>3, <1>5, <2>1, StrategiesStay
  <2> QED
    BY <2>2, <2>3, <2>4, <2>5, <2>6, <2>7 DEF KeepsRows
<1> QED
  BY <1>1, <1>3, <1>4, <1>6, <1>7, FirmsMove DEF Busy

(* A commit of the company in hand fails.                                  *)
LEMMA RowFailsKeeps ==
  ASSUME SourcingInv, NEW r \in FirmRuns, RowFails(r)
  PROVE  SourcingInv'
<1> DEFINE f == firmRun[r].at
<1>1. /\ firmRun[r] \in SourcingRun /\ RunsTyped /\ RowsTyped /\ HandOK(firmRun[r])
      /\ firmRun[r].pc \in {"judge", "person", "insert"}
      /\ UNCHANGED <<firmLead, leadToday, named, firmRow, firmContact, strategies, poolRow, poolGiven, listCursor,
                     strikes, icpEdition, bought, again, offered, firmsMet>>
      /\ firmFaults \in Nat /\ firmFaults' = firmFaults + 1 /\ firmFaults' \in 0..MaxFirmFaults
  BY RunIs, SourcingAssumption DEF SourcingInv, RowFails, At, firmTables, routeTables, RowsTyped, RouteTyped, FirmFault
<1>2. f \in Firms /\ TablesTyped
  BY <1>1 DEF HandOK, RowsTyped
<1>3. PICK rec \in SourcingRun :
        /\ Moves(r, rec) /\ OnSamePage(rec, firmRun[r]) /\ rec.from = firmRun[r].from
        /\ firmRun[r].from = "pool" => rec.pc = "pool"
        /\ firmRun[r].from # "pool" => rec.pc = "rows"
        /\ rec.todo \subseteq firmRun[r].todo /\ rec.known = firmRun[r].known \cup {f}
        /\ rec.pending = firmRun[r].pending /\ rec.found = firmRun[r].found /\ rec.broken = firmRun[r].broken
  <2>1. CASE firmRun[r].from = "pool"
    <3> DEFINE run == [firmRun[r] EXCEPT !.pc = "pool", !.todo = {}, !.at = NoFirm, !.known = @ \cup {firmRun[r].at}]
    <3>1. run \in SourcingRun
      BY <1>1, <1>2 DEF SourcingRun, FirmSteps
    <3>2. Moves(r, run)
      BY <1>1, <2>1, <3>1, PutMoves DEF RowFails
    <3> QED
      BY <1>1, <2>1, <3>1, <3>2 DEF SourcingRun, OnSamePage
  <2>2. CASE firmRun[r].from # "pool"
    <3>1. Put(r, Left(r))
      BY <2>2 DEF RowFails
    <3> QED
      BY <1>1, <1>2, <2>2, <3>1, LeftIs, PutMoves
  <2> QED
    BY <2>1, <2>2
<1>4. RowsGrow
  BY <1>1 DEF RowsGrow, SourcingInv, HandInv, RowsTyped, RouteTyped, TablesTyped
<1> HIDE DEF f
<1>5. HandOK(rec)'
  BY <1>1, <1>2, <1>3 DEF HandOK, PageSteps, SearchSteps, OnSamePage
<1>6. ASSUME ~firmsMet PROVE KeepsRows(r, rec)
  <2>1. KnownOK(firmRun[r]) /\ PoolOK(firmRun[r]) /\ PageOK(firmRun[r]) /\ PoolInv /\ StrategyInv
    BY <1>6, RunIs DEF SourcingInv, AloneInv
  <2>2. KnownOK(rec)'
    BY <1>1, <1>3, <2>1 DEF KnownOK, SearchSteps
  <2>3. PoolOK(rec)' /\ JudgedOK(rec)'
    <3>1. firmRun[r].from \in {"page", "pool"}
      BY <1>1 DEF SourcingRun
    <3> QED
      BY <1>1, <1>3, <2>1, <3>1 DEF PoolOK, FromPool, JudgedOK
  <2>4. PageOK(rec)
    BY <1>1, <1>3, <2>1 DEF PageOK, PageSteps, SearchSteps, OnSamePage
  <2>5. \A b \in bought : GivenUp(firmRun[r], b) => GivenUp(rec, b)
    BY <1>1, <1>3 DEF GivenUp, PageSteps, SearchSteps, OnSamePage
  <2>6. \A g \in Firms : OfferedOK(g)' /\ StrategyOK(g)'
    BY <1>1, <1>2, <2>1, FaultsPay
  <2> QED
    BY <2>2, <2>3, <2>4, <2>5, <2>6 DEF KeepsRows
<1> QED
  BY <1>1, <1>3, <1>4, <1>5, <1>6, FirmsMove DEF Busy

(* The waiting companies are looked up together.                           *)
LEMMA ResolvePendingKeeps ==
  ASSUME SourcingInv, NEW r \in FirmRuns, ResolvePending(r)
  PROVE  SourcingInv'
<1>1. /\ firmRun[r] \in SourcingRun /\ RunsTyped /\ RowsTyped /\ HandOK(firmRun[r]) /\ firmRun[r].pc = "rows"
      /\ UNCHANGED <<firmLead, leadToday, named, firmRow, strategies, poolRow, poolGiven, listCursor, strikes, icpEdition,
                     bought, again, offered, firmsMet, firmFaults>>
      /\ firmFaults' \in 0..MaxFirmFaults
  BY RunIs DEF SourcingInv, ResolvePending, At, routeTables, firmHistory, RowsTyped, RouteTyped
<1>2. PICK kept \in SUBSET firmRun[r].pending, found \in SUBSET firmRun[r].pending :
        /\ firmContact' = firmContact \cup found
        /\ Put(r, [firmRun[r] EXCEPT !.pc = "settle", !.pending = kept, !.found = found])
  BY DEF ResolvePending
<1>3. kept \subseteq Firms /\ found \subseteq Firms /\ TablesTyped
  BY <1>1 DEF SourcingRun, RowsTyped
<1>4. PICK rec \in SourcingRun :
        /\ Moves(r, rec) /\ OnSamePage(rec, firmRun[r]) /\ rec.pc = "settle" /\ rec.from = firmRun[r].from
        /\ rec.pending = kept /\ rec.found = found /\ rec.todo = firmRun[r].todo /\ rec.known = firmRun[r].known
        /\ rec.at = firmRun[r].at /\ rec.broken = firmRun[r].broken
  <2> DEFINE run == [firmRun[r] EXCEPT !.pc = "settle", !.pending = kept, !.found = found]
  <2>1. run \in SourcingRun
    BY <1>1, <1>3 DEF SourcingRun, FirmSteps
  <2> QED
    BY <1>1, <1>2, <2>1, PutMoves DEF SourcingRun, OnSamePage
<1>5. RowsGrow
  <2>1. RestUnchanged
    BY <1>1 DEF RestUnchanged
  <2> QED
    BY <1>1, <1>2, <1>3, <2>1, RowsSame DEF TablesTyped
<1>6. HandOK(rec)'
  BY <1>1, <1>2, <1>4 DEF HandOK, PageSteps, SearchSteps, OnSamePage
<1>7. ASSUME ~firmsMet PROVE KeepsRows(r, rec)
  <2>1. KnownOK(firmRun[r]) /\ PoolOK(firmRun[r]) /\ PageOK(firmRun[r]) /\ PoolInv /\ StrategyInv
    BY <1>7, RunIs DEF SourcingInv, AloneInv
  <2>2. KnownOK(rec)'
    BY <1>1, <1>2, <1>4, <2>1 DEF KnownOK, SearchSteps
  <2>3. PoolOK(rec)' /\ JudgedOK(rec)' /\ ~FromPool(firmRun[r])
    BY <1>1, <1>4, <2>1 DEF PoolOK, FromPool, JudgedOK
  <2>4. PageOK(rec)
    BY <1>1, <1>4, <2>1 DEF PageOK, PageSteps, SearchSteps, OnSamePage
  <2>5. \A b \in bought : GivenUp(firmRun[r], b) => GivenUp(rec, b)
    BY <1>1, <1>4 DEF GivenUp, PageSteps, SearchSteps, OnSamePage
  <2>6. \A g \in Firms : OfferedOK(g)'
    BY <1>1, <1>4, <2>1, <2>3, OffersStay
  <2>7. \A g \in Firms : StrategyOK(g)'
    BY <1>1, <1>4, <2>1, StrategiesStay
  <2> QED
    BY <2>2, <2>3, <2>4, <2>5, <2>6, <2>7 DEF KeepsRows
<1> QED
  BY <1>1, <1>4, <1>5, <1>6, <1>7, FirmsMove DEF Busy

(* One of them is settled.                                                 *)
LEMMA SettlePendingKeeps ==
  ASSUME SourcingInv, NEW r \in FirmRuns, SettlePending(r)
  PROVE  SourcingInv'
<1>1. /\ firmRun[r] \in SourcingRun /\ RunsTyped /\ RowsTyped /\ HandOK(firmRun[r]) /\ firmRun[r].pc = "settle"
      /\ UNCHANGED <<firmRow, firmContact, strategies, poolRow, poolGiven, listCursor, strikes, icpEdition,
                     bought, again, offered, firmsMet>>
      /\ firmFaults \in 0..MaxFirmFaults
  BY RunIs DEF SourcingInv, SettlePending, At, routeTables, firmHistory, RowsTyped, RouteTyped
<1>2. PICK f \in firmRun[r].pending :
        LET run == [firmRun[r] EXCEPT !.pending = @ \ {f}] IN
        /\ Put(r, run) \/ Put(r, [run EXCEPT !.made = @ + 1])
        /\ \/ /\ firmLead[f] = "absent" /\ f \in firmRun[r].found
              /\ AddLead(f, "signal") /\ named' = named \cup {f} /\ UNCHANGED firmFaults
           \/ firmLead[f] = "absent" /\ AddLead(f, "rejected") /\ UNCHANGED <<named, firmFaults>>
           \/ UNCHANGED <<firmLead, leadToday, named, firmFaults>>
           \/ FirmFault /\ UNCHANGED <<firmLead, leadToday, named>>
  <2>1. PICK f \in firmRun[r].pending :
       LET run == [firmRun[r] EXCEPT !.pending = @ \ {f}] IN
       \/ /\ firmLead[f] = "absent" /\ f \in run.found
          /\ AddLead(f, "signal") /\ named' = named \cup {f}
          /\ Put(r, [run EXCEPT !.made = @ + 1]) /\ UNCHANGED firmFaults
       \/ /\ firmLead[f] = "absent" /\ f \notin run.found
          /\ AddLead(f, "rejected") /\ Put(r, run) /\ UNCHANGED <<named, firmFaults>>
       \/ /\ firmLead[f] # "absent"
          /\ Put(r, run) /\ UNCHANGED <<firmLead, leadToday, named, firmFaults>>
       \/ /\ FirmFault
          /\ Put(r, run) /\ UNCHANGED <<firmLead, leadToday, named>>
    BY DEF SettlePending
  <2>2. [firmRun[r] EXCEPT !.pending = @ \ {f}].found = firmRun[r].found
    BY <1>1 DEF SourcingRun
  <2> QED
    BY <2>1, <2>2
<1>3. f \in Firms /\ f \in firmRow /\ TablesTyped
  BY <1>1 DEF SourcingRun, RowsTyped, HandOK
<1>4. PICK rec \in SourcingRun :
        /\ Moves(r, rec) /\ OnSamePage(rec, firmRun[r]) /\ rec.pc = "settle" /\ rec.from = firmRun[r].from
        /\ rec.pending \subseteq firmRun[r].pending /\ rec.found = firmRun[r].found /\ rec.todo = firmRun[r].todo
        /\ rec.known = firmRun[r].known /\ rec.broken = firmRun[r].broken
  <2> DEFINE run == [firmRun[r] EXCEPT !.pending = @ \ {f}]
             more == [run EXCEPT !.made = @ + 1]
  <2>1. /\ run \in SourcingRun /\ OnSamePage(run, firmRun[r]) /\ run.pc = "settle" /\ run.from = firmRun[r].from
        /\ run.pending \subseteq firmRun[r].pending /\ run.found = firmRun[r].found /\ run.todo = firmRun[r].todo
        /\ run.known = firmRun[r].known /\ run.broken = firmRun[r].broken
    BY <1>1 DEF SourcingRun, OnSamePage
  <2>2. Put(r, run) \/ Put(r, more)
    BY <1>2
  <2> HIDE DEF run
  <2>3. /\ more \in SourcingRun /\ OnSamePage(more, run) /\ more.pc = run.pc /\ more.from = run.from
        /\ more.pending = run.pending /\ more.found = run.found /\ more.todo = run.todo
        /\ more.known = run.known /\ more.broken = run.broken
    BY <2>1 DEF SourcingRun, OnSamePage
  <2> HIDE DEF more
  <2>4. CASE Put(r, run)
    BY <1>1, <2>1, <2>4, PutMoves
  <2>5. CASE Put(r, more)
    <3>1. OnSamePage(more, firmRun[r])
      BY <2>1, <2>3 DEF OnSamePage
    <3> QED
      BY <1>1, <2>1, <2>3, <2>5, <3>1, PutMoves
  <2> QED
    BY <2>2, <2>4, <2>5
<1>5. RestUnchanged
  BY <1>1 DEF RestUnchanged
<1>6. RowsGrow
  <2>1. CASE /\ f \in firmRun[r].found /\ AddLead(f, "signal") /\ named' = named \cup {f} /\ UNCHANGED firmFaults
    <3>1. named' \subseteq firmRow' /\ f \in firmContact'
      BY <1>1, <1>3, <2>1 DEF SourcingInv, HandInv, HandOK
    <3> QED
      BY <1>1, <1>3, <1>5, <2>1, <3>1, RowsAdded DEF TablesTyped, AddLead
  <2>2. CASE AddLead(f, "rejected") /\ UNCHANGED <<named, firmFaults>>
    <3>1. named' \subseteq firmRow'
      BY <1>1, <2>2 DEF SourcingInv, HandInv
    <3> QED
      BY <1>1, <1>3, <1>5, <2>2, <3>1, RowsAdded DEF TablesTyped, AddLead
  <2>3. CASE UNCHANGED <<firmLead, leadToday, named>> /\ (UNCHANGED firmFaults \/ FirmFault)
    <3>1. firmFaults' \in 0..MaxFirmFaults
      BY <1>1, <2>3, SourcingAssumption DEF FirmFault
    <3> QED
      BY <1>1, <1>3, <1>5, <2>3, <3>1, RowsSame DEF TablesTyped
  <2> QED
    BY <1>2, <2>1, <2>2, <2>3
<1>7. \A g \in Firms : firmLead'[g] = firmLead[g] \/ (g = f /\ firmLead[g] = "absent")
  BY <1>2, <1>3 DEF AddLead, TablesTyped
<1>8. HandOK(rec)'
  BY <1>1, <1>4 DEF HandOK, PageSteps, SearchSteps, OnSamePage
<1>9. ASSUME ~firmsMet PROVE KeepsRows(r, rec)
  <2>1. KnownOK(firmRun[r]) /\ PoolOK(firmRun[r]) /\ PageOK(firmRun[r]) /\ PoolInv /\ StrategyInv
    BY <1>9, RunIs DEF SourcingInv, AloneInv
  <2>2. KnownOK(rec)'
    BY <1>1, <1>4, <1>7, <2>1 DEF KnownOK, SearchSteps
  <2>3. PoolOK(rec)' /\ JudgedOK(rec)' /\ ~FromPool(firmRun[r])
    BY <1>1, <1>4, <2>1 DEF PoolOK, FromPool, JudgedOK
  <2>4. PageOK(rec)
    BY <1>1, <1>4, <2>1 DEF PageOK, PageSteps, SearchSteps, OnSamePage
  <2>5. \A b \in bought : GivenUp(firmRun[r], b) => GivenUp(rec, b)
    BY <1>1, <1>4 DEF GivenUp, PageSteps, SearchSteps, OnSamePage
  <2>6. \A g \in Firms : OfferedOK(g)' /\ StrategyOK(g)'
    <3>1. CASE UNCHANGED firmFaults
      <4>1. \A g \in Firms : OfferedOK(g)'
        BY <1>1, <1>4, <2>1, <2>3, <3>1, OffersStay
      <4>2. \A g \in Firms : StrategyOK(g)'
        BY <1>1, <1>4, <1>7, <2>1, <3>1, StrategiesStay
      <4> QED
        BY <4>1, <4>2
    <3>2. CASE FirmFault
      BY <1>1, <1>3, <2>1, <3>2, FaultsPay DEF FirmFault
    <3> QED
      BY <1>2, <3>1, <3>2
  <2> QED
    BY <2>2, <2>3, <2>4, <2>5, <2>6 DEF KeepsRows
<1> QED
  BY <1>1, <1>4, <1>6, <1>8, <1>9, FirmsMove DEF Busy

(* The leads to be qualified have what a lead has.                         *)
LEMMA SignalsAre ==
  ASSUME SourcingInv
  PROVE  Signals \in SUBSET Firms /\ Signals \subseteq firmContact \cap named
           /\ \A f \in Signals : firmLead[f] = "signal"
BY DEF SourcingInv, HandInv, Signals

(* The attempt is recorded; the next provider is tried, or leads qualified. *)
LEMMA RouteKeeps ==
  ASSUME SourcingInv, NEW r \in FirmRuns, Route(r)
  PROVE  SourcingInv'
<1>1. /\ firmRun[r] \in SourcingRun /\ RunsTyped /\ RowsTyped /\ HandOK(firmRun[r]) /\ firmRun[r].pc = "route"
      /\ UNCHANGED <<firmLead, leadToday, named, firmRow, firmContact, strategies, poolRow, poolGiven, listCursor,
                     icpEdition, bought, again, offered, firmsMet, firmFaults>>
      /\ firmFaults' \in 0..MaxFirmFaults
  BY RunIs DEF SourcingInv, Route, At, firmTables, firmHistory, RowsTyped, RouteTyped
<1>2. firmRun[r].order # <<>> /\ firmRun[r].order \in Seq(FirmProviders) /\ Provider(r) \in FirmProviders
  BY <1>1 DEF HandOK, SourcingRun, Provider
<1>3. strikes' \in [FirmProviders -> 0..BreakAt]
  <2> DEFINE p == Provider(r)
             x == IF firmRun[r].outcome # "quality_fail" THEN 0 ELSE IF strikes[p] < BreakAt THEN strikes[p] + 1 ELSE strikes[p]
  <2>1. strikes' = [strikes EXCEPT ![p] = x]
    BY DEF Route
  <2>2. strikes \in [FirmProviders -> 0..BreakAt] /\ strikes[p] \in 0..BreakAt /\ BreakAt \in Nat
    BY <1>1, <1>2, SourcingAssumption DEF RowsTyped, RouteTyped
  <2>3. x \in 0..BreakAt
    BY <2>2
  <2> HIDE DEF x
  <2> QED
    BY <2>1, <2>2, <2>3
<1>4. PICK order \in Seq(FirmProviders), leads \in SUBSET Firms, step \in {"search", "qualify"} :
        /\ Put(r, [Blank EXCEPT !.pc = step, !.order = order, !.todo = leads])
        /\ step = "search" => order # <<>> /\ leads = {}
        /\ step = "qualify" => leads = Signals
  <2>1. CASE SwitchesProvider(firmRun[r].outcome) /\ Len(firmRun[r].order) > 1
    <3> DEFINE o == firmRun[r].order
    <3>1. o \in Seq(FirmProviders) /\ Len(o) > 1
      BY <1>2, <2>1
    <3> HIDE DEF o
    <3>4. Tail(o) \in Seq(FirmProviders) /\ Len(Tail(o)) = Len(o) - 1
      BY <3>1
    <3>5. Tail(o) # <<>>
      <4>1. Len(o) \in Nat /\ Len(<<>>) = 0
        BY <3>1
      <4>2. ASSUME Tail(o) = <<>> PROVE FALSE
        <5>1. Len(Tail(o)) = 0
          BY <4>1, <4>2
        <5>2. Len(o) - 1 = 0
          BY <3>4, <5>1, Zenon
        <5>3. \A n \in Nat : n > 1 => n - 1 # 0
          OBVIOUS
        <5> QED
          BY <3>1, <4>1, <5>2, <5>3, Zenon
      <4> QED
        BY <4>2
    <3>2. Put(r, [Blank EXCEPT !.pc = "search", !.order = Tail(firmRun[r].order), !.todo = {}])
      BY <2>1 DEF Route
    <3> QED
      BY <3>2, <3>4, <3>5 DEF o
  <2>2. CASE ~(SwitchesProvider(firmRun[r].outcome) /\ Len(firmRun[r].order) > 1)
    <3>1. Put(r, [Blank EXCEPT !.pc = "qualify", !.order = firmRun[r].order, !.todo = Signals])
      BY <2>2 DEF Route
    <3> QED
      BY <1>2, <3>1, SignalsAre
  <2> QED
    BY <2>1, <2>2
<1>5. PICK rec \in SourcingRun :
        /\ Moves(r, rec) /\ rec.pc = step /\ rec.order = order /\ rec.todo = leads /\ rec.pending = {} /\ rec.found = {}
        /\ rec.from = "page" /\ ~rec.last /\ ~rec.broken
  <2> DEFINE run == [Blank EXCEPT !.pc = step, !.order = order, !.todo = leads]
  <2>1. run \in SourcingRun
    BY <1>4, BlankIs DEF SourcingRun, FirmSteps
  <2> QED
    BY <1>1, <1>4, <2>1, PutMoves, BlankIs DEF SourcingRun
<1>6. RowsGrow
  BY <1>1, <1>3 DEF RowsGrow, SourcingInv, HandInv, RowsTyped, TablesTyped
<1>7. HandOK(rec)'
  BY <1>1, <1>4, <1>5, SignalsAre DEF HandOK, PageSteps, SearchSteps
<1>8. ASSUME ~firmsMet PROVE KeepsRows(r, rec)
  <2>1. PoolInv /\ StrategyInv /\ ~FromPool(firmRun[r])
    BY <1>1, <1>8 DEF SourcingInv, AloneInv, FromPool
  <2>2. KnownOK(rec)' /\ PoolOK(rec)' /\ JudgedOK(rec)'
    BY <1>1, <1>4, <1>5, SignalsAre DEF KnownOK, SearchSteps, PoolOK, FromPool, JudgedOK
  <2>3. PageOK(rec) /\ \A b : ~GivenUp(firmRun[r], b)
    BY <1>1, <1>5 DEF PageOK, PageSteps, SearchSteps, GivenUp
  <2>4. \A g \in Firms : OfferedOK(g)'
    BY <1>1, <1>5, <2>1, OffersStay
  <2>5. \A g \in Firms : StrategyOK(g)'
    BY <1>1, <1>5, <2>1, StrategiesStay
  <2> QED
    BY <2>2, <2>3, <2>4, <2>5 DEF KeepsRows
<1> QED
  BY <1>1, <1>5, <1>6, <1>7, <1>8, FirmsMove DEF Busy

(* A lead is judged: rejected, given a strategy, or left.                  *)
LEMMA QualifyLeadKeeps ==
  ASSUME SourcingInv, NEW r \in FirmRuns, QualifyLead(r)
  PROVE  SourcingInv'
<1>1. /\ firmRun[r] \in SourcingRun /\ RunsTyped /\ RowsTyped /\ HandOK(firmRun[r]) /\ firmRun[r].pc = "qualify"
      /\ UNCHANGED <<leadToday, named, firmRow, firmContact, poolRow, poolGiven, listCursor, strikes, icpEdition,
                     bought, again, offered, firmsMet, firmFaults>>
      /\ firmFaults \in 0..MaxFirmFaults
  BY RunIs DEF SourcingInv, QualifyLead, At, routeTables, firmHistory, RowsTyped, RouteTyped
<1>2. PICK f \in firmRun[r].todo :
       LET run == [firmRun[r] EXCEPT !.todo = @ \ {f}] IN
       \/ /\ strategies' = [strategies EXCEPT ![f] = @ + 1]
          /\ Put(r, [run EXCEPT !.pc = "promote", !.at = f]) /\ UNCHANGED firmLead
       \/ /\ Put(r, run) /\ UNCHANGED strategies
          /\ firmLead' = [firmLead EXCEPT ![f] = "rejected"] \/ UNCHANGED firmLead
  BY DEF QualifyLead
<1>3. f \in Firms /\ f \in firmContact \cap named /\ TablesTyped /\ firmRun[r].todo \subseteq firmContact \cap named
  BY <1>1 DEF SourcingRun, RowsTyped, HandOK
<1>4. PICK rec \in SourcingRun :
        /\ Moves(r, rec) /\ rec.from = firmRun[r].from /\ rec.last = firmRun[r].last
        /\ rec.todo = firmRun[r].todo \ {f} /\ rec.pending = firmRun[r].pending /\ rec.found = firmRun[r].found
        /\ rec.broken = firmRun[r].broken
        /\ \/ /\ rec.pc = "promote" /\ rec.at = f /\ strategies' = [strategies EXCEPT ![f] = @ + 1]
             /\ UNCHANGED firmLead
           \/ /\ rec.pc = "qualify" /\ UNCHANGED strategies
              /\ firmLead' = [firmLead EXCEPT ![f] = "rejected"] \/ UNCHANGED firmLead
  <2> DEFINE run == [firmRun[r] EXCEPT !.todo = @ \ {f}]
             promoted == [run EXCEPT !.pc = "promote", !.at = f]
  <2>1. /\ run \in SourcingRun /\ run.pc = "qualify" /\ run.from = firmRun[r].from /\ run.last = firmRun[r].last
        /\ run.todo = firmRun[r].todo \ {f} /\ run.pending = firmRun[r].pending /\ run.found = firmRun[r].found
        /\ run.broken = firmRun[r].broken
    BY <1>1 DEF SourcingRun
  <2>2. \/ /\ strategies' = [strategies EXCEPT ![f] = @ + 1] /\ Put(r, promoted) /\ UNCHANGED firmLead
        \/ /\ Put(r, run) /\ UNCHANGED strategies
           /\ firmLead' = [firmLead EXCEPT ![f] = "rejected"] \/ UNCHANGED firmLead
    BY <1>2
  <2> HIDE DEF run
  <2>3. /\ promoted \in SourcingRun /\ promoted.pc = "promote" /\ promoted.at = f /\ promoted.from = run.from
        /\ promoted.last = run.last /\ promoted.todo = run.todo /\ promoted.pending = run.pending
        /\ promoted.found = run.found /\ promoted.broken = run.broken
    BY <1>3, <2>1 DEF SourcingRun, FirmSteps
  <2> HIDE DEF promoted
  <2>4. CASE /\ strategies' = [strategies EXCEPT ![f] = @ + 1] /\ Put(r, promoted) /\ UNCHANGED firmLead
    BY <1>1, <2>1, <2>3, <2>4, PutMoves
  <2>5. CASE /\ Put(r, run) /\ UNCHANGED strategies
             /\ firmLead' = [firmLead EXCEPT ![f] = "rejected"] \/ UNCHANGED firmLead
    BY <1>1, <2>1, <2>5, PutMoves
  <2> QED
    BY <2>2, <2>4, <2>5
<1>5. RowsGrow
  <2>1. CASE UNCHANGED firmLead
    <3>1. strategies' \in [Firms -> Nat]
      BY <1>2, <1>3 DEF TablesTyped
    <3> QED
      BY <1>1, <2>1, <3>1, SameRows DEF RowsTyped, TablesTyped
  <2>2. CASE firmLead' = [firmLead EXCEPT ![f] = "rejected"] /\ UNCHANGED strategies
    <3>1. RestUnchanged /\ named' \subseteq firmRow'
      BY <1>1, <2>2 DEF RestUnchanged, SourcingInv, HandInv
    <3> QED
      BY <1>1, <1>3, <2>2, <3>1, RowsAdded DEF TablesTyped
  <2> QED
    BY <1>4, <2>1, <2>2
<1>6. \A g \in Firms : firmLead'[g] = firmLead[g] \/ g = f
  BY <1>4, <1>3 DEF TablesTyped
<1>7. HandOK(rec)'
  BY <1>1, <1>3, <1>4 DEF HandOK, PageSteps, SearchSteps
<1>8. ASSUME ~firmsMet PROVE KeepsRows(r, rec)
  <2>1. /\ KnownOK(firmRun[r]) /\ PoolOK(firmRun[r]) /\ JudgedOK(firmRun[r]) /\ PageOK(firmRun[r])
        /\ PoolInv /\ StrategyInv /\ Quiet(r) /\ ~FromPool(firmRun[r])
    BY <1>1, <1>8, RunIs, OthersQuiet DEF SourcingInv, AloneInv, Busy, FromPool
  <2>2. firmLead[f] = "signal" /\ \A g \in firmRun[r].todo : g \in Firms /\ firmLead[g] = "signal"
    BY <1>1, <2>1 DEF JudgedOK, SourcingRun
  <2>3. KnownOK(rec)' /\ PoolOK(rec)'
    BY <1>1, <1>4, <2>1 DEF KnownOK, SearchSteps, PoolOK, FromPool
  <2>4. JudgedOK(rec)'
    BY <1>4, <1>6, <2>2 DEF JudgedOK
  <2>5. PageOK(rec) /\ \A b : ~GivenUp(firmRun[r], b)
    BY <1>1, <1>4, <2>1 DEF PageOK, PageSteps, SearchSteps, GivenUp
  <2>6. \A g \in Firms : OfferedOK(g)'
    BY <1>1, <1>4, <2>1, OffersStay
  <2>7. \A g \in Firms : StrategyOK(g)'
    <3>1. CASE UNCHANGED strategies
      BY <1>1, <1>4, <1>6, <2>1, <2>2, <3>1, StrategiesStay
    <3>2. CASE rec.pc = "promote" /\ rec.at = f /\ strategies' = [strategies EXCEPT ![f] = @ + 1] /\ UNCHANGED firmLead
      <4>1. \A q \in FirmRuns : firmRun[q].pc # "promote"
        BY <1>1, <2>1 DEF Quiet
      <4>2. ASSUME NEW g \in Firms PROVE StrategyOK(g)'
        <5>1. strategies[g] <= firmFaults + 1 /\ (strategies[g] <= firmFaults \/ firmLead[g] = "contact_found")
          BY <2>1, <4>1 DEF StrategyInv, StrategyOK
        <5>2. strategies[g] \in Nat /\ firmFaults \in Nat
                /\ strategies'[g] = IF g = f THEN strategies[g] + 1 ELSE strategies[g]
          BY <1>1, <1>3, <3>2 DEF TablesTyped
        <5>3. CASE g = f
          <6>1. firmRun'[r].pc = "promote" /\ firmRun'[r].at = f
            BY <1>4, <3>2 DEF Moves
          <6>2. strategies'[g] <= firmFaults + 1
            BY <2>2, <5>1, <5>2, <5>3
          <6> QED
            BY <1>1, <5>3, <6>1, <6>2 DEF StrategyOK
        <5>4. CASE g # f
          BY <1>1, <3>2, <5>1, <5>2, <5>4 DEF StrategyOK
        <5> QED
          BY <5>3, <5>4
      <4> QED
        BY <4>2
    <3> QED
      BY <1>4, <3>1, <3>2
  <2> QED
    BY <2>3, <2>4, <2>5, <2>6, <2>7 DEF KeepsRows
<1> QED
  BY <1>1, <1>4, <1>5, <1>7, <1>8, FirmsMove DEF Busy

(* The lead with its strategy is promoted.                                 *)
LEMMA PromoteLeadKeeps ==
  ASSUME SourcingInv, NEW r \in FirmRuns, PromoteLead(r)
  PROVE  SourcingInv'
<1> DEFINE f == firmRun[r].at
<1>1. /\ firmRun[r] \in SourcingRun /\ RunsTyped /\ RowsTyped /\ HandOK(firmRun[r]) /\ firmRun[r].pc = "promote"
      /\ firmLead' = [firmLead EXCEPT ![f] = "contact_found"]
      /\ UNCHANGED <<leadToday, named, firmRow, firmContact, strategies, poolRow, poolGiven, listCursor, strikes,
                     icpEdition, bought, again, offered, firmsMet, firmFaults>>
      /\ firmFaults \in 0..MaxFirmFaults
  BY RunIs DEF SourcingInv, PromoteLead, At, routeTables, firmHistory, RowsTyped, RouteTyped
<1>2. f \in Firms /\ f \in firmContact \cap named /\ TablesTyped
  BY <1>1 DEF RowsTyped, HandOK
<1>3. PICK rec \in SourcingRun :
        /\ Moves(r, rec) /\ rec.from = firmRun[r].from /\ rec.last = firmRun[r].last /\ rec.pc = "qualify"
        /\ rec.todo = firmRun[r].todo /\ rec.pending = firmRun[r].pending /\ rec.found = firmRun[r].found
        /\ rec.broken = firmRun[r].broken
  <2> DEFINE run == [firmRun[r] EXCEPT !.pc = "qualify", !.at = NoFirm]
  <2>1. run \in SourcingRun
    BY <1>1 DEF SourcingRun, FirmSteps
  <2> QED
    BY <1>1, <2>1, PutMoves DEF SourcingRun, PromoteLead
<1>4. RowsGrow
  <2>1. RestUnchanged /\ named' \subseteq firmRow'
    BY <1>1 DEF RestUnchanged, SourcingInv, HandInv
  <2> QED
    BY <1>1, <1>2, <2>1, RowsAdded DEF TablesTyped
<1>5. \A g \in Firms : firmLead'[g] = IF g = f THEN "contact_found" ELSE firmLead[g]
  BY <1>1, <1>2 DEF TablesTyped
<1>6. HandOK(rec)'
  BY <1>1, <1>2, <1>3 DEF HandOK, PageSteps, SearchSteps
<1>7. ASSUME ~firmsMet PROVE KeepsRows(r, rec)
  <2>1. /\ KnownOK(firmRun[r]) /\ PoolOK(firmRun[r]) /\ JudgedOK(firmRun[r]) /\ PageOK(firmRun[r])
        /\ PoolInv /\ StrategyInv /\ ~FromPool(firmRun[r])
    BY <1>1, <1>7, RunIs DEF SourcingInv, AloneInv, FromPool
  <2>2. KnownOK(rec)' /\ PoolOK(rec)'
    BY <1>1, <1>3, <2>1 DEF KnownOK, SearchSteps, PoolOK, FromPool
  <2>3. JudgedOK(rec)'
    <3>1. f \notin firmRun[r].todo /\ \A g \in firmRun[r].todo : g \in Firms /\ firmLead[g] = "signal"
      BY <1>1, <2>1 DEF JudgedOK, SourcingRun
    <3> QED
      BY <1>3, <1>5, <3>1 DEF JudgedOK
  <2>4. PageOK(rec) /\ \A b : ~GivenUp(firmRun[r], b)
    BY <1>1, <1>3, <2>1 DEF PageOK, PageSteps, SearchSteps, GivenUp
  <2>5. \A g \in Firms : OfferedOK(g)'
    BY <1>1, <1>3, <2>1, OffersStay
  <2>6. ASSUME NEW g \in Firms PROVE StrategyOK(g)'
    <3>1. StrategyOK(g)
      BY <2>1 DEF StrategyInv
    <3>2. CASE g = f
      BY <1>1, <1>5, <3>1, <3>2 DEF StrategyOK
    <3>3. CASE g # f
      <4>1. \A q \in FirmRuns : firmRun[q].pc = "promote" /\ firmRun[q].at = g => firmRun'[q] = firmRun[q]
        BY <1>3, <3>3 DEF Moves
      <4> QED
        BY <1>1, <1>5, <3>1, <3>3, <4>1 DEF StrategyOK
    <3> QED
      BY <3>2, <3>3
  <2> QED
    BY <2>2, <2>3, <2>4, <2>5, <2>6 DEF KeepsRows
<1> QED
  BY <1>1, <1>3, <1>4, <1>6, <1>7, FirmsMove DEF Busy

(* A step that may change the cursors and the purchases, and no firm.      *)
LEMMA CursorMoves ==
  ASSUME SourcingInv, NEW r \in FirmRuns, NEW rec, Moves(r, rec), Busy(r),
         UNCHANGED <<firmTables, poolGiven, icpEdition, offered, firmsMet>>, RouteTyped', HandOK(rec),
         firmFaults' = firmFaults + 1 \/ (firmFaults' = firmFaults /\ firmRun[r].pc # "promote"
              /\ ~FromPool(firmRun[r])),
         ~firmsMet => KnownOK(rec) /\ PoolOK(rec) /\ JudgedOK(rec) /\ PageOK(rec)' /\ ListsOK' /\ BoughtOK'
  PROVE  SourcingInv'
<1>1. UNCHANGED <<firmLead, leadToday, named, firmRow, firmContact, strategies, poolRow, poolGiven, icpEdition,
                  offered, firmsMet>>
  BY DEF firmTables
<1>2. RowsTyped'
  BY <1>1 DEF SourcingInv, RowsTyped, TablesTyped
<1>3. HandOK(rec)'
  BY <1>1 DEF HandOK
<1>4. ~firmsMet => Quiet(r)
  BY OthersQuiet DEF SourcingInv, AloneInv
<1>5. ASSUME ~firmsMet PROVE KnownOK(rec)' /\ PoolOK(rec)' /\ JudgedOK(rec)'
  BY <1>1, <1>5 DEF KnownOK, PoolOK, FromPool, JudgedOK
<1>6. ASSUME ~firmsMet PROVE \A f \in Firms : OfferedOK(f)' /\ StrategyOK(f)'
  <2>1. PoolInv /\ StrategyInv /\ TablesTyped /\ firmFaults \in Nat
    BY <1>6 DEF SourcingInv, AloneInv, RowsTyped, RouteTyped
  <2>2. CASE firmFaults' = firmFaults + 1
    BY <1>1, <2>1, <2>2, FaultsPay
  <2>3. CASE firmFaults' = firmFaults /\ firmRun[r].pc # "promote" /\ ~FromPool(firmRun[r])
    BY <1>1, <2>1, <2>3, OffersStay, StrategiesStay
  <2> QED
    BY <2>2, <2>3
<1>7. named' \subseteq firmRow'
        /\ \A f \in Firms : firmLead'[f] \in {"signal", "contact_found"} => f \in firmContact' \cap named'
  BY <1>1 DEF SourcingInv, HandInv
<1> QED
  BY <1>1, <1>2, <1>3, <1>4, <1>5, <1>6, <1>7, RunMoves

(* Of a run that searches alone at a provider: all that is not safe, it    *)
(* gave up, and what it has of its list is the list as it began it.        *)
LEMMA AloneAtList ==
  ASSUME SourcingInv, ~firmsMet, NEW r \in FirmRuns, Busy(r)
  PROVE  /\ \A b \in bought : Safe(b) \/ GivenUp(firmRun[r], b)
         /\ ListsOK /\ KnownOK(firmRun[r]) /\ PoolOK(firmRun[r]) /\ JudgedOK(firmRun[r]) /\ PageOK(firmRun[r])
         /\ bought \subseteq ListPage
<1>1. Quiet(r) /\ PagesInv /\ bought \subseteq ListPage
  BY OthersQuiet DEF SourcingInv, AloneInv, RowsTyped, RouteTyped
<1>2. \A q \in FirmRuns \ {r}, b \in bought : ~GivenUp(firmRun[q], b)
  BY <1>1, RestingRun DEF Quiet
<1> QED
  BY <1>1, <1>2, RunIs DEF PagesInv, BoughtOK

(* Icypeas counts no company: the list is over.                            *)
LEMMA CountsNoneKeeps ==
  ASSUME SourcingInv, NEW r \in FirmRuns, CountsNone(r)
  PROVE  SourcingInv'
<1> DEFINE filters == firmRun[r].filters
<1>1. /\ firmRun[r] \in SourcingRun /\ RunsTyped /\ RowsTyped /\ HandOK(firmRun[r]) /\ firmRun[r].pc = "page"
      /\ Head(firmRun[r].order) = "icypeas"
      /\ listCursor' = [listCursor EXCEPT !["icypeas"] = [filters |-> filters, page |-> 1, exhausted |-> TRUE]]
      /\ UNCHANGED <<firmTables, poolGiven, strikes, icpEdition, bought, again, offered, firmsMet, firmFaults>>
  BY RunIs DEF SourcingInv, CountsNone, At, Provider, firmHistory
<1>2. PICK rec \in SourcingRun :
        /\ Moves(r, rec) /\ OnSamePage(rec, firmRun[r]) /\ WithSameFirms(rec, firmRun[r]) /\ rec.pc = "route"
  <2> DEFINE run == [firmRun[r] EXCEPT !.pc = "route", !.outcome = "empty_validated"]
  <2>1. run \in SourcingRun
    BY <1>1 DEF SourcingRun, FirmSteps, SearchOutcomes
  <2> QED
    BY <1>1, <2>1, PutMoves DEF SourcingRun, OnSamePage, WithSameFirms, CountsNone
<1>3. filters \in FirmFilters /\ "icypeas" \in FirmProviders /\ listCursor \in [FirmProviders -> ListCursor]
        /\ 1 \in 1..MaxPage
  <2>1. filters \in FirmFilters
    BY <1>1 DEF SourcingRun
  <2>2. listCursor \in [FirmProviders -> ListCursor]
    BY <1>1 DEF RowsTyped, RouteTyped
  <2>3. "icypeas" \in FirmProviders /\ 1 \in 1..MaxPage
    BY SourcingAssumption DEF FirmProviders
  <2> QED
    BY <2>1, <2>2, <2>3
<1> HIDE DEF filters
<1>4. /\ listCursor'["icypeas"].filters = filters /\ listCursor'["icypeas"].exhausted
      /\ \A p \in FirmProviders \ {"icypeas"} : listCursor'[p] = listCursor[p]
      /\ listCursor' \in [FirmProviders -> ListCursor]
  <2>1. [filters |-> filters, page |-> 1, exhausted |-> TRUE] \in ListCursor
    BY <1>3 DEF ListCursor
  <2> QED
    BY <1>1, <1>3, <2>1
<1>5. RouteTyped'
  BY <1>1, <1>4 DEF RowsTyped, RouteTyped
<1>6. HandOK(rec)
  BY <1>1, <1>2 DEF HandOK, PageSteps, SearchSteps, OnSamePage, WithSameFirms
<1>7. ASSUME ~firmsMet
      PROVE  KnownOK(rec) /\ PoolOK(rec) /\ JudgedOK(rec) /\ PageOK(rec)' /\ ListsOK' /\ BoughtOK'
  <2>1. /\ \A b \in bought : Safe(b) \/ GivenUp(firmRun[r], b)
        /\ ListsOK /\ KnownOK(firmRun[r]) /\ PoolOK(firmRun[r]) /\ PageOK(firmRun[r]) /\ bought \subseteq ListPage
    BY <1>1, <1>7, AloneAtList DEF Busy
  <2>2. KnownOK(rec) /\ PoolOK(rec) /\ JudgedOK(rec)
    BY <1>1, <1>2, <2>1 DEF KnownOK, SearchSteps, PoolOK, FromPool, JudgedOK, OnSamePage, WithSameFirms
  <2>3. PageOK(rec)'
    BY <1>1, <1>2, <2>1 DEF PageOK, PageSteps, SearchSteps, PoolOK, OnSamePage, WithSameFirms
  <2>4. Upto(filters, FiltersFor("icypeas")) /\ \A b \in bought : b.provider = "icypeas" => Upto(b.filters, filters)
    BY <1>1, <2>1 DEF PageOK, PageSteps, SearchSteps, Behind, filters
  <2>5. ListsOK'
    <3>1. ASSUME NEW p \in FirmProviders PROVE Upto(listCursor'[p].filters, FiltersFor(p))
      BY <1>4, <2>1, <2>4 DEF ListsOK
    <3>2. \A p \in FirmProviders : FiltersFor(p)' = FiltersFor(p)
      BY <1>1 DEF FiltersFor, firmTables
    <3>3. ~listCursor'["crustdata"].exhausted
      BY <1>4, <2>1 DEF ListsOK, FirmProviders
    <3> QED
      BY <1>1, <2>1, <3>1, <3>2, <3>3 DEF ListsOK, Upto
  <2>6. ASSUME NEW b \in bought PROVE Safe(b)'
    <3>1. b.provider \in FirmProviders
      BY <2>1 DEF ListPage
    <3>2. CASE b.provider = "icypeas"
      BY <1>4, <2>4, <3>2 DEF Safe, Upto
    <3>3. CASE b.provider # "icypeas"
      <4>1. Safe(b)
        BY <1>1, <2>1, <3>3 DEF GivenUp
      <4> QED
        BY <1>4, <3>1, <3>3, <4>1 DEF Safe, Behind, Upto
    <3> QED
      BY <3>2, <3>3
  <2> QED
    BY <1>1, <2>2, <2>3, <2>5, <2>6 DEF BoughtOK
<1> QED
  BY <1>1, <1>2, <1>5, <1>6, <1>7, CursorMoves DEF Busy, FromPool

(* A page arrives, and is paid for.                                        *)
LEMMA PageArrivesKeeps ==
  ASSUME SourcingInv, NEW r \in FirmRuns, PageArrives(r)
  PROVE  SourcingInv'
<1> DEFINE filters == firmRun[r].filters
           page == firmRun[r].page
           p == Provider(r)
           paid == Paid(p, filters, page)
<1>1. /\ firmRun[r] \in SourcingRun /\ RunsTyped /\ RowsTyped /\ HandOK(firmRun[r]) /\ firmRun[r].pc = "page"
      /\ again' = again \cup (bought \cap {paid}) /\ bought' = bought \cup {paid}
      /\ UNCHANGED <<firmTables, poolGiven, listCursor, strikes, icpEdition, offered, firmsMet, firmFaults>>
  BY RunIs DEF SourcingInv, PageArrives, At, routeTables
<1>2. PICK hits \in SUBSET Firms :
        Put(r, [firmRun[r] EXCEPT !.pc = "keep", !.todo = hits, !.unsaved = @ \cup {page}, !.rows = @ \/ hits # {},
                                 !.page = IF page < MaxPage THEN page + 1 ELSE 1,
                                 !.last = hits = {} \/ page = MaxPage])
  BY DEF PageArrives
<1>3. /\ filters \in FirmFilters /\ page \in 1..MaxPage /\ p \in FirmProviders /\ p = Head(firmRun[r].order)
      /\ MaxPage \in Nat \ {0}
  BY <1>1, SourcingAssumption DEF SourcingRun, HandOK, PageSteps, SearchSteps, Provider
<1>4. paid \in ListPage /\ paid.provider = p /\ paid.filters = filters /\ paid.page = page
  BY <1>3 DEF Paid, ListPage
<1>5. PICK rec \in SourcingRun :
        /\ Moves(r, rec) /\ rec.pc = "keep" /\ rec.order = firmRun[r].order /\ rec.filters = filters
        /\ rec.page = IF page < MaxPage THEN page + 1 ELSE 1
        /\ page = MaxPage => rec.last
        /\ rec.unsaved = firmRun[r].unsaved \cup {page} /\ rec.from = firmRun[r].from
        /\ rec.known = firmRun[r].known /\ rec.pending = firmRun[r].pending /\ rec.found = firmRun[r].found
        /\ rec.broken = firmRun[r].broken
  <2> DEFINE next == IF page < MaxPage THEN page + 1 ELSE 1
             rows == firmRun[r].rows \/ hits # {}
             last == hits = {} \/ page = MaxPage
             run == [firmRun[r] EXCEPT !.pc = "keep", !.todo = hits, !.unsaved = @ \cup {page}, !.rows = rows,
                                       !.page = next, !.last = last]
  <2>1. next \in 1..MaxPage /\ page \in 1..MaxPage
    BY <1>3
  <2>2. rows \in BOOLEAN /\ last \in BOOLEAN /\ (page = MaxPage => last)
    BY <1>1 DEF SourcingRun
  <2>3. Put(r, run)
    BY <1>2
  <2> HIDE DEF next, rows, last, page
  <2>4. run \in SourcingRun
    BY <1>1, <2>1, <2>2 DEF SourcingRun, FirmSteps
  <2>5. Moves(r, run)
    BY <1>1, <2>3, <2>4, PutMoves
  <2>6. /\ run.pc = "keep" /\ run.order = firmRun[r].order /\ run.filters = firmRun[r].filters /\ run.page = next
        /\ run.last = last /\ run.unsaved = firmRun[r].unsaved \cup {page} /\ run.from = firmRun[r].from
        /\ run.known = firmRun[r].known /\ run.pending = firmRun[r].pending /\ run.found = firmRun[r].found
        /\ run.broken = firmRun[r].broken
    BY <1>1 DEF SourcingRun
  <2> HIDE DEF run
  <2> QED
    BY <2>2, <2>4, <2>5, <2>6 DEF next
<1> HIDE DEF paid, p, page, filters
<1>6. RouteTyped'
  BY <1>1, <1>4 DEF RowsTyped, RouteTyped
<1>7. HandOK(rec)
  BY <1>1, <1>5 DEF HandOK, PageSteps, SearchSteps
<1>8. ASSUME ~firmsMet
      PROVE  KnownOK(rec) /\ PoolOK(rec) /\ JudgedOK(rec) /\ PageOK(rec)' /\ ListsOK' /\ BoughtOK'
  <2>1. /\ \A b \in bought : Safe(b) \/ GivenUp(firmRun[r], b)
        /\ ListsOK /\ KnownOK(firmRun[r]) /\ PoolOK(firmRun[r]) /\ PageOK(firmRun[r]) /\ bought \subseteq ListPage
    BY <1>1, <1>8, AloneAtList DEF Busy
  <2>2. firmRun[r].from = "page" /\ ~firmRun[r].last
    BY <1>1, <2>1 DEF PoolOK, PageOK
  <2>3. KnownOK(rec) /\ PoolOK(rec) /\ JudgedOK(rec)
    BY <1>1, <1>5, <2>1, <2>2 DEF KnownOK, SearchSteps, PoolOK, FromPool, JudgedOK
  <2>4. \A b \in bought : b.provider = p => Behind(b, filters, page)
    BY <1>1, <1>3, <2>1, <2>2 DEF PageOK, PageSteps, SearchSteps, filters, page
  <2>5. /\ Upto(filters, FiltersFor(p)) /\ Upto(listCursor[p].filters, filters)
    BY <1>1, <1>3, <2>1 DEF PageOK, PageSteps, SearchSteps, filters
  <2>6. paid \notin bought
    BY <1>3, <1>4, <2>4 DEF Behind
  <2>7. again' = {}
    BY <1>1, <2>1, <2>6 DEF ListsOK
  <2>8. ListsOK'
    BY <1>1, <2>1, <2>7 DEF ListsOK, FiltersFor, Upto, firmTables
  <2>9. PageOK(rec)'
    <3>1. UNCHANGED <<listCursor, icpEdition, named>>
      BY <1>1 DEF firmTables
    <3>2. Upto(rec.filters, FiltersFor(Head(rec.order)))' /\ Upto(listCursor[Head(rec.order)].filters, rec.filters)'
      BY <1>3, <1>5, <2>5, <3>1 DEF Upto, FiltersFor
    <3>3. ASSUME NEW b \in bought', b.provider = p
          PROVE  Behind(b, rec.filters, rec.page) \/ (Upto(b.filters, rec.filters) /\ rec.page = 1 /\ rec.last)
      <4>1. Upto(b.filters, filters) /\ (b.filters = filters => b.page <= page) /\ b.page \in Int
        <5>1. CASE b \in bought
          BY <1>3, <2>1, <2>4, <3>3, <5>1 DEF Behind, ListPage
        <5>2. CASE b = paid
          <6>1. filters.edition \in Int
            BY <1>3, SourcingAssumption DEF FirmFilters
          <6> QED
            BY <1>3, <1>4, <5>2, <6>1 DEF Upto
        <5> QED
          BY <1>1, <5>1, <5>2
      <4>2. CASE page < MaxPage
        BY <1>3, <1>5, <4>1, <4>2 DEF Behind
      <4>3. CASE ~(page < MaxPage)
        <5>1. page = MaxPage
          BY <1>3, <4>3
        <5> QED
          BY <1>5, <4>1, <4>3, <5>1
      <4> QED
        BY <4>2, <4>3
    <3>4. ~(rec.from = "pool" \/ rec.pc \in {"pool", "page"})
      BY <1>5, <2>2
    <3> QED
      BY <1>3, <1>5, <3>2, <3>3, <3>4 DEF PageOK, Behind, Upto
  <2>10. BoughtOK'
    <3>1. ASSUME NEW b \in bought' PROVE Safe(b)' \/ GivenUp(rec, b)'
      <4>2. UNCHANGED listCursor
        BY <1>1
      <4>3. CASE b = paid
        BY <1>3, <1>4, <1>5, <2>2, <4>3 DEF GivenUp, PageSteps, SearchSteps
      <4>4. CASE b \in bought /\ Safe(b)
        BY <4>2, <4>4 DEF Safe, Behind, Upto
      <4>5. CASE b \in bought /\ GivenUp(firmRun[r], b)
        BY <1>3, <1>5, <2>2, <4>2, <4>5 DEF GivenUp, PageSteps, SearchSteps, filters
      <4> QED
        BY <1>1, <2>1, <3>1, <4>3, <4>4, <4>5
    <3> QED
      BY <1>5, <3>1 DEF BoughtOK, Moves, GivenUp
  <2> QED
    BY <2>3, <2>8, <2>9, <2>10
<1> QED
  BY <1>1, <1>5, <1>6, <1>7, <1>8, CursorMoves DEF Busy, FromPool

(* When the cursor of a list is saved at the run's page, what was bought   *)
(* of it is safe; unless the list begins anew.                             *)
LEMMA CursorSaved ==
  ASSUME SourcingInv, ~firmsMet, NEW r \in FirmRuns, firmRun[r].pc \in PageSteps, NEW exhausted \in BOOLEAN,
         Provider(r) = "crustdata" => ~exhausted, Provider(r) \in FirmProviders,
         listCursor' = [listCursor EXCEPT ![Provider(r)] = SavedAs(r, exhausted)],
         UNCHANGED <<firmTables, icpEdition, again>>
  PROVE  /\ ListsOK'
         /\ \A b \in bought : b.provider # Provider(r) => Safe(b)'
         /\ ~BeginsAnew(SavedAs(r, exhausted)) => \A b \in bought : b.provider = Provider(r) => Safe(b)'
<1> DEFINE p == Provider(r)
           saved == SavedAs(r, exhausted)
<1>1. /\ \A b \in bought : Safe(b) \/ GivenUp(firmRun[r], b)
      /\ ListsOK /\ PageOK(firmRun[r]) /\ bought \subseteq ListPage /\ p = Head(firmRun[r].order)
      /\ listCursor \in [FirmProviders -> ListCursor]
  BY AloneAtList DEF Busy, PageSteps, SearchSteps, Provider, SourcingInv, RowsTyped, RouteTyped
<1>2. /\ listCursor'[p] = saved /\ saved.filters = firmRun[r].filters /\ saved.page = firmRun[r].page
      /\ saved.exhausted = exhausted /\ \A q \in FirmProviders \ {p} : listCursor'[q] = listCursor[q]
  BY <1>1 DEF SavedAs
<1>3. /\ Upto(firmRun[r].filters, FiltersFor(p))
      /\ \A b \in bought : b.provider = p =>
           \/ Behind(b, firmRun[r].filters, firmRun[r].page)
           \/ Upto(b.filters, firmRun[r].filters) /\ firmRun[r].page = 1
  BY <1>1 DEF PageOK
<1> HIDE DEF p, saved
<1>4. ListsOK'
  <2>1. ASSUME NEW q \in FirmProviders PROVE Upto(listCursor'[q].filters, FiltersFor(q))
    BY <1>1, <1>2, <1>3 DEF ListsOK
  <2>2. \A q \in FirmProviders : FiltersFor(q)' = FiltersFor(q)
    BY DEF FiltersFor, firmTables
  <2>3. ~listCursor'["crustdata"].exhausted
    <3>1. CASE p = "crustdata"
      BY <1>2, <3>1 DEF p
    <3>2. CASE p # "crustdata"
      BY <1>1, <1>2, <3>2 DEF ListsOK, FirmProviders
    <3> QED
      BY <3>1, <3>2
  <2> QED
    BY <1>1, <2>1, <2>2, <2>3 DEF ListsOK, Upto
<1>5. ASSUME NEW b \in bought, b.provider # p PROVE Safe(b)'
  <2>1. Safe(b) /\ b.provider \in FirmProviders
    BY <1>1, <1>5 DEF GivenUp, ListPage
  <2> QED
    BY <1>2, <1>5, <2>1 DEF Safe, Behind, Upto
<1>6. ASSUME ~BeginsAnew(saved), NEW b \in bought, b.provider = p PROVE Safe(b)'
  <2>1. firmRun[r].page # 1 \/ exhausted
    BY <1>2, <1>6 DEF BeginsAnew
  <2>2. CASE Behind(b, firmRun[r].filters, firmRun[r].page)
    BY <1>2, <1>6, <2>2 DEF Safe, Behind, Upto
  <2>3. CASE Upto(b.filters, firmRun[r].filters) /\ exhausted
    BY <1>2, <1>6, <2>3 DEF Safe, Upto
  <2> QED
    BY <1>3, <1>6, <2>1, <2>2, <2>3
<1> QED
  BY <1>4, <1>5, <1>6 DEF p, saved

(* The cursor is saved after the page, or the commit fails.                *)
LEMMA KeepCursorKeeps ==
  ASSUME SourcingInv, NEW r \in FirmRuns, KeepCursor(r)
  PROVE  SourcingInv'
<1>0. PICK p : p = Provider(r)
  OBVIOUS
<1>1. /\ firmRun[r] \in SourcingRun /\ RunsTyped /\ RowsTyped /\ HandOK(firmRun[r]) /\ firmRun[r].pc = "keep"
      /\ UNCHANGED <<firmTables, poolGiven, strikes, icpEdition, bought, again, offered, firmsMet>>
      /\ firmFaults \in 0..MaxFirmFaults
  BY RunIs DEF SourcingInv, KeepCursor, At, RowsTyped, RouteTyped
<1>2. p \in FirmProviders /\ p = Head(firmRun[r].order)
  BY <1>0, <1>1 DEF SourcingRun, HandOK, PageSteps, SearchSteps, Provider
<1>3. PICK rec \in SourcingRun :
        /\ Moves(r, rec) /\ rec.pc \in {"industry", "rows"} /\ rec.order = firmRun[r].order
        /\ rec.filters = firmRun[r].filters /\ rec.page = firmRun[r].page /\ rec.last = firmRun[r].last
        /\ WithSameFirms(rec, firmRun[r])
        /\ \/ listCursor' = [listCursor EXCEPT ![p] = SavedAs(r, FALSE)] /\ UNCHANGED firmFaults
           \/ FirmFault /\ rec.unsaved = firmRun[r].unsaved /\ UNCHANGED listCursor
  <2> DEFINE run == [firmRun[r] EXCEPT !.pc = IF Provider(r) = "crustdata" THEN "industry" ELSE "rows"]
             saved == [run EXCEPT !.unsaved = {}]
  <2>1. /\ run \in SourcingRun /\ run.pc \in {"industry", "rows"} /\ OnSamePage(run, firmRun[r])
        /\ WithSameFirms(run, firmRun[r])
    BY <1>1 DEF SourcingRun, FirmSteps, OnSamePage, WithSameFirms
  <2>2. \/ /\ listCursor' = [listCursor EXCEPT ![p] = SavedAs(r, FALSE)] /\ Put(r, saved) /\ UNCHANGED firmFaults
        \/ FirmFault /\ Put(r, run) /\ UNCHANGED listCursor
    BY <1>0 DEF KeepCursor
  <2> HIDE DEF run
  <2>3. /\ saved \in SourcingRun /\ saved.pc = run.pc /\ saved.order = run.order /\ saved.filters = run.filters
        /\ saved.page = run.page /\ saved.last = run.last /\ WithSameFirms(saved, run)
    BY <2>1 DEF SourcingRun, WithSameFirms
  <2> HIDE DEF saved
  <2>4. CASE listCursor' = [listCursor EXCEPT ![p] = SavedAs(r, FALSE)] /\ Put(r, saved) /\ UNCHANGED firmFaults
    BY <1>1, <2>1, <2>3, <2>4, PutMoves DEF OnSamePage, WithSameFirms
  <2>5. CASE FirmFault /\ Put(r, run) /\ UNCHANGED listCursor
    BY <1>1, <2>1, <2>5, PutMoves DEF OnSamePage
  <2> QED
    BY <2>2, <2>4, <2>5
<1>4. HandOK(rec)
  BY <1>1, <1>3 DEF HandOK, PageSteps, SearchSteps, WithSameFirms
<1>5. RouteTyped'
  <2>1. listCursor' \in [FirmProviders -> ListCursor]
    <3>1. listCursor \in [FirmProviders -> ListCursor]
      BY <1>1 DEF RowsTyped, RouteTyped
    <3>2. SavedAs(r, FALSE) \in ListCursor
      BY <1>1 DEF SavedAs, ListCursor, SourcingRun
    <3> QED
      BY <1>3, <3>1, <3>2
  <2>2. firmFaults' \in 0..MaxFirmFaults
    <3>1. firmFaults' = firmFaults \/ (firmFaults < MaxFirmFaults /\ firmFaults' = firmFaults + 1)
      BY <1>3 DEF FirmFault
    <3>2. firmFaults \in Nat /\ MaxFirmFaults \in Nat
      BY <1>1, SourcingAssumption
    <3> QED
      BY <1>1, <3>1, <3>2
  <2> QED
    BY <1>1, <2>1, <2>2 DEF RowsTyped, RouteTyped
<1>6. firmFaults' = firmFaults + 1 \/ firmFaults' = firmFaults
  BY <1>3 DEF FirmFault
<1>7. ASSUME ~firmsMet
      PROVE  KnownOK(rec) /\ PoolOK(rec) /\ JudgedOK(rec) /\ PageOK(rec)' /\ ListsOK' /\ BoughtOK'
  <2>1. /\ \A b \in bought : Safe(b) \/ GivenUp(firmRun[r], b)
        /\ ListsOK /\ KnownOK(firmRun[r]) /\ PoolOK(firmRun[r]) /\ PageOK(firmRun[r]) /\ bought \subseteq ListPage
    BY <1>1, <1>7, AloneAtList DEF Busy
  <2>2. firmRun[r].from = "page"
    BY <1>1, <2>1 DEF PoolOK
  <2>3. KnownOK(rec) /\ PoolOK(rec) /\ JudgedOK(rec)
    BY <1>1, <1>3, <2>1, <2>2 DEF KnownOK, SearchSteps, PoolOK, FromPool, JudgedOK, WithSameFirms
  <2>4. /\ Upto(rec.filters, FiltersFor(p)) /\ Upto(listCursor[p].filters, rec.filters)
        /\ \A b \in bought : b.provider = p =>
            \/ Behind(b, rec.filters, rec.page)
            \/ Upto(b.filters, rec.filters) /\ rec.page = 1 /\ rec.last
    BY <1>1, <1>2, <1>3, <2>1 DEF PageOK, PageSteps, SearchSteps
  <2>5. FiltersFor(p)' = FiltersFor(p)
    BY <1>1 DEF FiltersFor, firmTables
  <2>6. ASSUME Upto(listCursor'[p].filters, rec.filters) PROVE PageOK(rec)'
    <3>1. ~(rec.from = "pool" \/ rec.pc \in {"pool", "page"})
      BY <1>3, <2>2 DEF WithSameFirms
    <3>2. p = Head(rec.order) /\ bought' = bought
      BY <1>1, <1>2, <1>3
    <3> QED
      BY <2>4, <2>5, <2>6, <3>1, <3>2 DEF PageOK, Behind, Upto
  <2>7. CASE FirmFault /\ rec.unsaved = firmRun[r].unsaved /\ UNCHANGED listCursor
    <3>1. PageOK(rec)'
      BY <2>4, <2>6, <2>7
    <3>2. \A b \in bought : GivenUp(firmRun[r], b) => GivenUp(rec, b)
      BY <1>3, <2>7 DEF GivenUp, PageSteps, SearchSteps, WithSameFirms
    <3>3. BoughtOK'
      BY <1>1, <1>3, <1>7, <2>7, <3>2, PagesStay DEF SourcingInv, AloneInv
    <3>4. ListsOK'
      BY <1>1, <2>1, <2>7, ListsStay DEF firmTables
    <3> QED
      BY <2>3, <3>1, <3>3, <3>4
  <2>8. CASE listCursor' = [listCursor EXCEPT ![p] = SavedAs(r, FALSE)] /\ UNCHANGED firmFaults
    <3>1. listCursor'[p] = SavedAs(r, FALSE)
      BY <1>1, <1>2, <2>8 DEF RowsTyped, RouteTyped
    <3>2. listCursor'[p].filters = rec.filters
      BY <1>3, <3>1 DEF SavedAs
    <3>3. Upto(rec.filters, rec.filters)
      <4>1. rec.filters.edition \in Int
        BY SourcingAssumption DEF SourcingRun, FirmFilters
      <4> QED
        BY <4>1 DEF Upto
    <3>4. PageOK(rec)'
      BY <2>6, <3>2, <3>3
    <3>5. /\ ListsOK'
          /\ \A b \in bought : b.provider # Provider(r) => Safe(b)'
          /\ ~BeginsAnew(SavedAs(r, FALSE)) => \A b \in bought : b.provider = Provider(r) => Safe(b)'
      BY <1>0, <1>1, <1>2, <1>7, <2>8, CursorSaved DEF PageSteps, SearchSteps
    <3>6. ASSUME NEW b \in bought, b.provider = p, BeginsAnew(SavedAs(r, FALSE)) PROVE GivenUp(rec, b)'
      <4>1. BeginsAnew(listCursor[b.provider])'
        BY <3>1, <3>6 DEF BeginsAnew
      <4> QED
        BY <1>2, <1>3, <2>2, <3>6, <4>1 DEF GivenUp, PageSteps, SearchSteps, WithSameFirms
    <3>7. \A b \in bought : Safe(b)' \/ GivenUp(rec, b)'
      BY <1>0, <3>5, <3>6
    <3>8. BoughtOK'
      BY <1>1, <1>3, <3>7 DEF BoughtOK, Moves, GivenUp
    <3> QED
      BY <2>3, <3>4, <3>5, <3>8
  <2> QED
    BY <1>3, <2>7, <2>8
<1>8. ~FromPool(firmRun[r]) /\ Busy(r)
  BY <1>1 DEF FromPool, Busy
<1> QED
  BY <1>1, <1>3, <1>4, <1>5, <1>6, <1>7, <1>8, CursorMoves

(* The search ends, and its cursor is saved.                               *)
LEMMA EndSearchKeeps ==
  ASSUME SourcingInv, NEW r \in FirmRuns, EndSearch(r)
  PROVE  SourcingInv'
<1> DEFINE p == Provider(r)
           exhausted == p = "icypeas" /\ firmRun[r].last /\ firmRun[r].outcome \in {"ok", "empty_validated"}
<1>1. /\ firmRun[r] \in SourcingRun /\ RunsTyped /\ RowsTyped /\ HandOK(firmRun[r]) /\ firmRun[r].pc = "end"
      /\ UNCHANGED <<firmTables, poolGiven, strikes, icpEdition, again, offered, firmsMet, firmFaults>>
  BY RunIs DEF SourcingInv, EndSearch, At
<1>2. p \in FirmProviders
  BY <1>1 DEF SourcingRun, HandOK, PageSteps, SearchSteps, Provider
<1>3. exhausted \in BOOLEAN /\ (p = "crustdata" => ~exhausted)
  BY <1>1 DEF SourcingRun
<1>4. CASE firmRun[r].broken
  <2>1. Ends(r) /\ UNCHANGED <<listCursor, bought>>
    BY <1>4 DEF EndSearch
  <2>2. firmsMet
    BY <1>4, RunIs DEF KnownOK
  <2>3. UNCHANGED <<firmTables, routeTables, firmHistory>>
    BY <1>1, <2>1 DEF routeTables, firmHistory
  <2> QED
    BY <1>1, <2>1, <2>2, <2>3, EndsMoves, TablesStay DEF Busy
<1>5. CASE ~firmRun[r].broken
  <2>1. /\ listCursor' = [listCursor EXCEPT ![p] = SavedAs(r, exhausted)]
        /\ bought' = IF BeginsAnew(SavedAs(r, exhausted)) THEN {b \in bought : b.provider # p} ELSE bought
        /\ Put(r, [firmRun[r] EXCEPT !.pc = "route", !.unsaved = {}])
    BY <1>5 DEF EndSearch
  <2> HIDE DEF exhausted
  <2>2. PICK rec \in SourcingRun :
          Moves(r, rec) /\ rec.pc = "route" /\ rec.order = firmRun[r].order /\ rec.last = firmRun[r].last
               /\ WithSameFirms(rec, firmRun[r])
    <3> DEFINE run == [firmRun[r] EXCEPT !.pc = "route", !.unsaved = {}]
    <3>1. run \in SourcingRun
      BY <1>1 DEF SourcingRun, FirmSteps
    <3> QED
      BY <1>1, <2>1, <3>1, PutMoves DEF SourcingRun, WithSameFirms
  <2>3. HandOK(rec)
    BY <1>1, <2>2 DEF HandOK, PageSteps, SearchSteps, WithSameFirms
  <2>4. RouteTyped'
    <3>1. listCursor \in [FirmProviders -> ListCursor] /\ bought \subseteq ListPage
      BY <1>1 DEF RowsTyped, RouteTyped
    <3>2. SavedAs(r, exhausted) \in ListCursor
      BY <1>1, <1>3 DEF SavedAs, ListCursor, SourcingRun
    <3>3. listCursor' \in [FirmProviders -> ListCursor] /\ bought' \subseteq ListPage
      BY <2>1, <3>1, <3>2
    <3> QED
      BY <1>1, <3>3 DEF RowsTyped, RouteTyped
  <2>5. ASSUME ~firmsMet
        PROVE  KnownOK(rec) /\ PoolOK(rec) /\ JudgedOK(rec) /\ PageOK(rec)' /\ ListsOK' /\ BoughtOK'
    <3>1. KnownOK(firmRun[r]) /\ PoolOK(firmRun[r]) /\ PageOK(firmRun[r])
      BY <2>5, RunIs
    <3>2. KnownOK(rec) /\ PoolOK(rec) /\ JudgedOK(rec)
      BY <1>1, <2>2, <3>1 DEF KnownOK, SearchSteps, PoolOK, FromPool, JudgedOK, WithSameFirms
    <3>3. PageOK(rec)'
      BY <1>1, <2>2, <3>1 DEF PageOK, PageSteps, SearchSteps, PoolOK, WithSameFirms
    <3>4. /\ ListsOK'
          /\ \A b \in bought : b.provider # Provider(r) => Safe(b)'
          /\ ~BeginsAnew(SavedAs(r, exhausted)) => \A b \in bought : b.provider = Provider(r) => Safe(b)'
      BY <1>1, <1>2, <1>3, <2>1, <2>5, CursorSaved DEF PageSteps
    <3>5. BoughtOK'
      BY <2>1, <3>4 DEF BoughtOK
    <3> QED
      BY <3>2, <3>3, <3>4, <3>5
  <2> QED
    BY <1>1, <2>2, <2>3, <2>4, <2>5, CursorMoves DEF Busy, FromPool
<1> QED
  BY <1>4, <1>5

(* The run dies.                                                           *)
LEMMA SourcingDiesKeeps ==
  ASSUME SourcingInv, NEW r \in FirmRuns, SourcingDies(r)
  PROVE  SourcingInv'
<1>1. /\ RunsTyped /\ RowsTyped /\ HandOK(firmRun[r]) /\ Busy(r) /\ Ends(r) /\ FirmFault
      /\ bought' = {b \in bought : ~Forgotten(r, b)}
      /\ UNCHANGED <<firmTables, poolGiven, listCursor, strikes, icpEdition, again, offered, firmsMet>>
  BY RunIs DEF SourcingInv, SourcingDies, routeTables
<1>2. /\ Moves(r, Ended) /\ HandOK(Ended) /\ KnownOK(Ended) /\ PoolOK(Ended) /\ JudgedOK(Ended)
      /\ Ended.pc = "over" /\ Ended.from = "page" /\ Ended.last = FALSE
  <2>1. Ended.from = "page" /\ Ended.last = FALSE
    BY BlankIs DEF Ended, SourcingRun
  <2> QED
    BY <1>1, <2>1, EndsMoves
<1>3. PICK rec : rec = Ended
  OBVIOUS
<1>4. RouteTyped'
  <2>1. firmFaults' \in 0..MaxFirmFaults
    BY <1>1, SourcingAssumption DEF RowsTyped, RouteTyped, FirmFault
  <2> QED
    BY <1>1, <2>1 DEF RowsTyped, RouteTyped
<1>5. ASSUME ~firmsMet PROVE PageOK(rec)' /\ ListsOK' /\ BoughtOK'
  <2>1. (\A b \in bought : Safe(b) \/ GivenUp(firmRun[r], b)) /\ ListsOK
    BY <1>1, <1>5, AloneAtList
  <2>2. PageOK(rec)'
    BY <1>2, <1>3 DEF PageOK, PageSteps, SearchSteps
  <2>3. ListsOK'
    BY <1>1, <2>1, ListsStay DEF firmTables
  <2>4. ASSUME NEW b \in bought' PROVE Safe(b)'
    <3>1. ~GivenUp(firmRun[r], b)
      BY <1>1, <2>4 DEF GivenUp, Forgotten, HandOK, Provider
    <3>2. Safe(b)
      BY <1>1, <2>1, <2>4, <3>1
    <3> QED
      BY <1>1, <3>2 DEF Safe, Behind, Upto
  <2> QED
    BY <2>2, <2>3, <2>4 DEF BoughtOK
<1> QED
  BY <1>1, <1>2, <1>3, <1>4, <1>5, CursorMoves DEF FirmFault

(* A request begins.                                                       *)
LEMMA StartSourcingKeeps ==
  ASSUME SourcingInv, NEW r \in FirmRuns, StartSourcing(r)
  PROVE  SourcingInv'
<1>1. /\ RunsTyped /\ RowsTyped /\ firmRun[r].pc = "idle"
      /\ firmsMet' = (firmsMet \/ \E q \in FirmRuns : Busy(q))
      /\ UNCHANGED <<firmLead, leadToday, named, firmRow, firmContact, strategies, poolRow, poolGiven, listCursor,
                     strikes, icpEdition, bought, again, offered, firmFaults>>
  BY DEF SourcingInv, StartSourcing, At, firmTables, routeTables
<1>2. PICK order \in Seq(FirmProviders), leads \in SUBSET Firms, step \in {"search", "qualify"} :
        /\ Put(r, [Blank EXCEPT !.pc = step, !.order = order, !.todo = leads])
        /\ step = "search" => order # <<>> /\ leads = {}
        /\ step = "qualify" => leads = Signals
  <2>1. PICK order \in SetToSeqs(Usable) :
         Put(r, IF order = <<>> THEN [Blank EXCEPT !.pc = "qualify", !.todo = Signals]
                ELSE [Blank EXCEPT !.pc = "search", !.order = order])
    BY DEF StartSourcing
  <2>2. order \in Seq(FirmProviders)
    <3>1. order \in [1..Cardinality(Usable) -> Usable]
      BY <2>1 DEF SetToSeqs
    <3>2. Usable \subseteq FirmProviders /\ IsFiniteSet(FirmProviders)
      <4>1. IsFiniteSet({"icypeas"})
        BY FS_Singleton
      <4>2. IsFiniteSet({"icypeas"} \cup {"crustdata"})
        BY <4>1, FS_AddElement
      <4>3. FirmProviders = {"icypeas"} \cup {"crustdata"}
        BY DEF FirmProviders
      <4> QED
        BY <4>2, <4>3 DEF Usable
    <3>3. Cardinality(Usable) \in Nat
      BY <3>2, FS_Subset, FS_CardinalityType
    <3> HIDE DEF Usable
    <3>4. order \in [1..Cardinality(Usable) -> FirmProviders]
      BY <3>1, <3>2
    <3> QED
      BY <3>3, <3>4
  <2>3. [Blank EXCEPT !.pc = "qualify", !.todo = Signals] = [Blank EXCEPT !.pc = "qualify", !.order = <<>>, !.todo = Signals]
    BY BlankIs DEF SourcingRun
  <2>4. [Blank EXCEPT !.pc = "search", !.order = order] = [Blank EXCEPT !.pc = "search", !.order = order, !.todo = {}]
    BY BlankIs DEF SourcingRun
  <2> QED
    BY <2>1, <2>2, <2>3, <2>4, SignalsAre
<1>3. PICK rec \in SourcingRun :
        /\ Moves(r, rec) /\ rec.pc = step /\ rec.order = order /\ rec.todo = leads /\ rec.pending = {} /\ rec.found = {}
        /\ rec.from = "page" /\ ~rec.last /\ ~rec.broken
  <2> DEFINE run == [Blank EXCEPT !.pc = step, !.order = order, !.todo = leads]
  <2>1. run \in SourcingRun
    BY <1>2, BlankIs DEF SourcingRun, FirmSteps
  <2> QED
    BY <1>1, <1>2, <2>1, PutMoves, BlankIs DEF SourcingRun
<1>4. RowsTyped'
  BY <1>1 DEF RowsTyped, TablesTyped, RouteTyped
<1>5. HandOK(rec)'
  BY <1>1, <1>2, <1>3, SignalsAre DEF HandOK, PageSteps, SearchSteps
<1>6. firmsMet' \/ Quiet(r)
  BY <1>1 DEF Quiet, Busy
<1>7. ASSUME ~firmsMet'
      PROVE  /\ KnownOK(rec)' /\ PoolOK(rec)' /\ JudgedOK(rec)' /\ PageOK(rec)' /\ ListsOK' /\ BoughtOK'
             /\ \A f \in Firms : OfferedOK(f)' /\ StrategyOK(f)'
  <2>1. PoolInv /\ StrategyInv /\ PagesInv
    BY <1>1, <1>7 DEF SourcingInv, AloneInv
  <2>2. KnownOK(rec)' /\ PoolOK(rec)' /\ JudgedOK(rec)'
    BY <1>1, <1>2, <1>3, SignalsAre DEF KnownOK, SearchSteps, PoolOK, FromPool, JudgedOK
  <2>3. PageOK(rec)' /\ ~FromPool(firmRun[r]) /\ \A b : ~GivenUp(firmRun[r], b)
    BY <1>1, <1>2, <1>3 DEF PageOK, PageSteps, SearchSteps, GivenUp, FromPool
  <2>4. ListsOK' /\ BoughtOK'
    BY <1>1, <1>3, <2>1, <2>3, PagesStay, ListsStay DEF PagesInv
  <2>5. \A f \in Firms : OfferedOK(f)' /\ StrategyOK(f)'
    BY <1>1, <1>3, <2>1, <2>3, OffersStay, StrategiesStay
  <2> QED
    BY <2>2, <2>3, <2>4, <2>5
<1>8. named' \subseteq firmRow'
        /\ \A f \in Firms : firmLead'[f] \in {"signal", "contact_found"} => f \in firmContact' \cap named'
  BY <1>1 DEF SourcingInv, HandInv
<1> QED
  BY <1>1, <1>3, <1>4, <1>5, <1>6, <1>7, <1>8, RunMoves

(* A step of nobody's run: filters only narrow, and pages are forgotten.   *)
LEMMA StandsStill ==
  ASSUME SourcingInv,
         UNCHANGED <<firmLead, firmRow, firmContact, strategies, poolGiven, firmRun, again, offered, firmsMet, firmFaults>>,
         RowsTyped', named \subseteq named', named' \subseteq firmRow, icpEdition <= icpEdition', bought' \subseteq bought,
         \A p \in FirmProviders : listCursor'[p].filters = listCursor[p].filters,
         ~listCursor["crustdata"].exhausted => ~listCursor'["crustdata"].exhausted,
         ~firmsMet => BoughtOK'
  PROVE  SourcingInv'
<1>1. RunsTyped' /\ RowsTyped
  BY DEF SourcingInv, RunsTyped
<1>2. HandInv'
  <2>1. ASSUME NEW q \in FirmRuns PROVE HandOK(firmRun[q])'
    <3>1. HandOK(firmRun[q])
      BY DEF SourcingInv, HandInv
    <3> QED
      BY <3>1 DEF HandOK
  <2> QED
    BY <2>1 DEF SourcingInv, HandInv
<1>3. ASSUME NEW p \in FirmProviders, NEW x \in FirmFilters, Upto(x, FiltersFor(p)) PROVE Upto(x, FiltersFor(p))'
  <2>1. x.edition \in Int /\ icpEdition \in Int /\ icpEdition' \in Int
    BY <1>1, <1>3, SourcingAssumption DEF FirmFilters, RowsTyped, RouteTyped
  <2>2. x.edition <= icpEdition'
    BY <1>3, <2>1 DEF Upto, FiltersFor
  <2>3. x.without \subseteq (IF p = "crustdata" THEN named' ELSE {})
    BY <1>3 DEF Upto, FiltersFor
  <2> QED
    BY <2>2, <2>3 DEF Upto, FiltersFor
<1>4. ASSUME ~firmsMet PROVE AloneInv'
  <2>1. AloneInv
    BY <1>4 DEF SourcingInv
  <2>2. OneSearches' /\ KnownInv' /\ PoolInv' /\ StrategyInv'
    <3>1. OneSearches'
      BY <2>1 DEF AloneInv, OneSearches, Busy
    <3>2. KnownInv'
      BY <2>1 DEF AloneInv, KnownInv, KnownOK
    <3>3. PoolInv'
      BY <2>1 DEF AloneInv, PoolInv, PoolOK, FromPool, OfferedOK
    <3>4. StrategyInv'
      BY <2>1 DEF AloneInv, StrategyInv, JudgedOK, StrategyOK
    <3> QED
      BY <3>1, <3>2, <3>3, <3>4
  <2>3. ListsOK'
    <3>1. ASSUME NEW p \in FirmProviders PROVE Upto(listCursor[p].filters, FiltersFor(p))'
      <4>1. listCursor[p].filters \in FirmFilters /\ Upto(listCursor[p].filters, FiltersFor(p))
        BY <1>1, <2>1, FiltersAre DEF AloneInv, PagesInv, ListsOK
      <4>2. PICK x \in FirmFilters : x = listCursor[p].filters
        BY <4>1
      <4>3. Upto(x, FiltersFor(p))'
        BY <1>3, <4>1, <4>2
      <4> QED
        BY <4>2, <4>3 DEF Upto
    <3> QED
      BY <2>1, <3>1 DEF AloneInv, PagesInv, ListsOK
  <2>4. ASSUME NEW q \in FirmRuns PROVE PageOK(firmRun[q])'
    <3>1. PageOK(firmRun[q]) /\ firmRun[q] \in SourcingRun /\ HandOK(firmRun[q])
      BY <2>1, RunIs, <1>4
    <3>2. CASE firmRun[q].pc \in PageSteps
      <4>1. PICK p \in FirmProviders, x \in FirmFilters : p = Head(firmRun[q].order) /\ x = firmRun[q].filters
        BY <3>1, <3>2 DEF SourcingRun, HandOK
      <4>2. Upto(x, FiltersFor(p))'
        BY <1>3, <3>1, <3>2, <4>1 DEF PageOK
      <4>3. Upto(listCursor'[p].filters, x)
        BY <3>1, <3>2, <4>1 DEF PageOK
      <4> QED
        BY <3>1, <4>1, <4>2, <4>3 DEF PageOK, Behind, Upto
    <3>3. CASE firmRun[q].pc \notin PageSteps
      BY <3>1, <3>3 DEF PageOK
    <3> QED
      BY <3>2, <3>3
  <2> QED
    BY <1>4, <2>2, <2>3, <2>4 DEF AloneInv, PagesInv
<1> QED
  BY <1>1, <1>2, <1>4 DEF SourcingInv

(* What is bought stays as safe when cursors stay.                         *)
LEMMA CursorsStay ==
  ASSUME SourcingInv, ~firmsMet, UNCHANGED <<listCursor, bought, firmRun>>
  PROVE  BoughtOK'
<1>1. BoughtOK
  BY DEF SourcingInv, AloneInv, PagesInv
<1> QED
  BY <1>1 DEF BoughtOK, Safe, Behind, Upto, GivenUp

(* The ICP changes.                                                        *)
LEMMA FiltersChangeKeeps == SourcingInv /\ FiltersChange => SourcingInv'
<1> SUFFICES ASSUME SourcingInv, FiltersChange PROVE SourcingInv'
  OBVIOUS
<1>1. /\ UNCHANGED <<firmLead, leadToday, named, firmRow, firmContact, strategies, poolRow, poolGiven, listCursor,
                     strikes, firmRun, bought, again, offered, firmsMet, firmFaults>>
      /\ icpEdition < MaxIcpEdits /\ icpEdition' = icpEdition + 1 /\ RowsTyped /\ HandInv
  BY DEF FiltersChange, firmTables, firmHistory, SourcingInv
<1>2. icpEdition' \in 0..MaxIcpEdits /\ icpEdition <= icpEdition'
  BY <1>1, SourcingAssumption DEF RowsTyped, RouteTyped
<1>3. RowsTyped'
  BY <1>1, <1>2 DEF RowsTyped, TablesTyped, RouteTyped
<1> QED
  BY <1>1, <1>2, <1>3, StandsStill, CursorsStay DEF HandInv

(* A day goes by.                                                          *)
LEMMA DayPassesKeeps == SourcingInv /\ DayPasses => SourcingInv'
<1> SUFFICES ASSUME SourcingInv, DayPasses PROVE SourcingInv'
  OBVIOUS
<1>1. /\ UNCHANGED <<firmLead, named, firmRow, firmContact, strategies, poolRow, poolGiven, icpEdition,
                     firmRun, again, offered, firmsMet, firmFaults>>
      /\ leadToday' = {} /\ strikes' = [p \in FirmProviders |-> 0] /\ RowsTyped /\ HandInv
  BY DEF DayPasses, SourcingInv
<1>2. \/ UNCHANGED <<listCursor, bought>>
      \/ /\ listCursor' = [listCursor EXCEPT !["icypeas"].exhausted = FALSE]
         /\ bought' = {b \in bought : b.provider # "icypeas"}
  BY DEF DayPasses
<1>3. /\ listCursor' \in [FirmProviders -> ListCursor] /\ bought' \subseteq bought
      /\ \A p \in FirmProviders : listCursor'[p].filters = listCursor[p].filters
      /\ listCursor'["crustdata"] = listCursor["crustdata"]
  <2>1. listCursor \in [FirmProviders -> ListCursor]
    BY <1>1 DEF RowsTyped, RouteTyped
  <2>2. CASE UNCHANGED <<listCursor, bought>>
    BY <2>1, <2>2
  <2>3. CASE /\ listCursor' = [listCursor EXCEPT !["icypeas"].exhausted = FALSE]
             /\ bought' = {b \in bought : b.provider # "icypeas"}
    <3>1. /\ [listCursor["icypeas"] EXCEPT !.exhausted = FALSE] \in ListCursor
          /\ [listCursor["icypeas"] EXCEPT !.exhausted = FALSE].filters = listCursor["icypeas"].filters
      BY <2>1 DEF ListCursor, FirmProviders
    <3>2. PICK c \in ListCursor : /\ c = [listCursor["icypeas"] EXCEPT !.exhausted = FALSE]
                                  /\ c.filters = listCursor["icypeas"].filters
      BY <3>1
    <3>3. listCursor' = [listCursor EXCEPT !["icypeas"] = c]
      BY <2>3, <3>2
    <3> QED
      BY <2>1, <2>3, <3>2, <3>3 DEF FirmProviders
  <2> QED
    BY <1>2, <2>2, <2>3
<1>4. RowsTyped'
  <2>1. strikes' \in [FirmProviders -> 0..BreakAt]
    BY <1>1, SourcingAssumption
  <2>2. TablesTyped'
    BY <1>1 DEF RowsTyped, TablesTyped
  <2> QED
    BY <1>1, <1>3, <2>1, <2>2 DEF RowsTyped, RouteTyped
<1>5. ASSUME ~firmsMet PROVE BoughtOK'
  <2>1. CASE UNCHANGED <<listCursor, bought>>
    BY <1>1, <1>5, <2>1, CursorsStay
  <2>2. CASE bought' = {b \in bought : b.provider # "icypeas"}
    <3>1. BoughtOK /\ bought \subseteq ListPage
      BY <1>1, <1>5 DEF SourcingInv, AloneInv, PagesInv, RowsTyped, RouteTyped
    <3>2. \A b \in bought' : b \in bought /\ listCursor'[b.provider] = listCursor[b.provider]
      BY <1>3, <2>2, <3>1 DEF ListPage, FirmProviders
    <3> QED
      BY <1>1, <3>1, <3>2 DEF BoughtOK, Safe, Behind, Upto, GivenUp
  <2> QED
    BY <1>2, <2>1, <2>2
<1>6. icpEdition <= icpEdition'
  BY <1>1, SourcingAssumption DEF RowsTyped, RouteTyped
<1> QED
  BY <1>1, <1>3, <1>4, <1>5, <1>6, StandsStill DEF HandInv

(* The reconcile routes name a company.                                    *)
LEMMA ReconcileKeeps == ASSUME SourcingInv, NEW f \in Firms, Reconcile(f) PROVE SourcingInv'
<1>1. /\ UNCHANGED <<firmLead, leadToday, firmRow, firmContact, strategies, poolRow, poolGiven, listCursor,
                     strikes, icpEdition, firmRun, bought, again, offered, firmsMet, firmFaults>>
      /\ f \in firmRow /\ named' = named \cup {f} /\ RowsTyped /\ HandInv
  BY DEF Reconcile, routeTables, firmHistory, SourcingInv
<1>2. icpEdition <= icpEdition' /\ named' \subseteq firmRow
  BY <1>1, SourcingAssumption DEF RowsTyped, RouteTyped, HandInv
<1>3. RowsTyped'
  BY <1>1 DEF RowsTyped, TablesTyped, RouteTyped
<1> QED
  BY <1>1, <1>2, <1>3, StandsStill, CursorsStay

(* The first state, and steps of none.                                     *)
LEMMA SourcingStarts == SourcingInit => SourcingInv
<1> SUFFICES ASSUME SourcingInit PROVE SourcingInv
  OBVIOUS
<1>1. \A r \in FirmRuns : firmRun[r] = Blank
  BY DEF SourcingInit
<1>2. RunsTyped
  BY BlankIs DEF SourcingInit, RunsTyped
<1>3. Blank.filters \in FirmFilters
  BY BlankIs DEF SourcingRun
<1>4. /\ listCursor \in [FirmProviders -> ListCursor]
      /\ \A p \in FirmProviders : listCursor[p].filters = Blank.filters /\ ~listCursor[p].exhausted
  <2>1. [filters |-> Blank.filters, page |-> 1, exhausted |-> FALSE] \in ListCursor
    BY <1>3, SourcingAssumption DEF ListCursor
  <2> QED
    BY <2>1 DEF SourcingInit
<1>5. RowsTyped
  <2>1. TablesTyped
    BY SourcingAssumption DEF SourcingInit, TablesTyped
  <2>2. strikes \in [FirmProviders -> 0..BreakAt]
    BY SourcingAssumption DEF SourcingInit
  <2>3. 0 \in 0..MaxIcpEdits /\ 0 \in 0..MaxFirmFaults
    BY SourcingAssumption
  <2> QED
    BY <1>4, <2>1, <2>2, <2>3 DEF SourcingInit, RowsTyped, RouteTyped
<1>6. HandInv
  <2>1. HandOK(Blank)
    BY BlankIs DEF HandOK, PageSteps, SearchSteps
  <2> QED
    BY <1>1, <2>1 DEF SourcingInit, HandInv
<1>7. AloneInv
  <2>1. KnownOK(Blank) /\ PoolOK(Blank) /\ JudgedOK(Blank) /\ PageOK(Blank)
    BY BlankIs, RestingRun
  <2>2. OneSearches
    BY <1>1, BlankIs DEF OneSearches, Busy
  <2>3. \A f \in Firms : OfferedOK(f) /\ StrategyOK(f)
    BY DEF SourcingInit, OfferedOK, StrategyOK
  <2>4. ListsOK /\ BoughtOK
    <3>1. ASSUME NEW p \in FirmProviders PROVE Upto(listCursor[p].filters, FiltersFor(p))
      <4>1. Blank.filters.edition = 0 /\ Blank.filters.without = {} /\ icpEdition = 0
        BY BlankIs DEF SourcingInit
      <4> QED
        BY <1>4, <4>1 DEF Upto, FiltersFor
    <3> QED
      BY <1>4, <3>1 DEF SourcingInit, ListsOK, BoughtOK, FirmProviders
  <2> QED
    BY <1>1, <2>1, <2>2, <2>3, <2>4 DEF AloneInv, KnownInv, PoolInv, StrategyInv, PagesInv
<1> QED
  BY <1>2, <1>5, <1>6, <1>7 DEF SourcingInv

(* A step of none.                                                         *)
LEMMA SourcingRests == SourcingInv /\ UNCHANGED sourcingVars => SourcingInv'
<1> SUFFICES ASSUME SourcingInv, UNCHANGED sourcingVars PROVE SourcingInv'
  OBVIOUS
<1>1. /\ UNCHANGED <<firmLead, leadToday, named, firmRow, firmContact, strategies, poolRow, poolGiven, listCursor,
                     strikes, icpEdition, firmRun, bought, again, offered, firmsMet, firmFaults>>
      /\ RowsTyped /\ HandInv
  BY DEF sourcingVars, firmTables, routeTables, firmHistory, SourcingInv
<1>2. icpEdition <= icpEdition' /\ named' \subseteq firmRow
  BY <1>1, SourcingAssumption DEF RowsTyped, RouteTyped, HandInv
<1>3. RowsTyped'
  BY <1>1 DEF RowsTyped, TablesTyped, RouteTyped
<1> QED
  BY <1>1, <1>2, <1>3, StandsStill, CursorsStay

(* The rules follow.                                                       *)
LEMMA SourcingRulesFollow == SourcingInv => SourcingRules
<1> SUFFICES ASSUME SourcingInv PROVE SourcingRules
  OBVIOUS
<1>1. RunsTyped /\ TablesTyped /\ RouteTyped /\ HandInv
  BY DEF SourcingInv, RowsTyped
<1>2. ASSUME NEW r \in FirmRuns
      PROVE  /\ DOMAIN firmRun[r] = DOMAIN Blank /\ firmRun[r].pc \in FirmSteps
             /\ firmRun[r].at \in Firms \cup {NoFirm} /\ firmRun[r].page \in 1..MaxPage
             /\ firmRun[r].known \cup firmRun[r].todo \cup firmRun[r].pending \cup firmRun[r].found \subseteq Firms
  <2>1. firmRun[r] \in SourcingRun /\ Blank \in SourcingRun
    BY <1>1, BlankIs DEF RunsTyped
  <2>2. DOMAIN firmRun[r] = DOMAIN Blank
    BY <2>1 DEF SourcingRun
  <2> QED
    BY <2>1, <2>2 DEF SourcingRun
<1>3. SourcingTypeOK
  <2>1. \A s \in {leadToday, named, firmRow, firmContact, poolRow, poolGiven} : s \subseteq Firms
    BY <1>1 DEF TablesTyped
  <2>2. listCursor \in [FirmProviders -> [filters : FirmFilters, page : 1..MaxPage, exhausted : BOOLEAN]]
    BY <1>1 DEF RouteTyped, ListCursor
  <2> QED
    BY <1>1, <1>2, <2>1, <2>2 DEF SourcingTypeOK, TablesTyped, RouteTyped, HandInv
<1>4. ASSUME ~firmsMet PROVE NoPageTwice /\ PooledOnce /\ OneStrategy
  <2>1. ListsOK /\ PoolInv /\ StrategyInv
    BY <1>4 DEF SourcingInv, AloneInv, PagesInv
  <2>2. firmFaults + 1 = 1 + firmFaults
    BY <1>1, SourcingAssumption DEF RouteTyped
  <2> QED
    BY <2>1, <2>2 DEF ListsOK, PoolInv, OfferedOK, StrategyInv, StrategyOK, NoPageTwice, PooledOnce, OneStrategy
<1> QED
  BY <1>3, <1>4 DEF SourcingRules, SourcedOnce

(* While no two runs are at work together, no page of a list is paid for   *)
(* twice before it begins anew, and a pooled company is worked on and a    *)
(* lead given a strategy once, but for faults: SourcingRules, for every    *)
(* number of companies, runs, pages, edits and faults.                     *)
THEOREM SourcingRulesHold == SourcingSpec => []SourcingRules
<1>1. SourcingInit => SourcingInv
  BY SourcingStarts
<1>2. SourcingInv /\ [SourcingNext]_sourcingVars => SourcingInv'
  <2> SUFFICES ASSUME SourcingInv, [SourcingNext]_sourcingVars PROVE SourcingInv'
    OBVIOUS
  <2>1. CASE FiltersChange \/ DayPasses \/ UNCHANGED sourcingVars
    BY <2>1, FiltersChangeKeeps, DayPassesKeeps, SourcingRests
  <2>2. ASSUME NEW f \in Firms, Reconcile(f) PROVE SourcingInv'
    BY <2>2, ReconcileKeeps
  <2>3. ASSUME NEW r \in FirmRuns, SearchStep(r) PROVE SourcingInv'
    BY <2>3, BeginSearchKeeps, WorkOnPooledKeeps, MarkDeliveredKeeps, PoolDoneKeeps, CountsNoneKeeps,
         SearchRefusedKeeps,
       SearchFailsKeeps, PageArrivesKeeps, KeepCursorKeeps, QualityFailsKeeps, IndustryRejectsKeeps, IndustryDoneKeeps,
       ResolvePendingKeeps, SettlePendingKeeps, TurnPageKeeps, EndSearchKeeps, BrokenSessionKeeps DEF SearchStep
  <2>4. ASSUME NEW r \in FirmRuns, FirmStep(r) PROVE SourcingInv'
    BY <2>4, WorkOnRowKeeps, SkipFirmKeeps, RejectFirmKeeps, AcceptFirmKeeps, FreeLeaderKeeps, DeferFirmKeeps,
       CreateLeadKeeps, RowFailsKeeps, KeyTakenKeeps DEF FirmStep
  <2>5. ASSUME NEW r \in FirmRuns,
               \/ StartSourcing(r) \/ SourcingSkipped(r) \/ Route(r) \/ QualifyLead(r) \/ PromoteLead(r)
               \/ SourcingOver(r) \/ SourcingDies(r)
        PROVE  SourcingInv'
    BY <2>5, StartSourcingKeeps, SourcingSkippedKeeps, RouteKeeps, QualifyLeadKeeps, PromoteLeadKeeps,
         SourcingOverKeeps,
       SourcingDiesKeeps
  <2> QED
    BY <2>1, <2>2, <2>3, <2>4, <2>5 DEF SourcingNext
<1> QED
  BY <1>1, <1>2, SourcingRulesFollow, PTL DEF SourcingSpec
=============================================================================
