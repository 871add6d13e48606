--------------------------- MODULE PartnerDailyRun ---------------------------
(***************************************************************************)
(* The daily run of one partner tenant, partner_daily_run.py: an hourly    *)
(* tick of every instance, under the tenant's lease (SchedulerLease), asks *)
(* which of three objectives are due, stamps each with the date in the     *)
(* tenant's configuration, and starts it in a thread.  The operator edits  *)
(* the same configuration over HTTP: both writers read the whole JSON and  *)
(* write it back.  A discovery, started by the tick or by hand, reports on *)
(* its Batch row.                                                          *)
(***************************************************************************)
EXTENDS Naturals, FiniteSets

CONSTANTS
  Hosts,            \* instances of the process
  Operators,        \* requests that edit the configuration
  NoHost,
  ContentHour,      \* content_schedule_hour_utc
  ScheduleHour,     \* schedule_hour_utc
  LastHour,         \* the last hour of a day
  MaxPartnerDay,    \* bound
  MaxBatch,         \* bound: Batch rows
  MaxEdits,         \* bound: edits of the configuration
  MaxPartnerFaults  \* bound: crashes and failed commits

ASSUME PartnerAssumption ==
  /\ NoHost \notin Hosts /\ LastHour \in Nat
  /\ ContentHour \in 0..LastHour /\ ScheduleHour \in 0..LastHour
  /\ MaxPartnerDay \in Nat \ {0} /\ MaxBatch \in Nat /\ MaxEdits \in Nat /\ MaxPartnerFaults \in Nat

VARIABLES
  partnerDay, partnerHour,
  runConfig,      \* the JSON of the Parameter row: toggles and stamps
  tickLease,      \* the host inside the tick
  tickAt,         \* per host: the objective and the step its tick is at
  tickConfig,     \* the copy the tick decides by
  tickTime,       \* the day and hour the tick read
  editBase,       \* what each writer read before it writes
  batchRow,       \* status, host and thread of each Batch row
  started,        \* history: threads started, per objective and day
  clobbered,      \* history: a configuration was written over one the writer had not read
  partnerDied, edits, partnerFaults

partnerClock == <<partnerDay, partnerHour>>
tickState == <<tickLease, tickAt, tickConfig, tickTime>>
partnerHistory == <<started, clobbered, partnerDied, edits, partnerFaults>>
partnerVars == <<partnerClock, runConfig, tickState, editBase, batchRow, partnerHistory>>

Objectives == {"content", "firmographic", "engagement"}
PartnerDays == 1..MaxPartnerDay
RunConfigs == [on : [Objectives -> BOOLEAN], stamp : [Objectives -> 0..MaxPartnerDay]]
NeverRun == [o \in Objectives |-> 0]
AllOff == [on |-> [o \in Objectives |-> FALSE], stamp |-> NeverRun]
Writers == Hosts \cup Operators
BatchIds == 1..MaxBatch
NoBatch == [status |-> "absent", host |-> NoHost, thread |-> "none"]
TickSteps == {"idle", "config", "due", "batch", "read", "write", "start"}

PartnerTypeOK ==
  /\ partnerDay \in PartnerDays /\ partnerHour \in 0..LastHour
  /\ runConfig \in RunConfigs /\ tickConfig \in [Hosts -> RunConfigs]
  /\ tickLease \in Hosts \cup {NoHost}
  /\ tickAt \in [Hosts -> [objective : Objectives, step : TickSteps]]
  /\ \A h \in Hosts : tickAt[h].step # "idle" => tickLease = h
  /\ tickTime \in [Hosts -> [day : PartnerDays, hour : 0..LastHour]]
  /\ editBase \in [Writers -> RunConfigs]
  /\ batchRow \in [BatchIds -> [status : {"absent", "in_progress", "completed", "blocked", "failed"},
                                host : Hosts \cup {NoHost}, thread : {"none", "tick", "hand", "running", "gone"}]]
  /\ started \in [Objectives -> [PartnerDays -> Nat]]
  /\ clobbered \in BOOLEAN /\ partnerDied \in BOOLEAN /\ edits \in 0..MaxEdits /\ partnerFaults \in 0..MaxPartnerFaults

IdleHost == [objective |-> "content", step |-> "idle"]

PartnerInit ==
  /\ partnerDay = 1 /\ partnerHour = 0
  /\ runConfig \in {[on |-> f, stamp |-> NeverRun] : f \in [Objectives -> BOOLEAN]}
  /\ tickLease = NoHost
  /\ tickAt = [h \in Hosts |-> IdleHost]
  /\ tickConfig = [h \in Hosts |-> AllOff]
  /\ tickTime = [h \in Hosts |-> [day |-> 1, hour |-> 0]]
  /\ editBase = [w \in Writers |-> AllOff]
  /\ batchRow = [b \in BatchIds |-> NoBatch]
  /\ started = [o \in Objectives |-> [d \in PartnerDays |-> 0]]
  /\ clobbered = FALSE /\ partnerDied = FALSE /\ edits = 0 /\ partnerFaults = 0

HostAt(h, o, s) == tickAt[h] = [objective |-> o, step |-> s]
To(h, o, s) ==
  /\ tickAt' = [tickAt EXCEPT ![h] = [objective |-> o, step |-> s]]
  /\ UNCHANGED <<tickLease, tickConfig, tickTime>>
Forget(h) ==
  /\ tickAt' = [tickAt EXCEPT ![h] = IdleHost]
  /\ tickConfig' = [tickConfig EXCEPT ![h] = AllOff]
  /\ tickTime' = [tickTime EXCEPT ![h] = [day |-> 1, hour |-> 0]]
EndTick(h) == Forget(h) /\ tickLease' = NoHost
(* content, then, in its own hour only, firmographic and engagement.       *)
After(h, o) ==
  CASE o = "content" /\ tickTime[h].hour = ScheduleHour -> To(h, "firmographic", "due")
    [] o = "firmographic" -> To(h, "engagement", "due")
    [] OTHER -> EndTick(h)
PartnerFault == partnerFaults < MaxPartnerFaults /\ partnerFaults' = partnerFaults + 1

-----------------------------------------------------------------------------
HourPasses ==
  /\ IF partnerHour < LastHour
     THEN partnerHour' = partnerHour + 1 /\ UNCHANGED partnerDay
     ELSE partnerHour' = 0 /\ partnerDay < MaxPartnerDay /\ partnerDay' = partnerDay + 1
  /\ UNCHANGED <<runConfig, tickState, editBase, batchRow, partnerHistory>>

(* A bug: the tick runs without the lease.                                 *)
BugTickStarts(h) ==
  /\ tickAt[h].step = "idle"
  /\ tickLease' = h
  /\ tickAt' = [tickAt EXCEPT ![h].step = "config"]
  /\ UNCHANGED <<partnerClock, runConfig, tickConfig, tickTime, editBase, batchRow, partnerHistory>>

TickStarts(h) ==
  /\ tickLease = NoHost
  /\ tickLease' = h
  /\ tickAt' = [tickAt EXCEPT ![h].step = "config"]
  /\ UNCHANGED <<partnerClock, runConfig, tickConfig, tickTime, editBase, batchRow, partnerHistory>>

ReadRunConfig(h) ==
  /\ tickAt[h].step = "config"
  /\ IF \A o \in Objectives : ~runConfig.on[o]
     THEN EndTick(h)
     ELSE /\ tickConfig' = [tickConfig EXCEPT ![h] = runConfig]
          /\ tickTime' = [tickTime EXCEPT ![h] = [day |-> partnerDay, hour |-> partnerHour]]
          /\ tickAt' = [tickAt EXCEPT ![h].step = "due"]
          /\ UNCHANGED tickLease
  /\ UNCHANGED <<partnerClock, runConfig, editBase, batchRow, partnerHistory>>

(* A bug: the hour alone decides, as engagement mining once did.           *)
BugDue(h, o) == tickConfig[h].on[o] /\ (o = "content" => tickTime[h].hour = ContentHour)

(* Each objective has a date of its own, compared in the tick's own copy.  *)
Due(h, o) ==
  /\ tickConfig[h].on[o]
  /\ tickConfig[h].stamp[o] # tickTime[h].day
  /\ o = "content" => tickTime[h].hour = ContentHour

(* Discovery also needs titles to search for; without them it is skipped.  *)
DueObjective(h, o) ==
  /\ HostAt(h, o, "due") /\ Due(h, o)
  /\ To(h, o, IF o = "firmographic" THEN "batch" ELSE "read")
  /\ UNCHANGED <<partnerClock, runConfig, editBase, batchRow, partnerHistory>>

SkipObjective(h, o) ==
  /\ HostAt(h, o, "due") /\ (Due(h, o) => o = "firmographic")
  /\ After(h, o)
  /\ UNCHANGED <<partnerClock, runConfig, editBase, batchRow, partnerHistory>>

InsertBatch(h, b, starter) ==
  /\ batchRow[b].status = "absent" /\ \A a \in BatchIds : a < b => batchRow[a].status # "absent"
  /\ batchRow' = [batchRow EXCEPT ![b] = [status |-> "in_progress", host |-> h, thread |-> starter]]

CreateBatch(h, b) ==
  /\ HostAt(h, "firmographic", "batch")
  /\ InsertBatch(h, b, "tick")
  /\ To(h, "firmographic", "read")
  /\ UNCHANGED <<partnerClock, runConfig, editBase, partnerHistory>>

(* set_daily_run_config: the configuration is read, merged, written.       *)
ReadForStamp(h, o) ==
  /\ HostAt(h, o, "read")
  /\ editBase' = [editBase EXCEPT ![h] = runConfig]
  /\ To(h, o, "write")
  /\ UNCHANGED <<partnerClock, runConfig, batchRow, partnerHistory>>

WriteConfig(w, new) ==
  /\ runConfig' = new
  /\ clobbered' = (clobbered \/ editBase[w] # runConfig)
  /\ editBase' = [editBase EXCEPT ![w] = AllOff]

(* A bug: the stamp is written for the day after the one that was asked.   *)
BugWriteStamp(h, o) ==
  /\ HostAt(h, o, "write")
  /\ WriteConfig(h, [editBase[h] EXCEPT !.stamp[o] = partnerDay])
  /\ To(h, o, "start")
  /\ UNCHANGED <<partnerClock, batchRow, started, partnerDied, edits, partnerFaults>>

WriteStamp(h, o) ==
  /\ HostAt(h, o, "write")
  /\ WriteConfig(h, [editBase[h] EXCEPT !.stamp[o] = tickTime[h].day])
  /\ To(h, o, "start")
  /\ UNCHANGED <<partnerClock, batchRow, started, partnerDied, edits, partnerFaults>>

(* The write raises: the tick is over, a Batch row made for it stays.      *)
StampRaises(h, o) ==
  /\ HostAt(h, o, "write")
  /\ PartnerFault
  /\ EndTick(h)
  /\ editBase' = [editBase EXCEPT ![h] = AllOff]
  /\ batchRow' = [b \in BatchIds |->
       IF batchRow[b].host = h /\ batchRow[b].thread = "tick" /\ o = "firmographic"
       THEN [batchRow[b] EXCEPT !.thread = "gone"] ELSE batchRow[b]]
  /\ UNCHANGED <<partnerClock, runConfig, started, clobbered, partnerDied, edits>>

StartThread(h, o) ==
  /\ HostAt(h, o, "start")
  /\ started' = [started EXCEPT ![o][tickTime[h].day] = @ + 1]
  /\ IF o = "firmographic"
     THEN \E b \in BatchIds : /\ batchRow[b].host = h /\ batchRow[b].thread = "tick"
                              /\ batchRow' = [batchRow EXCEPT ![b].thread = "running"]
     ELSE UNCHANGED batchRow
  /\ After(h, o)
  /\ UNCHANGED <<partnerClock, runConfig, editBase, clobbered, partnerDied, edits, partnerFaults>>

-----------------------------------------------------------------------------
(* The operator switches an objective on or off.                           *)
PutReads(w) ==
  /\ editBase[w] = AllOff /\ edits < MaxEdits
  /\ editBase' = [editBase EXCEPT ![w] = runConfig]
  /\ UNCHANGED <<partnerClock, runConfig, tickState, batchRow, partnerHistory>>

PutWrites(w) ==
  /\ editBase[w] # AllOff
  /\ edits < MaxEdits /\ edits' = edits + 1
  /\ \E o \in Objectives : WriteConfig(w, [editBase[w] EXCEPT !.on[o] = ~@])
  /\ UNCHANGED <<partnerClock, tickState, batchRow, started, partnerDied, partnerFaults>>

(* The discover route: a Batch row and a thread, whatever the stamps say.  *)
DiscoverByHand(h, b) ==
  /\ InsertBatch(h, b, "hand")
  /\ UNCHANGED <<partnerClock, runConfig, tickState, editBase, partnerHistory>>

HandThread(b) ==
  /\ batchRow[b].thread = "hand"
  /\ batchRow' = [batchRow EXCEPT ![b].thread = "running"]
  /\ UNCHANGED <<partnerClock, runConfig, tickState, editBase, partnerHistory>>

-----------------------------------------------------------------------------
(* run_partner_discovery_now: completed, blocked by the Apify budget, or   *)
(* failed with the exception's text.                                       *)
Report(b, status) ==
  /\ batchRow[b].thread = "running"
  /\ batchRow' = [batchRow EXCEPT ![b].status = status, ![b].thread = "gone"]

(* A bug: a blocked discovery returns without a word.                      *)
BugDiscoveryEnds(b) ==
  /\ \E status \in {"completed", "in_progress", "failed"} : Report(b, status)
  /\ UNCHANGED <<partnerClock, runConfig, tickState, editBase, partnerHistory>>

DiscoveryEnds(b) ==
  /\ \E status \in {"completed", "blocked", "failed"} : Report(b, status)
  /\ UNCHANGED <<partnerClock, runConfig, tickState, editBase, partnerHistory>>

(* The handler's own commit fails too.                                     *)
ReportFails(b) ==
  /\ PartnerFault
  /\ Report(b, "in_progress")
  /\ UNCHANGED <<partnerClock, runConfig, tickState, editBase, started, clobbered, partnerDied, edits>>

(* The process dies with its tick and its threads; the lease expires.      *)
HostDies(h) ==
  /\ PartnerFault
  /\ partnerDied' = TRUE
  /\ Forget(h)
  /\ tickLease' = IF tickLease = h THEN NoHost ELSE tickLease
  /\ editBase' = [editBase EXCEPT ![h] = AllOff]
  /\ batchRow' = [b \in BatchIds |->
       IF batchRow[b].host = h /\ batchRow[b].status = "in_progress"
       THEN [batchRow[b] EXCEPT !.thread = "gone"] ELSE batchRow[b]]
  /\ UNCHANGED <<partnerClock, runConfig, started, clobbered, edits>>

PartnerNext ==
  \/ HourPasses
  \/ \E h \in Hosts :
       \/ TickStarts(h) \/ ReadRunConfig(h) \/ HostDies(h)
       \/ \E b \in BatchIds : CreateBatch(h, b) \/ DiscoverByHand(h, b)
       \/ \E o \in Objectives :
            \/ DueObjective(h, o) \/ SkipObjective(h, o) \/ ReadForStamp(h, o)
            \/ WriteStamp(h, o) \/ StampRaises(h, o) \/ StartThread(h, o)
  \/ \E w \in Operators : PutReads(w) \/ PutWrites(w)
  \/ \E b \in BatchIds : HandThread(b) \/ DiscoveryEnds(b) \/ ReportFails(b)

PartnerSpec == PartnerInit /\ [][PartnerNext]_partnerVars

-----------------------------------------------------------------------------
(* An objective runs once per UTC day at most, however many instances tick *)
(* in its hour; only an edit of the configuration that overlaps a stamp    *)
(* can make it run again.                                                  *)
OncePerDay ==
  \A o \in Objectives, d \in PartnerDays : started[o][d] > 1 => clobbered

(* A stamped objective was started on that day, or is about to be; a crash *)
(* between the two loses the day.                                          *)
StampMeansStarted ==
  \A o \in Objectives :
    LET d == runConfig.stamp[o] IN
    d > 0 /\ started[o][d] = 0 =>
      partnerDied \/ \E h \in Hosts : HostAt(h, o, "start") /\ tickTime[h].day = d

(* A Batch row says in_progress while a thread works on it; it says so for *)
(* ever only if the process died or a commit failed.                       *)
BatchGetsResult ==
  \A b \in BatchIds :
    batchRow[b].status = "in_progress" /\ batchRow[b].thread = "gone" => partnerFaults > 0

(* The rules of the daily run: once a day, stamped only when started, and  *)
(* no batch left in progress without a fault; its variables have types.    *)
PartnerRules == PartnerTypeOK /\ OncePerDay /\ StampMeansStarted /\ BatchGetsResult
=============================================================================
