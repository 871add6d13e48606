---------------------------- MODULE PartnerProofs ----------------------------
(***************************************************************************)
(* Proofs about what a partner tenant sees: its daily run, for every       *)
(* number of hosts, of operators and of days, the recommendations it gets, *)
(* for every number of clerks, partners, companies and verdicts, and its   *)
(* LinkedIn monitor, for every number of sweeps, profiles and posts.       *)
(***************************************************************************)
EXTENDS PartnerDailyRun, PartnerReferrals, PartnerMonitor, FiniteSetTheorems, WellFoundedInduction, TLAPS

-----------------------------------------------------------------------------
(* The daily run.                                                          *)
TickRow == [objective : Objectives, step : TickSteps]
BatchRecord == [status : {"absent", "in_progress", "completed", "blocked", "failed"},
                host : Hosts \cup {NoHost}, thread : {"none", "tick", "hand", "running", "gone"}]

(* What a tick still has to decide about: its objective, while it is asked *)
(* whether it is due, and those that follow in the tick's order.           *)
Later(o, q) == (o = "content" /\ q # "content") \/ (o = "firmographic" /\ q = "engagement")
ToCome(h, o) == Later(tickAt[h].objective, o) \/ HostAt(h, o, "due")

(* Unless the configuration was written over one its writer had not read,  *)
(* its stamps are not later than the tick's day; the tick's own copy has   *)
(* the stamps of what is to come; one that is about to be written is of an *)
(* earlier day; what was started is stamped, and was started once.         *)
Decided(h) ==
  tickAt[h].step \notin {"idle", "config"} =>
    /\ tickTime[h].day <= partnerDay
    /\ \A o \in Objectives :
         /\ runConfig.stamp[o] <= tickTime[h].day
         /\ ToCome(h, o) => tickConfig[h].stamp[o] = runConfig.stamp[o]
         /\ tickAt[h].objective = o /\ tickAt[h].step \in {"batch", "read", "write"} =>
              runConfig.stamp[o] < tickTime[h].day
         /\ HostAt(h, o, "start") => started[o][tickTime[h].day] = 0 /\ runConfig.stamp[o] = tickTime[h].day
Dated(o) ==
  /\ runConfig.stamp[o] <= partnerDay
  /\ \A d \in PartnerDays : started[o][d] <= 1 /\ (started[o][d] = 1 => d <= runConfig.stamp[o])
StampInv == ~clobbered => (\A h \in Hosts : Decided(h)) /\ (\A o \in Objectives : Dated(o))

(* Every configuration that is, or may be, written back has stamps of what *)
(* was started, but for the one that is about to be.                       *)
Honest(config) ==
  \A o \in Objectives :
    config.stamp[o] > 0 /\ started[o][config.stamp[o]] = 0 =>
      partnerDied \/ \E h \in Hosts : HostAt(h, o, "start") /\ tickTime[h].day = config.stamp[o]
HonestInv == Honest(runConfig) /\ \A w \in Writers : Honest(editBase[w])

PartnerInv == PartnerTypeOK /\ StampInv /\ HonestInv /\ BatchGetsResult

LEMMA ConfigTypes ==
  /\ AllOff \in RunConfigs
  /\ \A c \in RunConfigs, o \in Objectives, d \in 0..MaxPartnerDay : [c EXCEPT !.stamp[o] = d] \in RunConfigs
  /\ \A c \in RunConfigs, o \in Objectives : [c EXCEPT !.on[o] = ~@] \in RunConfigs
<1>1. AllOff \in RunConfigs
  BY PartnerAssumption DEF AllOff, NeverRun, RunConfigs
<1>2. ASSUME NEW c \in RunConfigs, NEW o \in Objectives, NEW d \in 0..MaxPartnerDay
      PROVE  [c EXCEPT !.stamp[o] = d] \in RunConfigs
  BY <1>2 DEF RunConfigs
<1>3. ASSUME NEW c \in RunConfigs, NEW o \in Objectives PROVE [c EXCEPT !.on[o] = ~@] \in RunConfigs
  BY <1>3 DEF RunConfigs
<1>4. QED
  BY <1>1, <1>2, <1>3

LEMMA PartnerInitInv == PartnerInit => PartnerInv
<1>1. SUFFICES ASSUME PartnerInit PROVE PartnerInv
  OBVIOUS
<1>2. PartnerTypeOK
  <2>1. runConfig \in RunConfigs
    BY <1>1, PartnerAssumption DEF PartnerInit, RunConfigs, NeverRun
  <2>2. tickConfig \in [Hosts -> RunConfigs] /\ editBase \in [Writers -> RunConfigs]
    BY <1>1, ConfigTypes DEF PartnerInit
  <2>3. IdleHost \in TickRow /\ NoBatch \in BatchRecord
    BY DEF IdleHost, TickRow, Objectives, TickSteps, NoBatch, BatchRecord
  <2>4. /\ tickAt \in [Hosts -> TickRow] /\ (\A h \in Hosts : tickAt[h].step = "idle")
        /\ batchRow \in [BatchIds -> BatchRecord]
    BY <1>1, <2>3 DEF PartnerInit, IdleHost
  <2>5. partnerDay \in PartnerDays /\ partnerHour \in 0..LastHour /\ tickTime \in [Hosts -> [day : PartnerDays, hour : 0..LastHour]]
    BY <1>1, PartnerAssumption DEF PartnerInit, PartnerDays
  <2>6. started \in [Objectives -> [PartnerDays -> Nat]]
    BY <1>1 DEF PartnerInit
  <2>7. clobbered = FALSE /\ partnerDied = FALSE /\ edits \in 0..MaxEdits /\ partnerFaults \in 0..MaxPartnerFaults
        /\ tickLease = NoHost
    BY <1>1, PartnerAssumption DEF PartnerInit
  <2>8. QED
    BY <2>1, <2>2, <2>4, <2>5, <2>6, <2>7 DEF PartnerTypeOK, TickRow, BatchRecord
<1>3. \A h \in Hosts : tickAt[h].step = "idle"
  BY <1>1 DEF PartnerInit, IdleHost
<1>4. /\ \A o \in Objectives : runConfig.stamp[o] = 0 /\ \A d \in PartnerDays : started[o][d] = 0
      /\ \A w \in Writers, o \in Objectives : editBase[w].stamp[o] = 0
  BY <1>1 DEF PartnerInit, NeverRun, AllOff
<1>5. StampInv
  BY <1>1, <1>3, <1>4 DEF PartnerInit, StampInv, Decided, Dated
<1>6. HonestInv
  BY <1>4 DEF HonestInv, Honest
<1>7. BatchGetsResult
  BY <1>1 DEF PartnerInit, BatchGetsResult, NoBatch
<1>8. QED
  BY <1>2, <1>5, <1>6, <1>7 DEF PartnerInv

(* A tick goes on to the next objective of its order, or is over.          *)
LEMMA TickGoesOn ==
  ASSUME PartnerTypeOK, NEW h \in Hosts, NEW o \in Objectives, After(h, o)
  PROVE  \/ \E q \in Objectives : Later(o, q) /\ To(h, q, "due")
         \/ EndTick(h)
<1>1. "firmographic" \in Objectives /\ "engagement" \in Objectives
  BY DEF Objectives
<1>2. CASE o = "content" /\ tickTime[h].hour = ScheduleHour
  <2>1. To(h, "firmographic", "due")
    BY <1>2 DEF After
  <2>2. Later(o, "firmographic")
    BY <1>2 DEF Later
  <2>3. QED
    BY <1>1, <2>1, <2>2
<1>3. CASE o = "firmographic"
  BY <1>1, <1>3 DEF After, Later
<1>4. CASE ~(o = "content" /\ tickTime[h].hour = ScheduleHour) /\ o # "firmographic"
  BY <1>4 DEF After
<1>5. QED
  BY <1>2, <1>3, <1>4

(* Wherever a tick moves, the variables of the ticks keep their types.     *)
TickTypes ==
  /\ tickAt \in [Hosts -> TickRow] /\ tickConfig \in [Hosts -> RunConfigs] /\ tickLease \in Hosts \cup {NoHost}
  /\ tickTime \in [Hosts -> [day : PartnerDays, hour : 0..LastHour]]
  /\ \A h \in Hosts : tickAt[h].step # "idle" => tickLease = h

LEMMA MoveTypes ==
  ASSUME TickTypes, NEW h \in Hosts, NEW o \in Objectives, NEW s \in TickSteps, To(h, o, s), tickAt[h].step # "idle"
  PROVE  TickTypes'
<1>1. [objective |-> o, step |-> s] \in TickRow
  BY DEF TickRow
<1>2. tickAt' \in [Hosts -> TickRow] /\ \A g \in Hosts : g # h => tickAt'[g] = tickAt[g]
  BY <1>1 DEF To, TickTypes
<1>3. QED
  BY <1>2 DEF To, TickTypes

LEMMA StopTypes ==
  ASSUME TickTypes, NEW h \in Hosts, Forget(h), tickLease' = NoHost \/ tickLease' = tickLease,
         tickLease' = NoHost => tickLease \in {h, NoHost}
  PROVE  TickTypes'
<1>1. IdleHost \in TickRow /\ IdleHost.step = "idle" /\ [day |-> 1, hour |-> 0] \in [day : PartnerDays, hour : 0..LastHour]
  BY PartnerAssumption DEF IdleHost, TickRow, Objectives, TickSteps, PartnerDays
<1>2. tickAt' \in [Hosts -> TickRow] /\ (\A g \in Hosts : g # h => tickAt'[g] = tickAt[g]) /\ tickAt'[h].step = "idle"
  BY <1>1 DEF Forget, TickTypes
<1>3. tickConfig' \in [Hosts -> RunConfigs]
  BY ConfigTypes DEF Forget, TickTypes
<1>4. tickTime' \in [Hosts -> [day : PartnerDays, hour : 0..LastHour]]
  BY <1>1 DEF Forget, TickTypes
<1>5. \A g \in Hosts : tickAt'[g].step # "idle" => tickLease' = g
  BY <1>2, PartnerAssumption DEF TickTypes
<1>6. QED
  BY <1>2, <1>3, <1>4, <1>5 DEF TickTypes

RestTypes ==
  /\ partnerDay \in PartnerDays /\ partnerHour \in 0..LastHour
  /\ runConfig \in RunConfigs
  /\ editBase \in [Writers -> RunConfigs]
  /\ batchRow \in [BatchIds -> BatchRecord]
  /\ started \in [Objectives -> [PartnerDays -> Nat]]
  /\ clobbered \in BOOLEAN /\ partnerDied \in BOOLEAN /\ edits \in 0..MaxEdits /\ partnerFaults \in 0..MaxPartnerFaults

LEMMA SplitTypes == PartnerTypeOK <=> TickTypes /\ RestTypes
BY DEF PartnerTypeOK, TickTypes, RestTypes, TickRow, BatchRecord

LEMMA SplitTypesNext == PartnerTypeOK' <=> TickTypes' /\ RestTypes'
BY DEF PartnerTypeOK, TickTypes, RestTypes, TickRow, BatchRecord

(* The steps of a tick keep its variables' types.                          *)
LEMMA TickStep ==
  ASSUME PartnerTypeOK, PartnerNext
  PROVE  TickTypes'
<1>1. TickTypes /\ partnerDay \in PartnerDays /\ partnerHour \in 0..LastHour /\ runConfig \in RunConfigs
  BY SplitTypes DEF RestTypes
<1>2. CASE UNCHANGED tickState
  BY <1>1, <1>2 DEF tickState, TickTypes
<1>3. ASSUME NEW h \in Hosts, EndTick(h), tickAt[h].step # "idle" PROVE TickTypes'
  BY <1>1, <1>3, StopTypes DEF EndTick, TickTypes
<1>4. ASSUME NEW h \in Hosts, NEW o \in Objectives, After(h, o), tickAt[h].step # "idle" PROVE TickTypes'
  BY <1>1, <1>3, <1>4, TickGoesOn, MoveTypes DEF TickSteps
<1>5. ASSUME NEW h \in Hosts, TickStarts(h) PROVE TickTypes'
  <2>1. [tickAt[h] EXCEPT !.step = "config"] \in TickRow /\ \A g \in Hosts : tickAt[g].step = "idle"
    BY <1>1, <1>5, PartnerAssumption DEF TickStarts, TickTypes, TickRow, TickSteps
  <2>2. tickAt' \in [Hosts -> TickRow] /\ \A g \in Hosts : g # h => tickAt'[g] = tickAt[g]
    BY <1>1, <1>5, <2>1 DEF TickStarts, TickTypes
  <2>3. QED
    BY <1>1, <1>5, <2>1, <2>2 DEF TickStarts, TickTypes
<1>6. ASSUME NEW h \in Hosts, ReadRunConfig(h) PROVE TickTypes'
  <2>1. tickAt[h].step # "idle"
    BY <1>6 DEF ReadRunConfig
  <2>2. CASE EndTick(h)
    BY <1>3, <2>1, <2>2
  <2>3. CASE ~EndTick(h)
    <3>1. [tickAt[h] EXCEPT !.step = "due"] \in TickRow /\ [day |-> partnerDay, hour |-> partnerHour] \in [day : PartnerDays, hour : 0..LastHour]
      BY <1>1 DEF TickTypes, TickRow, TickSteps
    <3>2. tickAt' \in [Hosts -> TickRow] /\ \A g \in Hosts : g # h => tickAt'[g] = tickAt[g]
      BY <1>1, <1>6, <2>3, <3>1 DEF ReadRunConfig, TickTypes
    <3>3. tickConfig' \in [Hosts -> RunConfigs] /\ tickTime' \in [Hosts -> [day : PartnerDays, hour : 0..LastHour]]
      BY <1>1, <1>6, <2>3, <3>1 DEF ReadRunConfig, TickTypes
    <3>4. QED
      BY <1>1, <1>6, <2>1, <2>3, <3>2, <3>3 DEF ReadRunConfig, TickTypes
  <2>4. QED
    BY <2>2, <2>3
<1>7. ASSUME NEW h \in Hosts, HostDies(h) PROVE TickTypes'
  BY <1>1, <1>7, StopTypes DEF HostDies
<1>8. ASSUME NEW h \in Hosts, NEW b \in BatchIds, CreateBatch(h, b) PROVE TickTypes'
  BY <1>1, <1>8, MoveTypes DEF CreateBatch, HostAt, Objectives, TickSteps
<1>9. ASSUME NEW h \in Hosts, NEW o \in Objectives,
             DueObjective(h, o) \/ SkipObjective(h, o) \/ ReadForStamp(h, o) \/ WriteStamp(h, o) \/ StampRaises(h, o) \/ StartThread(h, o)
      PROVE  TickTypes'
  <2>1. tickAt[h].step # "idle"
    BY <1>9 DEF DueObjective, SkipObjective, ReadForStamp, WriteStamp, StampRaises, StartThread, HostAt
  <2>2. CASE DueObjective(h, o)
    BY <1>1, <2>1, <2>2, MoveTypes DEF DueObjective, TickSteps
  <2>3. CASE SkipObjective(h, o)
    BY <1>4, <2>1, <2>3 DEF SkipObjective
  <2>4. CASE ReadForStamp(h, o)
    BY <1>1, <2>1, <2>4, MoveTypes DEF ReadForStamp, TickSteps
  <2>5. CASE WriteStamp(h, o)
    BY <1>1, <2>1, <2>5, MoveTypes DEF WriteStamp, TickSteps
  <2>6. CASE StampRaises(h, o)
    BY <1>3, <2>1, <2>6 DEF StampRaises
  <2>7. CASE StartThread(h, o)
    BY <1>4, <2>1, <2>7 DEF StartThread
  <2>8. QED
    BY <1>9, <2>2, <2>3, <2>4, <2>5, <2>6, <2>7
<1>10. CASE HourPasses
  BY <1>2, <1>10 DEF HourPasses
<1>11. ASSUME NEW w \in Operators, PutReads(w) \/ PutWrites(w) PROVE TickTypes'
  BY <1>2, <1>11 DEF PutReads, PutWrites
<1>12. ASSUME NEW b \in BatchIds, HandThread(b) \/ DiscoveryEnds(b) \/ ReportFails(b) PROVE TickTypes'
  BY <1>2, <1>12 DEF HandThread, DiscoveryEnds, ReportFails
<1>13. ASSUME NEW h \in Hosts, NEW b \in BatchIds, DiscoverByHand(h, b) PROVE TickTypes'
  BY <1>2, <1>13 DEF DiscoverByHand
<1>14. QED
  BY <1>5, <1>6, <1>7, <1>8, <1>9, <1>10, <1>11, <1>12, <1>13 DEF PartnerNext

(* The other variables of the daily run keep theirs.                       *)
LEMMA RestStep ==
  ASSUME PartnerTypeOK, PartnerNext
  PROVE  RestTypes'
<1>1. RestTypes /\ TickTypes
  BY SplitTypes
<1>2. CASE UNCHANGED <<partnerClock, runConfig, editBase, batchRow, partnerHistory>>
  BY <1>1, <1>2 DEF partnerClock, partnerHistory, RestTypes
<1>3. ASSUME NEW b \in BatchIds, NEW r \in BatchRecord, batchRow' = [batchRow EXCEPT ![b] = r],
             UNCHANGED <<partnerClock, runConfig, editBase, started, clobbered, partnerDied, edits>>,
             partnerFaults' \in 0..MaxPartnerFaults
      PROVE  RestTypes'
  BY <1>1, <1>3 DEF partnerClock, RestTypes
<1>4. ASSUME NEW w \in Writers, NEW c \in RunConfigs, WriteConfig(w, c), edits' \in 0..MaxEdits,
             UNCHANGED <<partnerClock, batchRow, started, partnerDied, partnerFaults>>
      PROVE  RestTypes'
  <2>1. editBase' \in [Writers -> RunConfigs] /\ clobbered' \in BOOLEAN
    BY <1>1, <1>4, ConfigTypes DEF WriteConfig, RestTypes
  <2>2. QED
    BY <1>1, <1>4, <2>1 DEF WriteConfig, partnerClock, RestTypes
<1>5. CASE HourPasses
  <2>1. partnerDay' \in PartnerDays /\ partnerHour' \in 0..LastHour
    BY <1>1, <1>5, PartnerAssumption DEF HourPasses, RestTypes, PartnerDays
  <2>2. QED
    BY <1>1, <1>5, <2>1 DEF HourPasses, partnerHistory, RestTypes
<1>6. PartnerFault => partnerFaults' \in 0..MaxPartnerFaults
  BY <1>1, PartnerAssumption DEF PartnerFault, RestTypes
<1>8. ASSUME NEW h \in Hosts, HostDies(h) PROVE RestTypes'
  <2>1. editBase' \in [Writers -> RunConfigs]
    BY <1>1, <1>8, ConfigTypes DEF HostDies, RestTypes
  <2>2. batchRow' \in [BatchIds -> BatchRecord]
    BY <1>1, <1>8 DEF HostDies, RestTypes, BatchRecord
  <2>3. QED
    BY <1>1, <1>6, <1>8, <2>1, <2>2 DEF HostDies, RestTypes, partnerClock
<1>9. ASSUME NEW h \in Hosts, NEW b \in BatchIds, NEW t \in {"tick", "hand"}, InsertBatch(h, b, t),
             UNCHANGED <<partnerClock, runConfig, editBase, partnerHistory>>
      PROVE  RestTypes'
  <2>1. [status |-> "in_progress", host |-> h, thread |-> t] \in BatchRecord
    BY DEF BatchRecord
  <2>2. partnerFaults' \in 0..MaxPartnerFaults
    BY <1>1, <1>9 DEF partnerHistory, RestTypes
  <2>3. QED
    BY <1>3, <1>9, <2>1, <2>2 DEF InsertBatch, partnerHistory
<1>10. ASSUME NEW h \in Hosts, NEW o \in Objectives, ReadForStamp(h, o) PROVE RestTypes'
  <2>1. editBase' \in [Writers -> RunConfigs]
    BY <1>1, <1>10 DEF ReadForStamp, RestTypes
  <2>2. QED
    BY <1>1, <1>10, <2>1 DEF ReadForStamp, RestTypes, partnerClock, partnerHistory
<1>11. ASSUME NEW h \in Hosts, NEW o \in Objectives, WriteStamp(h, o) PROVE RestTypes'
  <2>1. h \in Writers /\ editBase[h] \in RunConfigs /\ tickTime[h].day \in 0..MaxPartnerDay
    BY <1>1 DEF Writers, RestTypes, TickTypes, PartnerDays
  <2>2. [editBase[h] EXCEPT !.stamp[o] = tickTime[h].day] \in RunConfigs
    BY <2>1, ConfigTypes
  <2>3. edits' \in 0..MaxEdits
    BY <1>1, <1>11 DEF WriteStamp, RestTypes
  <2>4. QED
    BY <1>4, <1>11, <2>1, <2>2, <2>3 DEF WriteStamp
<1>12. ASSUME NEW h \in Hosts, NEW o \in Objectives, StampRaises(h, o) PROVE RestTypes'
  <2>1. editBase' \in [Writers -> RunConfigs]
    BY <1>1, <1>12, ConfigTypes DEF StampRaises, RestTypes
  <2>2. batchRow' \in [BatchIds -> BatchRecord]
    BY <1>1, <1>12 DEF StampRaises, RestTypes, BatchRecord
  <2>3. QED
    BY <1>1, <1>6, <1>12, <2>1, <2>2 DEF StampRaises, RestTypes, partnerClock
<1>13. ASSUME NEW h \in Hosts, NEW o \in Objectives, StartThread(h, o) PROVE RestTypes'
  <2>1. tickTime[h].day \in PartnerDays
    BY <1>1 DEF TickTypes
  <2>2. started' \in [Objectives -> [PartnerDays -> Nat]]
    BY <1>1, <1>13, <2>1 DEF StartThread, RestTypes
  <2>3. batchRow' \in [BatchIds -> BatchRecord]
    BY <1>1, <1>13 DEF StartThread, RestTypes, BatchRecord
  <2>4. QED
    BY <1>1, <1>13, <2>2, <2>3 DEF StartThread, RestTypes, partnerClock
<1>14. ASSUME NEW w \in Operators, PutReads(w) PROVE RestTypes'
  <2>1. editBase' \in [Writers -> RunConfigs]
    BY <1>1, <1>14 DEF PutReads, RestTypes
  <2>2. QED
    BY <1>1, <1>14, <2>1 DEF PutReads, RestTypes, partnerClock, partnerHistory
<1>15. ASSUME NEW w \in Operators, PutWrites(w) PROVE RestTypes'
  <2>1. w \in Writers /\ editBase[w] \in RunConfigs
    BY <1>1 DEF Writers, RestTypes
  <2>2. edits' \in 0..MaxEdits
    BY <1>1, <1>15, PartnerAssumption DEF PutWrites, RestTypes
  <2>3. QED
    BY <1>4, <1>15, <2>1, <2>2, ConfigTypes DEF PutWrites
<1>16. ASSUME NEW b \in BatchIds, NEW s \in {"completed", "blocked", "failed", "in_progress"}, Report(b, s)
       PROVE  \E r \in BatchRecord : batchRow' = [batchRow EXCEPT ![b] = r]
  <2>1. [batchRow[b] EXCEPT !.status = s, !.thread = "gone"] \in BatchRecord
    BY <1>1 DEF RestTypes, BatchRecord
  <2>2. batchRow' = [batchRow EXCEPT ![b] = [batchRow[b] EXCEPT !.status = s, !.thread = "gone"]]
    BY <1>1, <1>16 DEF Report, RestTypes
  <2>3. QED
    BY <2>1, <2>2
<1>17. ASSUME NEW b \in BatchIds, HandThread(b) \/ DiscoveryEnds(b) \/ ReportFails(b) PROVE RestTypes'
  <2>1. partnerFaults' \in 0..MaxPartnerFaults
    BY <1>1, <1>6, <1>17 DEF HandThread, DiscoveryEnds, ReportFails, RestTypes, partnerHistory
  <2>2. CASE HandThread(b)
    <3>1. [batchRow[b] EXCEPT !.thread = "running"] \in BatchRecord
      BY <1>1 DEF RestTypes, BatchRecord
    <3>2. batchRow' = [batchRow EXCEPT ![b] = [batchRow[b] EXCEPT !.thread = "running"]]
      BY <1>1, <2>2 DEF HandThread, RestTypes
    <3>3. QED
      BY <1>3, <2>1, <2>2, <3>1, <3>2 DEF HandThread, partnerHistory
  <2>3. CASE DiscoveryEnds(b)
    BY <1>3, <1>16, <2>1, <2>3 DEF DiscoveryEnds, partnerHistory
  <2>4. CASE ReportFails(b)
    BY <1>3, <1>16, <2>1, <2>4 DEF ReportFails
  <2>5. QED
    BY <1>17, <2>2, <2>3, <2>4
<1>18. ASSUME NEW h \in Hosts, TickStarts(h) \/ ReadRunConfig(h) PROVE RestTypes'
  BY <1>2, <1>18 DEF TickStarts, ReadRunConfig
<1>19. ASSUME NEW h \in Hosts, NEW o \in Objectives, DueObjective(h, o) \/ SkipObjective(h, o) PROVE RestTypes'
  BY <1>2, <1>19 DEF DueObjective, SkipObjective
<1>20. ASSUME NEW h \in Hosts, NEW b \in BatchIds, CreateBatch(h, b) \/ DiscoverByHand(h, b) PROVE RestTypes'
  BY <1>9, <1>20 DEF CreateBatch, DiscoverByHand
<1>21. QED
  BY <1>5, <1>8, <1>10, <1>11, <1>12, <1>13, <1>14, <1>15, <1>17, <1>18, <1>19, <1>20 DEF PartnerNext

(* Batch rows: whatever leaves one in progress with no thread is a fault.  *)
LEMMA BatchStep ==
  ASSUME PartnerTypeOK, PartnerNext, BatchGetsResult
  PROVE  BatchGetsResult'
<1>1. RestTypes
  BY SplitTypes
<1>2. CASE UNCHANGED <<batchRow, partnerFaults>>
  BY <1>2 DEF BatchGetsResult
<1>3. PartnerFault => partnerFaults' > 0
  BY <1>1 DEF PartnerFault, RestTypes
<1>4. CASE PartnerFault
  BY <1>3, <1>4 DEF BatchGetsResult
<1>5. ASSUME NEW h \in Hosts, NEW b \in BatchIds, CreateBatch(h, b) \/ DiscoverByHand(h, b) PROVE BatchGetsResult'
  BY <1>1, <1>5 DEF CreateBatch, DiscoverByHand, InsertBatch, partnerHistory, BatchGetsResult, RestTypes
<1>6. ASSUME NEW h \in Hosts, NEW o \in Objectives, StartThread(h, o) PROVE BatchGetsResult'
  <2>1. batchRow \in [BatchIds -> BatchRecord] /\ partnerFaults' = partnerFaults
    BY <1>1, <1>6 DEF StartThread, RestTypes
  <2>2. CASE UNCHANGED batchRow
    BY <1>2, <2>1, <2>2
  <2>3. ASSUME NEW b \in BatchIds, batchRow' = [batchRow EXCEPT ![b].thread = "running"] PROVE BatchGetsResult'
    <3>1. \A c \in BatchIds : c # b => batchRow'[c] = batchRow[c]
      BY <2>1, <2>3
    <3>2. batchRow'[b].thread = "running"
      BY <2>1, <2>3 DEF BatchRecord
    <3>3. QED
      BY <2>1, <3>1, <3>2 DEF BatchGetsResult
  <2>4. QED
    BY <1>6, <2>2, <2>3 DEF StartThread
<1>7. ASSUME NEW b \in BatchIds, HandThread(b) \/ DiscoveryEnds(b) PROVE BatchGetsResult'
  <2>1. batchRow \in [BatchIds -> BatchRecord] /\ partnerFaults' = partnerFaults
    BY <1>1, <1>7 DEF HandThread, DiscoveryEnds, partnerHistory, RestTypes
  <2>2. \A c \in BatchIds : c # b => batchRow'[c] = batchRow[c]
    BY <1>7, <2>1 DEF HandThread, DiscoveryEnds, Report
  <2>3. batchRow'[b].thread = "running" \/ batchRow'[b].status \in {"completed", "blocked", "failed"}
    BY <1>7, <2>1 DEF HandThread, DiscoveryEnds, Report, BatchRecord
  <2>4. QED
    BY <2>1, <2>2, <2>3 DEF BatchGetsResult
<1>8. ASSUME NEW h \in Hosts, TickStarts(h) \/ ReadRunConfig(h) \/ HostDies(h) PROVE BatchGetsResult'
  BY <1>2, <1>4, <1>8 DEF TickStarts, ReadRunConfig, HostDies, partnerHistory
<1>9. ASSUME NEW h \in Hosts, NEW o \in Objectives,
             DueObjective(h, o) \/ SkipObjective(h, o) \/ ReadForStamp(h, o) \/ WriteStamp(h, o) \/ StampRaises(h, o)
      PROVE  BatchGetsResult'
  BY <1>2, <1>4, <1>9 DEF DueObjective, SkipObjective, ReadForStamp, WriteStamp, StampRaises, partnerHistory
<1>10. ASSUME NEW w \in Operators, PutReads(w) \/ PutWrites(w) PROVE BatchGetsResult'
  BY <1>2, <1>10 DEF PutReads, PutWrites, partnerHistory
<1>11. CASE HourPasses
  BY <1>2, <1>11 DEF HourPasses, partnerHistory
<1>12. ASSUME NEW b \in BatchIds, ReportFails(b) PROVE BatchGetsResult'
  BY <1>4, <1>12 DEF ReportFails
<1>13. QED
  BY <1>5, <1>6, <1>7, <1>8, <1>9, <1>10, <1>11, <1>12 DEF PartnerNext

(* What the stamps and the starts say of one another, step by step.        *)
LEMMA StampStep ==
  ASSUME PartnerInv, PartnerNext
  PROVE  StampInv'
<1>1. /\ TickTypes /\ RestTypes /\ TickTypes' /\ RestTypes' /\ StampInv
  BY SplitTypes, TickStep, RestStep DEF PartnerInv
<1>2. SUFFICES ASSUME ~clobbered' PROVE StampInv'
  BY DEF StampInv
<1>3. ASSUME NEW w \in Writers, NEW c, WriteConfig(w, c) PROVE ~clobbered /\ editBase[w] = runConfig /\ runConfig' = c
  BY <1>1, <1>2, <1>3 DEF WriteConfig, RestTypes
<1>4. (\A o \in Objectives : runConfig.stamp[o] \in Nat) /\ \A h \in Hosts : tickTime[h].day \in PartnerDays
  BY <1>1 DEF RestTypes, TickTypes, RunConfigs, PartnerDays
<1>5. partnerDay \in Nat
  BY <1>1 DEF RestTypes, PartnerDays
<1>6. ASSUME UNCHANGED tickState, partnerDay' \in Nat, partnerDay <= partnerDay', \A o \in Objectives : runConfig'.stamp[o] = runConfig.stamp[o],
             UNCHANGED started, ~clobbered
      PROVE  StampInv'
  <2>1. \A h \in Hosts : Decided(h)'
    <3>1. SUFFICES ASSUME NEW h \in Hosts PROVE Decided(h)'
      OBVIOUS
    <3>2. tickAt' = tickAt /\ tickTime' = tickTime /\ tickConfig' = tickConfig
      BY <1>6 DEF tickState
    <3>3. Decided(h)
      BY <1>1, <1>6 DEF StampInv
    <3>4. tickTime[h].day <= partnerDay => tickTime[h].day <= partnerDay'
      BY <1>4, <1>5, <1>6 DEF PartnerDays
    <3>5. QED
      BY <1>6, <3>2, <3>3, <3>4 DEF Decided, ToCome, HostAt
  <2>2. \A o \in Objectives : Dated(o)'
    BY <1>1, <1>4, <1>5, <1>6 DEF StampInv, Dated
  <2>3. QED
    BY <2>1, <2>2 DEF StampInv
<1>7. ASSUME NEW h \in Hosts, \A g \in Hosts : g # h => tickAt'[g] = tickAt[g] /\ tickTime'[g] = tickTime[g] /\ tickConfig'[g] = tickConfig[g],
             UNCHANGED <<partnerDay, runConfig, started>>, ~clobbered, Decided(h)'
      PROVE  StampInv'
  <2>1. \A g \in Hosts : g # h => Decided(g)'
    BY <1>1, <1>7 DEF StampInv, Decided, ToCome, HostAt
  <2>2. \A o \in Objectives : Dated(o)'
    BY <1>1, <1>7 DEF StampInv, Dated
  <2>3. QED
    BY <1>7, <2>1, <2>2 DEF StampInv
<1>8. ASSUME NEW h \in Hosts, Forget(h), UNCHANGED <<partnerDay, runConfig, started>>, ~clobbered PROVE StampInv'
  <2>1. Decided(h)'
    BY <1>1, <1>8 DEF Forget, TickTypes, IdleHost, Decided
  <2>2. QED
    BY <1>1, <1>7, <1>8, <2>1 DEF Forget, TickTypes
<1>9. ASSUME NEW h \in Hosts, NEW o \in Objectives, NEW s \in TickSteps, To(h, o, s)
      PROVE  /\ tickAt'[h].objective = o /\ tickAt'[h].step = s
             /\ \A q \in Objectives, t \in TickSteps : HostAt(h, q, t)' => q = o /\ t = s
             /\ tickTime' = tickTime /\ tickConfig' = tickConfig
             /\ \A g \in Hosts : g # h => tickAt'[g] = tickAt[g]
  BY <1>1, <1>9 DEF To, TickTypes, HostAt
<1>10. ASSUME NEW h \in Hosts, NEW o \in Objectives, NEW q \in Objectives, Later(o, q), To(h, q, "due"), tickAt[h].objective = o,
              tickAt[h].step \notin {"idle", "config"}, UNCHANGED <<partnerDay, runConfig>>, Decided(h)
       PROVE  Decided(h)'
  <2>1. "due" \in TickSteps /\ "start" \in TickSteps
    BY DEF TickSteps
  <2>2. \A r \in Objectives : ToCome(h, r)' => ToCome(h, r)
    BY <1>9, <1>10, <2>1 DEF ToCome, Later
  <2>3. \A r \in Objectives : ~HostAt(h, r, "start")'
    BY <1>9, <1>10, <2>1
  <2>4. QED
    BY <1>9, <1>10, <2>1, <2>2, <2>3 DEF Decided
<1>11. ASSUME NEW h \in Hosts, NEW o \in Objectives, After(h, o), tickAt[h].objective = o,
              tickAt[h].step \notin {"idle", "config"}, UNCHANGED <<partnerDay, runConfig>>, ~clobbered
       PROVE  /\ Decided(h)'
              /\ \A g \in Hosts : g # h => tickAt'[g] = tickAt[g] /\ tickTime'[g] = tickTime[g] /\ tickConfig'[g] = tickConfig[g]
  <2>1. CASE EndTick(h)
    BY <1>1, <2>1 DEF EndTick, Forget, TickTypes, IdleHost, Decided
  <2>2. CASE ~EndTick(h)
    <3>1. PICK q \in Objectives : Later(o, q) /\ To(h, q, "due")
      BY <1>11, <2>2, TickGoesOn DEF PartnerInv
    <3>2. "due" \in TickSteps
      BY DEF TickSteps
    <3>3. Decided(h)
      BY <1>1, <1>11 DEF StampInv
    <3>4. QED
      BY <1>9, <1>10, <1>11, <3>1, <3>2, <3>3
  <2>3. QED
    BY <2>1, <2>2
<1>12. ASSUME NEW h \in Hosts, TickStarts(h) PROVE StampInv'
  <2>1. (\A g \in Hosts : g # h => tickAt'[g] = tickAt[g]) /\ tickAt'[h].step = "config"
    BY <1>1, <1>12 DEF TickStarts, TickTypes, TickRow
  <2>2. Decided(h)'
    BY <2>1 DEF Decided
  <2>3. QED
    BY <1>2, <1>7, <1>12, <2>1, <2>2 DEF TickStarts, partnerClock, partnerHistory
<1>13. ASSUME NEW h \in Hosts, ReadRunConfig(h) PROVE StampInv'
  <2>1. UNCHANGED <<partnerDay, runConfig, started>> /\ ~clobbered
    BY <1>2, <1>13 DEF ReadRunConfig, partnerClock, partnerHistory
  <2>2. CASE EndTick(h)
    BY <1>8, <2>1, <2>2 DEF EndTick
  <2>3. CASE ~EndTick(h)
    <3>1. /\ tickAt'[h].step = "due" /\ tickConfig'[h] = runConfig /\ tickTime'[h].day = partnerDay
          /\ \A g \in Hosts : g # h => tickAt'[g] = tickAt[g] /\ tickTime'[g] = tickTime[g] /\ tickConfig'[g] = tickConfig[g]
      BY <1>1, <1>13, <2>3 DEF ReadRunConfig, TickTypes, TickRow
    <3>2. \A o \in Objectives : runConfig.stamp[o] <= partnerDay
      BY <1>1, <2>1 DEF StampInv, Dated
    <3>3. Decided(h)'
      BY <1>5, <2>1, <3>1, <3>2 DEF Decided, HostAt
    <3>4. QED
      BY <1>7, <2>1, <3>1, <3>3
  <2>4. QED
    BY <2>2, <2>3
<1>14. ASSUME NEW h \in Hosts, NEW o \in Objectives, NEW s \in {"batch", "read", "write"}, To(h, o, s), ~clobbered,
              UNCHANGED <<partnerDay, runConfig, started>>, tickAt[h].objective = o, tickAt[h].step \notin {"idle", "config"},
              runConfig.stamp[o] < tickTime[h].day
       PROVE  StampInv'
  <2>1. s \in TickSteps /\ "start" \in TickSteps /\ "due" \in TickSteps
    BY DEF TickSteps
  <2>2. \A r \in Objectives : ToCome(h, r)' => ToCome(h, r)
    BY <1>9, <1>14, <2>1 DEF ToCome
  <2>3. \A r \in Objectives : ~HostAt(h, r, "start")'
    BY <1>9, <1>14, <2>1
  <2>4. Decided(h)
    BY <1>1, <1>14 DEF StampInv
  <2>5. Decided(h)'
    BY <1>9, <1>14, <2>1, <2>2, <2>3, <2>4 DEF Decided
  <2>6. QED
    BY <1>7, <1>9, <1>14, <2>1, <2>5
<1>15. ASSUME NEW h \in Hosts, NEW o \in Objectives, DueObjective(h, o) PROVE StampInv'
  <2>1. ~clobbered /\ UNCHANGED <<partnerDay, runConfig, started>> /\ tickAt[h].objective = o /\ tickAt[h].step = "due"
    BY <1>2, <1>15 DEF DueObjective, HostAt, partnerClock, partnerHistory
  <2>2. Decided(h) /\ ToCome(h, o)
    BY <1>1, <1>15, <2>1 DEF StampInv, DueObjective, ToCome
  <2>3. runConfig.stamp[o] # tickTime[h].day /\ runConfig.stamp[o] <= tickTime[h].day
    BY <1>15, <2>1, <2>2 DEF DueObjective, Due, Decided
  <2>4. runConfig.stamp[o] < tickTime[h].day
    BY <1>4, <2>3 DEF PartnerDays
  <2>5. QED
    BY <1>14, <1>15, <2>1, <2>4 DEF DueObjective
<1>16. ASSUME NEW h \in Hosts, NEW b \in BatchIds, CreateBatch(h, b) PROVE StampInv'
  <2>1. "firmographic" \in Objectives
    BY DEF Objectives
  <2>2. ~clobbered /\ UNCHANGED <<partnerDay, runConfig, started>> /\ tickAt[h].objective = "firmographic" /\ tickAt[h].step = "batch"
    BY <1>2, <1>16 DEF CreateBatch, HostAt, partnerClock, partnerHistory
  <2>3. runConfig.stamp["firmographic"] < tickTime[h].day
    BY <1>1, <2>1, <2>2 DEF StampInv, Decided
  <2>4. QED
    BY <1>14, <1>16, <2>1, <2>2, <2>3 DEF CreateBatch
<1>17. ASSUME NEW h \in Hosts, NEW o \in Objectives, ReadForStamp(h, o) PROVE StampInv'
  <2>1. ~clobbered /\ UNCHANGED <<partnerDay, runConfig, started>> /\ tickAt[h].objective = o /\ tickAt[h].step = "read"
    BY <1>2, <1>17 DEF ReadForStamp, HostAt, partnerClock, partnerHistory
  <2>2. runConfig.stamp[o] < tickTime[h].day
    BY <1>1, <2>1 DEF StampInv, Decided
  <2>3. QED
    BY <1>14, <1>17, <2>1, <2>2 DEF ReadForStamp
<1>18. ASSUME NEW h \in Hosts, NEW o \in Objectives, SkipObjective(h, o) PROVE StampInv'
  <2>1. ~clobbered /\ UNCHANGED <<partnerDay, runConfig, started>> /\ tickAt[h].objective = o /\ tickAt[h].step = "due"
    BY <1>2, <1>18 DEF SkipObjective, HostAt, partnerClock, partnerHistory
  <2>2. QED
    BY <1>7, <1>11, <1>18, <2>1 DEF SkipObjective
<1>19. ASSUME NEW h \in Hosts, NEW o \in Objectives, WriteStamp(h, o) PROVE StampInv'
  <2>1. /\ partnerDay' = partnerDay /\ started' = started /\ tickAt[h].objective = o /\ tickAt[h].step = "write" /\ h \in Writers
        /\ To(h, o, "start") /\ "start" \in TickSteps
    BY <1>19 DEF WriteStamp, HostAt, partnerClock, Writers, TickSteps
  <2>2. ~clobbered /\ runConfig' = [runConfig EXCEPT !.stamp[o] = tickTime[h].day]
    BY <1>3, <1>19, <2>1 DEF WriteStamp
  <2>3. runConfig'.stamp[o] = tickTime[h].day /\ \A q \in Objectives : q # o => runConfig'.stamp[q] = runConfig.stamp[q]
    BY <1>1, <2>2 DEF RestTypes, RunConfigs
  <2>4. Decided(h) /\ \A q \in Objectives : Dated(q)
    BY <1>1, <2>2 DEF StampInv
  <2>5. tickTime[h].day <= partnerDay /\ runConfig.stamp[o] < tickTime[h].day
    BY <2>1, <2>4 DEF Decided
  <2>6. started[o][tickTime[h].day] = 0
    <3>1. tickTime[h].day \in PartnerDays /\ started[o][tickTime[h].day] \in Nat
      BY <1>1, <1>4 DEF RestTypes
    <3>2. started[o][tickTime[h].day] <= 1 /\ (started[o][tickTime[h].day] = 1 => tickTime[h].day <= runConfig.stamp[o])
      BY <2>4, <3>1 DEF Dated
    <3>3. QED
      BY <1>4, <2>5, <3>1, <3>2 DEF PartnerDays
  <2>7. \A q \in Objectives : Dated(q)'
    <3>1. SUFFICES ASSUME NEW q \in Objectives PROVE Dated(q)'
      OBVIOUS
    <3>2. CASE q # o
      BY <2>1, <2>3, <2>4, <3>2 DEF Dated
    <3>3. CASE q = o
      BY <1>4, <2>1, <2>3, <2>4, <2>5, <3>3 DEF Dated, PartnerDays
    <3>4. QED
      BY <3>2, <3>3
  <2>8. Decided(h)'
    <3>1. tickAt'[h].objective = o /\ tickAt'[h].step = "start" /\ tickTime' = tickTime /\ tickConfig' = tickConfig
      BY <1>9, <2>1
    <3>2. \A q \in Objectives : ToCome(h, q)' => q # o /\ ToCome(h, q)
      BY <2>1, <3>1 DEF ToCome, Later, HostAt
    <3>3. ASSUME NEW q \in Objectives PROVE runConfig'.stamp[q] <= tickTime[h].day
      BY <1>4, <2>1, <2>3, <2>4 DEF Decided, PartnerDays
    <3>4. \A q \in Objectives : HostAt(h, q, "start")' => q = o
      BY <3>1 DEF HostAt
    <3>5. ASSUME NEW q \in Objectives, ToCome(h, q)' PROVE tickConfig[h].stamp[q] = runConfig'.stamp[q]
      BY <2>1, <2>3, <2>4, <3>2, <3>5 DEF Decided
    <3>6. QED
      BY <2>1, <2>3, <2>5, <2>6, <3>1, <3>3, <3>4, <3>5 DEF Decided
  <2>9. \A g \in Hosts : g # h => Decided(g)'
    <3>1. \A g \in Hosts : g # h => tickAt'[g].step = "idle"
      BY <1>1, <1>9, <2>1 DEF TickTypes
    <3>2. QED
      BY <3>1 DEF Decided
  <2>10. QED
    BY <2>7, <2>8, <2>9 DEF StampInv
<1>20. ASSUME NEW h \in Hosts, NEW o \in Objectives, StampRaises(h, o) PROVE StampInv'
  BY <1>2, <1>8, <1>20 DEF StampRaises, EndTick, partnerClock
<1>21. ASSUME NEW h \in Hosts, NEW o \in Objectives, StartThread(h, o) PROVE StampInv'
  <2>1. /\ ~clobbered /\ UNCHANGED <<partnerDay, runConfig>> /\ tickAt[h].objective = o /\ tickAt[h].step = "start"
        /\ HostAt(h, o, "start")
    BY <1>2, <1>21 DEF StartThread, HostAt, partnerClock
  <2>2. /\ Decided(h)'
        /\ \A g \in Hosts : g # h => tickAt'[g] = tickAt[g] /\ tickTime'[g] = tickTime[g] /\ tickConfig'[g] = tickConfig[g]
    BY <1>11, <1>21, <2>1 DEF StartThread
  <2>3. started[o][tickTime[h].day] = 0 /\ runConfig.stamp[o] = tickTime[h].day
    BY <1>1, <2>1 DEF StampInv, Decided
  <2>4. \A q \in Objectives, d \in PartnerDays :
          started'[q][d] = IF q = o /\ d = tickTime[h].day THEN 1 ELSE started[q][d]
    BY <1>1, <1>4, <1>21, <2>3 DEF StartThread, RestTypes
  <2>5. \A q \in Objectives : Dated(q)'
    BY <1>1, <1>4, <2>1, <2>3, <2>4 DEF StampInv, Dated, PartnerDays
  <2>6. \A g \in Hosts : g # h => Decided(g)'
    <3>1. \A g \in Hosts : g # h => tickAt'[g].step = "idle"
      BY <1>1, <2>1, <2>2 DEF TickTypes
    <3>2. QED
      BY <3>1 DEF Decided
  <2>7. QED
    BY <2>2, <2>5, <2>6 DEF StampInv
<1>22. ASSUME NEW h \in Hosts, HostDies(h) PROVE StampInv'
  BY <1>2, <1>8, <1>22 DEF HostDies, partnerClock
<1>23. CASE HourPasses
  <2>1. partnerDay' \in Nat /\ partnerDay <= partnerDay'
    BY <1>5, <1>23 DEF HourPasses
  <2>2. QED
    BY <1>2, <1>6, <1>23, <2>1 DEF HourPasses, partnerHistory
<1>24. ASSUME NEW w \in Operators, PutWrites(w) PROVE StampInv'
  <2>1. PICK o \in Objectives : WriteConfig(w, [editBase[w] EXCEPT !.on[o] = ~@])
    BY <1>24 DEF PutWrites
  <2>2. ~clobbered /\ runConfig' = [runConfig EXCEPT !.on[o] = ~@]
    BY <1>3, <2>1 DEF Writers
  <2>3. \A q \in Objectives : runConfig'.stamp[q] = runConfig.stamp[q]
    BY <1>1, <2>2 DEF RestTypes, RunConfigs
  <2>4. QED
    BY <1>5, <1>6, <1>24, <2>2, <2>3 DEF PutWrites, partnerClock
<1>25. CASE UNCHANGED <<partnerClock, runConfig, tickState, started, clobbered>>
  BY <1>2, <1>5, <1>6, <1>25 DEF partnerClock
<1>26. ASSUME NEW b \in BatchIds, HandThread(b) \/ DiscoveryEnds(b) \/ ReportFails(b) PROVE StampInv'
  BY <1>25, <1>26 DEF HandThread, DiscoveryEnds, ReportFails, partnerHistory
<1>27. ASSUME NEW h \in Hosts, NEW b \in BatchIds, DiscoverByHand(h, b) PROVE StampInv'
  BY <1>25, <1>27 DEF DiscoverByHand, partnerHistory
<1>28. ASSUME NEW w \in Operators, PutReads(w) PROVE StampInv'
  BY <1>25, <1>28 DEF PutReads, partnerHistory
<1>29. QED
  BY <1>12, <1>13, <1>15, <1>16, <1>17, <1>18, <1>19, <1>20, <1>21, <1>22, <1>23, <1>24, <1>26, <1>27, <1>28 DEF PartnerNext

LEMMA HonestStep ==
  ASSUME PartnerInv, PartnerNext
  PROVE  HonestInv'
<1>1. TickTypes /\ RestTypes /\ TickTypes' /\ RestTypes' /\ HonestInv
  BY SplitTypes, TickStep, RestStep DEF PartnerInv
<1>2. Honest(AllOff) /\ Honest(AllOff)'
  BY DEF Honest, AllOff, NeverRun
<1> DEFINE StartsKept == \A h \in Hosts, o \in Objectives :
             HostAt(h, o, "start") => HostAt(h, o, "start")' /\ tickTime'[h] = tickTime[h]
<1>3. ASSUME NEW c, Honest(c), UNCHANGED <<started, partnerDied>>, StartsKept
      PROVE  \A o \in Objectives : c.stamp[o] > 0 /\ started'[o][c.stamp[o]] = 0 =>
               partnerDied' \/ \E h \in Hosts : HostAt(h, o, "start")' /\ tickTime'[h].day = c.stamp[o]
  BY <1>3 DEF Honest
<1>4. ASSUME UNCHANGED <<started, partnerDied, runConfig>>, StartsKept,
             \A w \in Writers : editBase'[w] \in {editBase[w], runConfig, AllOff}
      PROVE  HonestInv'
  <2>1. Honest(runConfig)'
    <3>1. Honest(runConfig)
      BY <1>1 DEF HonestInv
    <3>2. QED
      BY <1>3, <1>4, <3>1 DEF Honest
  <2>2. ASSUME NEW w \in Writers PROVE Honest(editBase[w])'
    <3>1. Honest(editBase[w])
      BY <1>1, <2>2 DEF HonestInv
    <3>2. CASE editBase'[w] = editBase[w]
      BY <1>3, <1>4, <3>1, <3>2 DEF Honest
    <3>3. CASE editBase'[w] = runConfig
      BY <1>4, <2>1, <3>3 DEF Honest
    <3>4. CASE editBase'[w] = AllOff
      BY <3>4 DEF Honest, AllOff, NeverRun
    <3>5. QED
      BY <1>4, <3>2, <3>3, <3>4
  <2>3. QED
    BY <2>1, <2>2 DEF HonestInv
<1>5. ASSUME NEW h \in Hosts, NEW o \in Objectives, NEW s \in TickSteps, To(h, o, s), tickAt[h].step # "start" PROVE StartsKept
  BY <1>1, <1>5 DEF To, TickTypes, HostAt
<1>6. ASSUME NEW h \in Hosts, Forget(h), tickAt[h].step # "start" PROVE StartsKept
  BY <1>1, <1>6 DEF Forget, TickTypes, HostAt
<1>7. ASSUME NEW h \in Hosts, NEW o \in Objectives, After(h, o), tickAt[h].step # "start" PROVE StartsKept
  <2>1. "due" \in TickSteps
    BY DEF TickSteps
  <2>2. QED
    BY <1>5, <1>6, <1>7, <2>1, TickGoesOn DEF PartnerInv, EndTick
<1>8. UNCHANGED tickState => StartsKept
  BY DEF tickState, HostAt
<1>9. ASSUME UNCHANGED <<started, partnerDied, runConfig, editBase>>, StartsKept PROVE HonestInv'
  BY <1>4, <1>9
<1>10. ASSUME NEW h \in Hosts, TickStarts(h) PROVE HonestInv'
  <2>1. StartsKept
    BY <1>1, <1>10, PartnerAssumption DEF TickStarts, TickTypes, HostAt
  <2>2. QED
    BY <1>9, <1>10, <2>1 DEF TickStarts, partnerHistory
<1>11. ASSUME NEW h \in Hosts, ReadRunConfig(h) PROVE HonestInv'
  <2>1. StartsKept
    BY <1>1, <1>6, <1>11 DEF ReadRunConfig, EndTick, TickTypes, HostAt
  <2>2. QED
    BY <1>9, <1>11, <2>1 DEF ReadRunConfig, partnerHistory
<1>12. ASSUME NEW h \in Hosts, NEW o \in Objectives, DueObjective(h, o) \/ SkipObjective(h, o) PROVE HonestInv'
  <2>1. StartsKept
    BY <1>5, <1>7, <1>12 DEF DueObjective, SkipObjective, HostAt, TickSteps
  <2>2. QED
    BY <1>9, <1>12, <2>1 DEF DueObjective, SkipObjective, partnerHistory
<1>13. ASSUME NEW h \in Hosts, NEW b \in BatchIds, CreateBatch(h, b) PROVE HonestInv'
  <2>1. StartsKept
    BY <1>5, <1>13 DEF CreateBatch, HostAt, Objectives, TickSteps
  <2>2. QED
    BY <1>9, <1>13, <2>1 DEF CreateBatch, partnerHistory
<1>14. ASSUME NEW h \in Hosts, NEW o \in Objectives, ReadForStamp(h, o) PROVE HonestInv'
  <2>1. StartsKept
    BY <1>5, <1>14 DEF ReadForStamp, HostAt, TickSteps
  <2>2. \A w \in Writers : editBase'[w] \in {editBase[w], runConfig, AllOff}
    BY <1>1, <1>14 DEF ReadForStamp, RestTypes
  <2>3. QED
    BY <1>4, <1>14, <2>1, <2>2 DEF ReadForStamp, partnerHistory
<1>15. ASSUME NEW w \in Writers, NEW c, WriteConfig(w, c), UNCHANGED <<started, partnerDied>>, StartsKept, Honest(runConfig)'
       PROVE  HonestInv'
  <2>1. ASSUME NEW v \in Writers PROVE Honest(editBase[v])'
    <3>1. CASE v = w
      BY <1>1, <1>15, <3>1 DEF WriteConfig, RestTypes, Honest, AllOff, NeverRun
    <3>2. CASE v # w
      <4>1. Honest(editBase[v]) /\ editBase'[v] = editBase[v]
        BY <1>1, <1>15, <3>2 DEF HonestInv, WriteConfig, RestTypes
      <4>2. QED
        BY <1>3, <1>15, <4>1 DEF Honest
    <3>3. QED
      BY <3>1, <3>2
  <2>2. QED
    BY <1>15, <2>1 DEF HonestInv
<1>16. ASSUME NEW h \in Hosts, NEW o \in Objectives, WriteStamp(h, o) PROVE HonestInv'
  <2>1. StartsKept
    BY <1>5, <1>16 DEF WriteStamp, HostAt, TickSteps
  <2>2. h \in Writers /\ Honest(editBase[h]) /\ editBase[h] \in RunConfigs
    BY <1>1 DEF HonestInv, Writers, RestTypes
  <2>3. runConfig'.stamp[o] = tickTime[h].day /\ \A q \in Objectives : q # o => runConfig'.stamp[q] = editBase[h].stamp[q]
    BY <1>16, <2>2 DEF WriteStamp, WriteConfig, RunConfigs
  <2>4. HostAt(h, o, "start")' /\ tickTime' = tickTime
    BY <1>1, <1>16 DEF WriteStamp, To, HostAt, TickTypes
  <2>5. UNCHANGED <<started, partnerDied>>
    BY <1>16 DEF WriteStamp
  <2>6. Honest(runConfig)'
    <3>1. SUFFICES ASSUME NEW q \in Objectives, runConfig'.stamp[q] > 0, started'[q][runConfig'.stamp[q]] = 0
                   PROVE  partnerDied' \/ \E g \in Hosts : HostAt(g, q, "start")' /\ tickTime'[g].day = runConfig'.stamp[q]
      BY DEF Honest
    <3>2. CASE q = o
      BY <2>3, <2>4, <3>2
    <3>3. CASE q # o
      BY <1>3, <2>1, <2>2, <2>3, <2>5, <3>1, <3>3
    <3>4. QED
      BY <3>2, <3>3
  <2>7. QED
    BY <1>15, <1>16, <2>1, <2>2, <2>5, <2>6 DEF WriteStamp
<1>17. ASSUME NEW h \in Hosts, NEW o \in Objectives, StampRaises(h, o) PROVE HonestInv'
  <2>1. StartsKept
    BY <1>6, <1>17 DEF StampRaises, EndTick, HostAt
  <2>2. \A w \in Writers : editBase'[w] \in {editBase[w], runConfig, AllOff}
    BY <1>1, <1>17 DEF StampRaises, RestTypes
  <2>3. QED
    BY <1>4, <1>17, <2>1, <2>2 DEF StampRaises
<1>18. ASSUME NEW h \in Hosts, NEW o \in Objectives, StartThread(h, o) PROVE HonestInv'
  <2>1. HostAt(h, o, "start") /\ partnerDied' = partnerDied /\ editBase' = editBase /\ runConfig' = runConfig
    BY <1>18 DEF StartThread
  <2>2. \A g \in Hosts, q \in Objectives : HostAt(g, q, "start") => g = h /\ q = o
    <3>1. ASSUME NEW g \in Hosts, NEW q \in Objectives, HostAt(g, q, "start") PROVE g = h /\ q = o
      <4>1. tickAt[g].step = "start" /\ tickAt[g].objective = q /\ tickAt[h].step = "start" /\ tickAt[h].objective = o
        BY <2>1, <3>1 DEF HostAt
      <4>2. tickLease = g /\ tickLease = h
        BY <1>1, <4>1 DEF TickTypes
      <4>3. QED
        BY <4>1, <4>2
    <3>2. QED
      BY <3>1
  <2>3. \A q \in Objectives, d \in PartnerDays : started[q][d] \in Nat
    BY <1>1 DEF RestTypes
  <2>4. \A q \in Objectives, d \in PartnerDays :
          started'[q][d] = IF q = o /\ d = tickTime[h].day THEN started[q][d] + 1 ELSE started[q][d]
    <3>1. tickTime[h].day \in PartnerDays
      BY <1>1 DEF TickTypes
    <3>2. QED
      BY <1>1, <1>18, <3>1 DEF StartThread, RestTypes
  <2>5. ASSUME NEW c \in RunConfigs, Honest(c)
        PROVE  \A q \in Objectives : c.stamp[q] > 0 => started'[q][c.stamp[q]] # 0 \/ partnerDied
    <3>1. SUFFICES ASSUME NEW q \in Objectives, c.stamp[q] > 0, ~partnerDied PROVE started'[q][c.stamp[q]] # 0
      OBVIOUS
    <3>2. c.stamp[q] \in PartnerDays
      BY <2>5, <3>1 DEF RunConfigs, PartnerDays
    <3>3. CASE started[q][c.stamp[q]] # 0
      BY <2>3, <2>4, <3>2, <3>3
    <3>4. CASE started[q][c.stamp[q]] = 0
      <4>1. q = o /\ tickTime[h].day = c.stamp[q]
        BY <2>2, <2>5, <3>1, <3>4 DEF Honest
      <4>2. QED
        BY <2>3, <2>4, <3>2, <4>1
    <3>5. QED
      BY <3>3, <3>4
  <2>6. runConfig \in RunConfigs /\ \A w \in Writers : editBase[w] \in RunConfigs
    BY <1>1 DEF RestTypes
  <2>7. Honest(runConfig) /\ \A w \in Writers : Honest(editBase[w])
    BY <1>1 DEF HonestInv
  <2>8. QED
    BY <2>1, <2>5, <2>6, <2>7 DEF HonestInv, Honest
<1>19. ASSUME NEW h \in Hosts, HostDies(h) PROVE HonestInv'
  BY <1>19 DEF HostDies, HonestInv, Honest
<1>20. ASSUME NEW w \in Operators, PutReads(w) PROVE HonestInv'
  <2>1. \A v \in Writers : editBase'[v] \in {editBase[v], runConfig, AllOff}
    BY <1>1, <1>20 DEF PutReads, RestTypes
  <2>2. QED
    BY <1>4, <1>8, <1>20, <2>1 DEF PutReads, partnerHistory
<1>21. ASSUME NEW w \in Operators, PutWrites(w) PROVE HonestInv'
  <2>1. PICK o \in Objectives : WriteConfig(w, [editBase[w] EXCEPT !.on[o] = ~@])
    BY <1>21 DEF PutWrites
  <2>2. w \in Writers /\ Honest(editBase[w]) /\ editBase[w] \in RunConfigs
    BY <1>1 DEF HonestInv, Writers, RestTypes
  <2>3. \A q \in Objectives : runConfig'.stamp[q] = editBase[w].stamp[q]
    BY <2>1, <2>2 DEF WriteConfig, RunConfigs
  <2>4. StartsKept /\ UNCHANGED <<started, partnerDied>>
    BY <1>8, <1>21 DEF PutWrites
  <2>5. Honest(runConfig)'
    BY <1>3, <2>2, <2>3, <2>4 DEF Honest
  <2>6. QED
    BY <1>15, <2>1, <2>2, <2>4, <2>5
<1>22. ASSUME NEW b \in BatchIds, HandThread(b) \/ DiscoveryEnds(b) \/ ReportFails(b) PROVE HonestInv'
  BY <1>8, <1>9, <1>22 DEF HandThread, DiscoveryEnds, ReportFails, partnerHistory
<1>23. ASSUME NEW h \in Hosts, NEW b \in BatchIds, DiscoverByHand(h, b) PROVE HonestInv'
  BY <1>8, <1>9, <1>23 DEF DiscoverByHand, partnerHistory
<1>24. CASE HourPasses
  BY <1>8, <1>9, <1>24 DEF HourPasses, partnerHistory
<1>25. QED
  BY <1>10, <1>11, <1>12, <1>13, <1>14, <1>16, <1>17, <1>18, <1>19, <1>20, <1>21, <1>22, <1>23, <1>24 DEF PartnerNext

LEMMA PartnerStepInv == PartnerInv /\ [PartnerNext]_partnerVars => PartnerInv'
<1>1. SUFFICES ASSUME PartnerInv, [PartnerNext]_partnerVars PROVE PartnerInv'
  OBVIOUS
<1>2. CASE PartnerNext
  <2>1. PartnerTypeOK'
    BY <1>1, <1>2, TickStep, RestStep, SplitTypesNext DEF PartnerInv
  <2>2. QED
    BY <1>1, <1>2, <2>1, StampStep, HonestStep, BatchStep DEF PartnerInv
<1>3. CASE UNCHANGED partnerVars
  <2>1. PartnerTypeOK'
    BY <1>1, <1>3 DEF PartnerInv, PartnerTypeOK, partnerVars, partnerClock, tickState, partnerHistory
  <2>2. StampInv' /\ HonestInv' /\ BatchGetsResult'
    BY <1>1, <1>3 DEF PartnerInv, StampInv, Decided, Dated, ToCome, HostAt, HonestInv, Honest, BatchGetsResult,
                      partnerVars, partnerClock, tickState, partnerHistory
  <2>3. QED
    BY <2>1, <2>2 DEF PartnerInv
<1>4. QED
  BY <1>1, <1>2, <1>3

LEMMA PartnerInvGives == PartnerInv => PartnerRules
<1>1. SUFFICES ASSUME PartnerInv PROVE OncePerDay /\ StampMeansStarted
  BY DEF PartnerInv, PartnerRules
<1>2. OncePerDay
  <2>1. \A o \in Objectives, d \in PartnerDays : started[o][d] \in Nat
    BY <1>1 DEF PartnerInv, PartnerTypeOK
  <2>2. QED
    BY <1>1, <2>1 DEF PartnerInv, StampInv, Dated, OncePerDay
<1>3. StampMeansStarted
  BY <1>1 DEF PartnerInv, HonestInv, Honest, StampMeansStarted
<1>4. QED
  BY <1>2, <1>3

(* An objective of the partner's daily run is started once a day, however  *)
(* many hosts tick, unless a configuration was written over another's; a   *)
(* day that is stamped was started, or is about to be, or its host died;   *)
(* a batch is left in progress by a fault only.                            *)
THEOREM PartnerRulesHold == PartnerSpec => []PartnerRules
<1>1. PartnerInit => PartnerInv
  BY PartnerInitInv
<1>2. PartnerInv /\ [PartnerNext]_partnerVars => PartnerInv'
  BY PartnerStepInv
<1>3. PartnerInv => PartnerRules
  BY PartnerInvGives
<1>4. QED
  BY <1>1, <1>2, <1>3, PTL DEF PartnerSpec

-----------------------------------------------------------------------------
(* The recommendations.                                                    *)
Keys(p) == {i \in DOMAIN recs : recs[i].partner = p}

(* What a clerk holds.                                                     *)
ClerkRow ==
  [pc : {"off", "match", "propose", "draft", "write", "dm", "sent"}, scheduled : BOOLEAN, left : SUBSET Partners,
   looked : Nat, partner : Partners \cup {NoPartner}, picks : SUBSET (Prospects \cup Nat), letter : Nat]
ClerkOK(k) ==
  /\ clerk[k].pc \in {"match", "propose"} => clerk[k].looked <= Len(recs)
  /\ clerk[k].pc \in {"propose", "draft", "write"} => clerk[k].partner \in Partners
  /\ clerk[k].pc = "propose" => clerk[k].picks \subseteq Prospects
  /\ clerk[k].pc = "write" => clerk[k].looked <= Len(letters) /\ clerk[k].picks \subseteq Keys(clerk[k].partner)
  /\ clerk[k].pc \in {"dm", "sent"} => clerk[k].letter \in DOMAIN letters

(* A message names recommendations of its partner; a rejected one was      *)
(* refused.                                                                *)
LetterInv ==
  \A n \in DOMAIN letters :
    letters[n].names \subseteq Keys(letters[n].partner) /\ (letters[n].status = "rejected" => letters[n].refused)

(* A message under way names what an earlier one did only if that was      *)
(* refused, or came after the look at the messages.                        *)
WriteInv ==
  \A k \in Clerks : clerk[k].pc = "write" =>
    \A n \in DOMAIN letters : n <= clerk[k].looked /\ letters[n].names \cap clerk[k].picks # {} => letters[n].refused

(* What is approved is named, or in the hands of who drafts.               *)
ApprovedInv ==
  lostDrafts = 0 =>
    \A i \in DOMAIN recs : recs[i].status = "approved" =>
      \/ \E n \in DOMAIN letters : i \in letters[n].names
      \/ \E k \in Clerks : clerk[k].partner = recs[i].partner
                          /\ (clerk[k].pc = "draft" \/ (clerk[k].pc = "write" /\ i \in clerk[k].picks))

(* Of the partners a scheduled sweep has still to propose to, nothing that *)
(* was there as it began is pending, but what was set back.                *)
AheadOf(k, p) == p \in clerk[k].left \/ (clerk[k].pc = "propose" /\ p = clerk[k].partner)
SweepInv ==
  \A k \in Clerks : clerk[k].pc \in {"match", "propose"} /\ clerk[k].scheduled =>
    \A i \in DOMAIN recs :
      i <= clerk[k].looked /\ AheadOf(k, recs[i].partner) /\ recs[i].status = "proposed" => recs[i].back

(* Whatever came of the later of two proposals.                            *)
PendingInv ==
  \A i, j \in DOMAIN recs :
    i < j /\ recs[i].partner = recs[j].partner /\ recs[j].scheduled /\ recs[i].status = "proposed"
    => recs[i].back \/ recs[j].looked < i

ReferralInv ==
  /\ ReferralTypeOK /\ verdicts \in Nat /\ lostDrafts \in Nat /\ clerk \in [Clerks -> ClerkRow]
  /\ \A k \in Clerks : ClerkOK(k)
  /\ LetterInv /\ WriteInv /\ ApprovedInv /\ SweepInv /\ ToldOnce /\ PendingInv

LEMMA ReferralInitInv == ReferralInit => ReferralInv
<1>1. SUFFICES ASSUME ReferralInit PROVE ReferralInv
  OBVIOUS
<1>2. DOMAIN recs = {} /\ DOMAIN letters = {} /\ Len(recs) = 0 /\ Len(letters) = 0
  BY <1>1 DEF ReferralInit
<1>3. clerk \in [Clerks -> ClerkRow] /\ \A k \in Clerks : clerk[k].pc = "off"
  <2>1. Free \in ClerkRow /\ Free.pc = "off"
    BY DEF Free, ClerkRow
  <2>2. QED
    BY <1>1, <2>1 DEF ReferralInit
<1>4. \A k \in Clerks : ClerkOK(k)
  BY <1>3 DEF ClerkOK
<1>5. LetterInv /\ WriteInv /\ ApprovedInv /\ SweepInv /\ ToldOnce /\ PendingInv
  BY <1>2, <1>3 DEF LetterInv, WriteInv, ApprovedInv, SweepInv, ToldOnce, PendingInv
<1>6. recs \in Seq(PartnerCompanyRecommendation) /\ letters \in Seq(PartnerRecommendationMessage)
  BY <1>1 DEF ReferralInit
<1>7. QED
  BY <1>1, <1>2, <1>3, <1>4, <1>5, <1>6, ReferralAssumption DEF ReferralInit, ReferralTypeOK, ReferralInv

(* What every step leaves of the recommendations: the rows stay, in order, *)
(* each with its partner, and with its mark once it was set back.          *)
RecsKeep ==
  /\ recs' \in Seq(PartnerCompanyRecommendation) /\ Len(recs) <= Len(recs') /\ Len(recs') <= MaxRecs
  /\ \A i \in DOMAIN recs :
       /\ recs'[i].partner = recs[i].partner /\ recs'[i].looked = recs[i].looked /\ recs'[i].scheduled = recs[i].scheduled
       /\ recs[i].back => recs'[i].back
       /\ recs'[i].status = "proposed" => recs[i].status = "proposed" \/ recs'[i].back
(* And of the messages.                                                    *)
LettersKeep ==
  /\ letters' \in Seq(PartnerRecommendationMessage) /\ Len(letters) <= Len(letters') /\ Len(letters') <= MaxLetters
  /\ \A n \in DOMAIN letters :
       /\ letters'[n].partner = letters[n].partner /\ letters'[n].names = letters[n].names
       /\ letters'[n].looked = letters[n].looked /\ (letters[n].refused => letters'[n].refused)
       /\ letters'[n].status = "rejected" => letters[n].status = "rejected" \/ letters'[n].refused

(* The rows a sweep appends.                                               *)
LEMMA ProposedRows ==
  ASSUME ReferralInv, NEW k \in Clerks, Propose(k), UNCHANGED recs => FALSE
  PROVE  /\ RecsKeep
         /\ \A i \in DOMAIN recs : recs'[i] = recs[i]
         /\ \A i \in DOMAIN recs' \ DOMAIN recs :
              /\ recs'[i].partner = clerk[k].partner /\ recs'[i].status = "proposed"
              /\ recs'[i].scheduled = clerk[k].scheduled /\ recs'[i].looked = clerk[k].looked
<1> DEFINE p == clerk[k].partner
           picks == clerk[k].picks
           row(c) == [partner |-> p, company |-> c, status |-> "proposed", looked |-> clerk[k].looked,
                      scheduled |-> clerk[k].scheduled, back |-> FALSE]
<1>1. clerk[k].pc = "propose" /\ ClerkOK(k) /\ recs \in Seq(PartnerCompanyRecommendation) /\ clerk[k] \in ClerkRow
  BY DEF Propose, Stands, ReferralInv, ReferralTypeOK
<1>2. IsFiniteSet(picks) /\ Cardinality(picks) \in Nat
  BY <1>1, ReferralAssumption, FS_Subset, FS_CardinalityType DEF ClerkOK
<1>3. PICK order \in [1..Cardinality(picks) -> picks] : recs' = recs \o [n \in DOMAIN order |-> row(order[n])]
  BY DEF Propose
<1>4. Len(recs) + Cardinality(picks) <= MaxRecs
  BY DEF Propose
<1> DEFINE news == [n \in 1..Cardinality(picks) |-> row(order[n])]
<1>5. \A n \in 1..Cardinality(picks) : row(order[n]) \in PartnerCompanyRecommendation
  BY <1>1, <1>3 DEF ClerkOK, ClerkRow, PartnerCompanyRecommendation, Verdict
<1>6. recs' = recs \o news
  BY <1>3
<1>7. news \in Seq(PartnerCompanyRecommendation) /\ Len(news) = Cardinality(picks)
  BY <1>2, <1>5
<1>8. \A n \in 1..Cardinality(picks) : news[n].partner = p /\ news[n].status = "proposed" /\ news[n].scheduled = clerk[k].scheduled /\ news[n].looked = clerk[k].looked
  OBVIOUS
<1> HIDE DEF news, row
<1>9. recs' \in Seq(PartnerCompanyRecommendation) /\ Len(recs') = Len(recs) + Len(news) /\ DOMAIN recs' = 1..Len(recs')
      /\ DOMAIN recs = 1..Len(recs) /\ Len(recs) \in Nat /\ Len(news) \in Nat
  BY <1>1, <1>6, <1>7
<1>10. \A i \in 1..Len(recs) : recs'[i] = recs[i]
  BY <1>1, <1>6, <1>7
<1>11. \A i \in Len(recs) + 1..Len(recs') : recs'[i] = news[i - Len(recs)] /\ i - Len(recs) \in 1..Len(news)
  <2>1. SUFFICES ASSUME NEW i \in Len(recs) + 1..Len(recs') PROVE recs'[i] = news[i - Len(recs)] /\ i - Len(recs) \in 1..Len(news)
    OBVIOUS
  <2>2. i - Len(recs) \in 1..Len(news) /\ i \in 1..Len(recs) + Len(news) /\ ~(i <= Len(recs))
    BY <1>9
  <2>3. (recs \o news)[i] = news[i - Len(recs)]
    BY <1>1, <1>7, <1>9, <2>2
  <2>4. QED
    BY <1>6, <2>2, <2>3
<1>12. RecsKeep
  BY <1>2, <1>4, <1>7, <1>9, <1>10 DEF RecsKeep
<1>13. \A i \in DOMAIN recs' \ DOMAIN recs : i \in Len(recs) + 1..Len(recs')
  BY <1>9
<1>14. QED
  BY <1>7, <1>8, <1>9, <1>10, <1>11, <1>12, <1>13

LEMMA RowsStep ==
  ASSUME ReferralInv, ReferralNext
  PROVE  RecsKeep /\ LettersKeep
<1>1. /\ recs \in Seq(PartnerCompanyRecommendation) /\ Len(recs) <= MaxRecs
      /\ letters \in Seq(PartnerRecommendationMessage) /\ Len(letters) <= MaxLetters /\ \A k \in Clerks : ClerkOK(k)
  BY DEF ReferralInv, ReferralTypeOK
<1>2. Len(recs) \in Nat /\ Len(letters) \in Nat /\ DOMAIN recs = 1..Len(recs) /\ DOMAIN letters = 1..Len(letters)
      /\ (\A i \in DOMAIN recs : recs[i] \in PartnerCompanyRecommendation)
      /\ (\A n \in DOMAIN letters : letters[n] \in PartnerRecommendationMessage)
  BY <1>1
<1>3. UNCHANGED recs => RecsKeep
  BY <1>1, <1>2 DEF RecsKeep
<1>4. UNCHANGED letters => LettersKeep
  BY <1>1, <1>2 DEF LettersKeep
<1>5. ASSUME NEW r, recs' = [i \in DOMAIN recs |-> r[i]], \A i \in DOMAIN recs : r[i] \in PartnerCompanyRecommendation,
             \A i \in DOMAIN recs :
               /\ r[i].partner = recs[i].partner /\ r[i].looked = recs[i].looked /\ r[i].scheduled = recs[i].scheduled
               /\ recs[i].back => r[i].back
               /\ r[i].status = "proposed" => recs[i].status = "proposed" \/ r[i].back
      PROVE  RecsKeep
  <2>1. recs' \in Seq(PartnerCompanyRecommendation) /\ Len(recs') = Len(recs)
    BY <1>2, <1>5
  <2>2. QED
    BY <1>1, <1>2, <1>5, <2>1 DEF RecsKeep
<1>6. ASSUME NEW k \in Clerks, NEW p \in Partners, NEW replace \in BOOLEAN, AskMatch(k, p, replace) PROVE RecsKeep /\ LettersKeep
  <2> DEFINE r == [i \in DOMAIN recs |-> IF replace /\ i \in Pending(p) THEN [recs[i] EXCEPT !.status = "deleted"] ELSE recs[i]]
  <2>1. recs' = [i \in DOMAIN recs |-> r[i]]
    BY <1>6 DEF AskMatch
  <2>2. \A i \in DOMAIN recs : r[i] \in PartnerCompanyRecommendation
    BY <1>2 DEF PartnerCompanyRecommendation
  <2>3. \A i \in DOMAIN recs :
               /\ r[i].partner = recs[i].partner /\ r[i].looked = recs[i].looked /\ r[i].scheduled = recs[i].scheduled
               /\ recs[i].back => r[i].back
               /\ r[i].status = "proposed" => recs[i].status = "proposed" \/ r[i].back
    BY <1>2 DEF PartnerCompanyRecommendation
  <2> HIDE DEF r
  <2>4. RecsKeep
    BY <1>5, <2>1, <2>2, <2>3
  <2>5. QED
    BY <1>4, <1>6, <2>4 DEF AskMatch
<1>7. ASSUME NEW k \in Clerks, NEW i \in DOMAIN recs, NEW status \in Verdict, UpdateRecommendation(k, i, status)
      PROVE  RecsKeep /\ LettersKeep
  <2> DEFINE new == [recs[i] EXCEPT !.status = status, !.back = @ \/ (status = "proposed" /\ recs[i].status # "proposed")]
             r == [j \in DOMAIN recs |-> IF j = i THEN new ELSE recs[j]]
  <2>1. recs' = [j \in DOMAIN recs |-> r[j]]
    BY <1>2, <1>7 DEF UpdateRecommendation
  <2>2. new \in PartnerCompanyRecommendation
    BY <1>2 DEF PartnerCompanyRecommendation, Verdict
  <2>3. /\ new.partner = recs[i].partner /\ new.looked = recs[i].looked /\ new.scheduled = recs[i].scheduled
        /\ new.status = status
    BY <1>2 DEF PartnerCompanyRecommendation
  <2>4. new.back = (recs[i].back \/ (status = "proposed" /\ recs[i].status # "proposed"))
    BY <1>2 DEF PartnerCompanyRecommendation
  <2> HIDE DEF new
  <2>5. \A j \in DOMAIN recs : r[j] \in PartnerCompanyRecommendation
    BY <1>2, <2>2
  <2>6. \A j \in DOMAIN recs :
               /\ r[j].partner = recs[j].partner /\ r[j].looked = recs[j].looked /\ r[j].scheduled = recs[j].scheduled
               /\ recs[j].back => r[j].back
               /\ r[j].status = "proposed" => recs[j].status = "proposed" \/ r[j].back
    BY <2>3, <2>4
  <2>7. RecsKeep
    BY <1>5, <2>1, <2>5, <2>6
  <2>8. QED
    BY <1>4, <1>7, <2>7 DEF UpdateRecommendation
<1>8. ASSUME NEW k \in Clerks, Propose(k) PROVE RecsKeep /\ LettersKeep
  BY <1>3, <1>4, <1>8, ProposedRows DEF Propose
<1>9. ASSUME NEW n \in DOMAIN letters, NEW new \in PartnerRecommendationMessage, letters' = [letters EXCEPT ![n] = new],
             new.partner = letters[n].partner, new.names = letters[n].names, new.looked = letters[n].looked,
             letters[n].refused => new.refused, new.status = "rejected" => letters[n].status = "rejected" \/ new.refused
      PROVE  LettersKeep
  <2>1. letters' \in Seq(PartnerRecommendationMessage) /\ Len(letters') = Len(letters)
    BY <1>1, <1>2, <1>9
  <2>2. letters'[n] = new /\ \A m \in DOMAIN letters : m # n => letters'[m] = letters[m]
    BY <1>1, <1>2, <1>9
  <2>3. QED
    BY <1>1, <1>2, <1>9, <2>1, <2>2 DEF LettersKeep
<1>10. ASSUME NEW n \in DOMAIN letters, NEW status \in LetterStatus, UpdateLetter(n, status) PROVE LettersKeep
  <2> DEFINE new == [letters[n] EXCEPT !.status = status, !.refused = @ \/ status = "rejected"]
  <2>1. letters' = [letters EXCEPT ![n] = new]
    BY <1>1, <1>2, <1>10 DEF UpdateLetter
  <2>2. new \in PartnerRecommendationMessage
    BY <1>2 DEF PartnerRecommendationMessage, LetterStatus
  <2>3. new.partner = letters[n].partner /\ new.names = letters[n].names /\ new.looked = letters[n].looked /\ new.status = status
    BY <1>2 DEF PartnerRecommendationMessage
  <2>4. new.refused = (letters[n].refused \/ status = "rejected")
    BY <1>2 DEF PartnerRecommendationMessage
  <2> HIDE DEF new
  <2>5. QED
    BY <1>9, <2>1, <2>2, <2>3, <2>4
<1>11. ASSUME NEW k \in Clerks, SendDm(k) PROVE LettersKeep
  <2> DEFINE n == clerk[k].letter
             new == [letters[n] EXCEPT !.dms = @ + 1]
  <2>1. n \in DOMAIN letters
    BY <1>1, <1>11 DEF SendDm, Stands, ClerkOK
  <2>2. CASE letters[n].text /\ letters[n].dms < 2
    <3>1. letters' = [letters EXCEPT ![n] = new]
      BY <1>1, <1>2, <1>11, <2>1, <2>2 DEF SendDm
    <3>2. new \in PartnerRecommendationMessage
      BY <1>2, <2>1, <2>2 DEF PartnerRecommendationMessage
    <3>3. new.partner = letters[n].partner /\ new.names = letters[n].names /\ new.looked = letters[n].looked
          /\ new.status = letters[n].status /\ new.refused = letters[n].refused
      BY <1>2, <2>1 DEF PartnerRecommendationMessage
    <3> HIDE DEF new
    <3>4. QED
      BY <1>9, <2>1, <3>1, <3>2, <3>3
  <2>3. CASE ~(letters[n].text /\ letters[n].dms < 2)
    BY <1>4, <1>11, <2>3 DEF SendDm
  <2>4. QED
    BY <2>2, <2>3
<1>12. ASSUME NEW k \in Clerks, StoreSent(k) PROVE LettersKeep
  <2> DEFINE n == clerk[k].letter
             new == [letters[n] EXCEPT !.status = "sent"]
  <2>1. n \in DOMAIN letters
    BY <1>1, <1>12 DEF StoreSent, Stands, ClerkOK
  <2>2. letters' = [letters EXCEPT ![n] = new]
    BY <1>1, <1>2, <1>12, <2>1 DEF StoreSent
  <2>3. new \in PartnerRecommendationMessage
    BY <1>2, <2>1 DEF PartnerRecommendationMessage, LetterStatus
  <2>4. new.partner = letters[n].partner /\ new.names = letters[n].names /\ new.looked = letters[n].looked
        /\ new.status = "sent" /\ new.refused = letters[n].refused
    BY <1>2, <2>1 DEF PartnerRecommendationMessage
  <2> HIDE DEF new
  <2>5. QED
    BY <1>9, <2>1, <2>2, <2>3, <2>4
<1>13. ASSUME NEW k \in Clerks, NEW text \in BOOLEAN, WriteLetter(k, text) PROVE LettersKeep
  <2> DEFINE new == [partner |-> clerk[k].partner, names |-> clerk[k].picks, text |-> text,
                     status |-> IF text THEN "draft" ELSE "rejected", looked |-> clerk[k].looked, refused |-> ~text, dms |-> 0]
  <2>1. ClerkOK(k) /\ clerk[k].pc = "write" /\ Len(letters) < MaxLetters /\ letters' = Append(letters, new) /\ clerk[k] \in ClerkRow
    BY <1>1, <1>13 DEF WriteLetter, Stands, ReferralInv
  <2>2. clerk[k].picks \subseteq 1..MaxRecs
    BY <1>1, <1>2, <2>1, ReferralAssumption DEF ClerkOK, Keys
  <2>3. new \in PartnerRecommendationMessage
    BY <2>1, <2>2 DEF ClerkOK, ClerkRow, PartnerRecommendationMessage, LetterStatus
  <2> HIDE DEF new
  <2>4. letters' \in Seq(PartnerRecommendationMessage) /\ Len(letters') = Len(letters) + 1 /\ \A n \in DOMAIN letters : letters'[n] = letters[n]
    BY <1>1, <1>2, <2>1, <2>3
  <2>5. QED
    BY <1>1, <1>2, <2>1, <2>4, ReferralAssumption DEF LettersKeep
<1>14. ASSUME NEW k \in Clerks, StartMatch(k) \/ MatchCompanies(k) PROVE RecsKeep /\ LettersKeep
  BY <1>3, <1>4, <1>14 DEF StartMatch, MatchCompanies
<1>15. ASSUME NEW p \in Partners, Classify(p) PROVE RecsKeep /\ LettersKeep
  BY <1>3, <1>4, <1>15 DEF Classify
<1>16. ASSUME NEW k \in Clerks, NEW p \in Partners, AskLetter(k, p) PROVE RecsKeep /\ LettersKeep
  BY <1>3, <1>4, <1>16 DEF AskLetter
<1>17. ASSUME NEW k \in Clerks, LookApproved(k) \/ LoseDraft(k) PROVE RecsKeep /\ LettersKeep
  BY <1>3, <1>4, <1>17 DEF LookApproved, LoseDraft
<1>18. ASSUME NEW k \in Clerks, NEW text \in BOOLEAN, WriteLetter(k, text) PROVE RecsKeep
  BY <1>3, <1>18 DEF WriteLetter
<1>19. ASSUME NEW n \in DOMAIN letters, NEW status \in LetterStatus, UpdateLetter(n, status) PROVE RecsKeep
  BY <1>3, <1>19 DEF UpdateLetter
<1>20. ASSUME NEW k \in Clerks, SendDm(k) \/ StoreSent(k) PROVE RecsKeep
  BY <1>3, <1>20 DEF SendDm, StoreSent
<1>21. ASSUME NEW k \in Clerks, NEW n \in DOMAIN letters, MarkSent(k, n) PROVE RecsKeep /\ LettersKeep
  BY <1>3, <1>4, <1>21 DEF MarkSent
<1>22. CASE MatchStep
  BY <1>6, <1>8, <1>14, <1>22 DEF MatchStep
<1>23. CASE RecommendStep
  BY <1>7, <1>13, <1>15, <1>16, <1>17, <1>18, <1>23 DEF RecommendStep
<1>24. CASE LetterStep
  BY <1>10, <1>11, <1>12, <1>19, <1>20, <1>21, <1>24 DEF LetterStep
<1>25. QED
  BY <1>22, <1>23, <1>24 DEF ReferralNext

LEMMA ClerkKept ==
  ASSUME ReferralInv, RecsKeep, LettersKeep, NEW k \in Clerks, clerk'[k] = clerk[k]
  PROVE  ClerkOK(k)'
<1>1. ClerkOK(k) /\ Len(recs) \in Nat /\ Len(letters) \in Nat /\ DOMAIN letters = 1..Len(letters) /\ DOMAIN recs = 1..Len(recs)
      /\ clerk[k].looked \in Nat
  BY DEF ReferralInv, ReferralTypeOK, ClerkRow
<1>2. Len(recs') \in Nat /\ Len(letters') \in Nat /\ DOMAIN letters' = 1..Len(letters') /\ DOMAIN recs' = 1..Len(recs')
  BY DEF RecsKeep, LettersKeep
<1>3. DOMAIN letters \subseteq DOMAIN letters' /\ DOMAIN recs \subseteq DOMAIN recs'
  BY <1>1, <1>2 DEF RecsKeep, LettersKeep
<1>4. \A p : Keys(p) \subseteq Keys(p)'
  BY <1>3 DEF Keys, RecsKeep
<1>5. /\ clerk[k].looked <= Len(recs) => clerk[k].looked <= Len(recs')
      /\ clerk[k].looked <= Len(letters) => clerk[k].looked <= Len(letters')
  BY <1>1, <1>2 DEF RecsKeep, LettersKeep
<1>6. QED
  BY <1>1, <1>3, <1>4, <1>5 DEF ClerkOK

(* Where each step leaves a clerk that it moves.                           *)
Moved(k, c) == clerk' = [clerk EXCEPT ![k] = c]
LEMMA ClerkMoves ==
  ASSUME ReferralInv, NEW k \in Clerks, NEW c, Moved(k, c)
  PROVE  clerk'[k] = c /\ (c \in ClerkRow => clerk' \in [Clerks -> ClerkRow]) /\ \A j \in Clerks : j # k => clerk'[j] = clerk[j]
BY DEF ReferralInv, Moved

LEMMA ClerkStep ==
  ASSUME ReferralInv, ReferralNext
  PROVE  clerk' \in [Clerks -> ClerkRow] /\ \A k \in Clerks : ClerkOK(k)'
<1>1. RecsKeep /\ LettersKeep /\ clerk \in [Clerks -> ClerkRow] /\ (\A k \in Clerks : ClerkOK(k))
      /\ Len(recs) \in Nat /\ Len(letters) \in Nat /\ DOMAIN letters = 1..Len(letters) /\ DOMAIN recs = 1..Len(recs)
      /\ classified \subseteq Partners
  BY RowsStep DEF ReferralInv, ReferralTypeOK
<1>2. Len(recs') \in Nat /\ Len(letters') \in Nat /\ DOMAIN letters \subseteq DOMAIN letters' /\ Len(recs) <= Len(recs')
  BY <1>1 DEF RecsKeep, LettersKeep
<1> DEFINE Fine == clerk' \in [Clerks -> ClerkRow] /\ \A j \in Clerks : ClerkOK(j)'
<1>3. \A j \in Clerks : clerk'[j] = clerk[j] => ClerkOK(j)'
  BY <1>1, ClerkKept
<1>4. UNCHANGED clerk => Fine
  BY <1>1, <1>3
<1>5. ASSUME NEW k \in Clerks, NEW c \in ClerkRow, Moved(k, c), clerk'[k] = c => ClerkOK(k)'
      PROVE  Fine
  BY <1>3, <1>5, ClerkMoves
<1>6. Free \in ClerkRow /\ Free.pc = "off"
  BY DEF Free, ClerkRow
<1>7. ASSUME NEW k \in Clerks, Leave(k) PROVE Fine
  <2>1. Moved(k, Free) /\ (clerk'[k] = Free => ClerkOK(k)')
    BY <1>6, <1>7 DEF Leave, Moved, ClerkOK
  <2>2. QED
    BY <1>5, <1>6, <2>1
<1>8. ASSUME NEW k \in Clerks, StartMatch(k) PROVE Fine
  <2> DEFINE due == {p \in classified : DueForMatch(p)}
             c == [Free EXCEPT !.pc = "match", !.scheduled = TRUE, !.left = due, !.looked = Len(recs)]
  <2>1. c \in ClerkRow /\ c.pc = "match" /\ c.looked = Len(recs)
    BY <1>1 DEF Free, ClerkRow
  <2>2. Moved(k, c)
    BY <1>8 DEF StartMatch, Moved
  <2> HIDE DEF c
  <2>3. clerk'[k] = c => ClerkOK(k)'
    BY <1>1, <1>2, <2>1 DEF ClerkOK
  <2>4. QED
    BY <1>5, <2>1, <2>2, <2>3
<1>9. ASSUME NEW k \in Clerks, NEW p \in Partners, NEW replace \in BOOLEAN, AskMatch(k, p, replace) PROVE Fine
  <2> DEFINE c == [Free EXCEPT !.pc = "match", !.left = {p}, !.looked = Len(recs)]
  <2>1. c \in ClerkRow /\ c.pc = "match" /\ c.looked = Len(recs)
    BY <1>1 DEF Free, ClerkRow
  <2>2. Len(recs') = Len(recs)
    BY <1>1, <1>9 DEF AskMatch
  <2>3. UNCHANGED clerk \/ Moved(k, c)
    BY <1>9 DEF AskMatch, Moved
  <2> HIDE DEF c
  <2>4. clerk'[k] = c => ClerkOK(k)'
    BY <1>1, <1>2, <2>1 DEF ClerkOK
  <2>5. QED
    BY <1>4, <1>5, <2>1, <2>3, <2>4
<1>10. ASSUME NEW k \in Clerks, MatchCompanies(k) PROVE Fine
  <2>1. clerk[k].pc = "match" /\ ClerkOK(k) /\ clerk[k] \in ClerkRow
    BY <1>1, <1>10 DEF MatchCompanies, Stands
  <2>2. CASE Leave(k)
    BY <1>7, <2>2
  <2>3. CASE ~Leave(k)
    <3>1. PICK p \in clerk[k].left, chosen \in SUBSET Prospects :
            clerk' = [clerk EXCEPT ![k].left = @ \ {p}, ![k].partner = p, ![k].pc = "propose",
                                   ![k].picks = chosen \ {recs[i].company : i \in Of(p)}]
      BY <1>10, <2>3 DEF MatchCompanies
    <3> DEFINE new == chosen \ {recs[i].company : i \in Of(p)}
               c == [clerk[k] EXCEPT !.left = @ \ {p}, !.partner = p, !.pc = "propose", !.picks = new]
    <3>2. Moved(k, c)
      BY <1>1, <3>1 DEF Moved
    <3>3. new \subseteq Prospects
      OBVIOUS
    <3> HIDE DEF new
    <3>4. c \in ClerkRow /\ c.pc = "propose" /\ c.partner = p /\ c.picks = new /\ c.looked = clerk[k].looked
      BY <2>1, <3>3 DEF ClerkRow
    <3> HIDE DEF c
    <3>5. clerk'[k] = c => ClerkOK(k)'
      BY <1>1, <1>2, <2>1, <3>3, <3>4 DEF ClerkOK, ClerkRow
    <3>6. QED
      BY <1>5, <3>2, <3>4, <3>5
  <2>4. QED
    BY <2>2, <2>3
<1>11. ASSUME NEW k \in Clerks, Propose(k) PROVE Fine
  <2>1. clerk[k].pc = "propose" /\ ClerkOK(k) /\ clerk[k] \in ClerkRow
    BY <1>1, <1>11 DEF Propose, Stands
  <2> DEFINE c == [clerk[k] EXCEPT !.pc = "match", !.partner = NoPartner, !.picks = {}]
  <2>2. c \in ClerkRow /\ c.pc = "match" /\ c.looked = clerk[k].looked
    BY <2>1 DEF ClerkRow
  <2>3. Leave(k) \/ Moved(k, c)
    BY <1>1, <1>11 DEF Propose, Moved
  <2> HIDE DEF c
  <2>4. clerk'[k] = c => ClerkOK(k)'
    BY <1>1, <1>2, <2>1, <2>2 DEF ClerkOK, ClerkRow
  <2>5. QED
    BY <1>5, <1>7, <2>2, <2>3, <2>4
<1>12. ASSUME NEW k \in Clerks, NEW p \in Partners, Moved(k, [Free EXCEPT !.pc = "draft", !.partner = p]) PROVE Fine
  <2> DEFINE c == [Free EXCEPT !.pc = "draft", !.partner = p]
  <2>1. c \in ClerkRow /\ c.pc = "draft" /\ c.partner = p
    BY DEF Free, ClerkRow
  <2>2. Moved(k, c)
    BY <1>12
  <2> HIDE DEF c
  <2>3. clerk'[k] = c => ClerkOK(k)'
    BY <2>1 DEF ClerkOK
  <2>4. QED
    BY <1>5, <2>1, <2>2, <2>3
<1>13. ASSUME NEW k \in Clerks, NEW i \in DOMAIN recs, NEW status \in Verdict, UpdateRecommendation(k, i, status) PROVE Fine
  <2>1. recs[i].partner \in Partners
    <3>1. recs \in Seq(PartnerCompanyRecommendation)
      BY DEF ReferralInv, ReferralTypeOK
    <3>2. recs[i] \in PartnerCompanyRecommendation
      BY <1>1, <3>1
    <3>3. QED
      BY <3>2 DEF PartnerCompanyRecommendation
  <2>2. QED
    BY <1>4, <1>12, <1>13, <2>1 DEF UpdateRecommendation, Moved
<1>14. ASSUME NEW k \in Clerks, NEW p \in Partners, AskLetter(k, p) PROVE Fine
  BY <1>12, <1>14 DEF AskLetter, Moved
<1>15. ASSUME NEW k \in Clerks, LookApproved(k) PROVE Fine
  <2>1. clerk[k].pc = "draft" /\ ClerkOK(k) /\ clerk[k] \in ClerkRow
    BY <1>1, <1>15 DEF LookApproved, Stands
  <2> DEFINE p == clerk[k].partner
             fresh == {i \in Of(p) : recs[i].status = "approved"} \ Covered(p)
             c == [clerk[k] EXCEPT !.pc = "write", !.picks = fresh, !.looked = Len(letters)]
  <2>2. Leave(k) \/ Moved(k, c)
    BY <1>1, <1>15 DEF LookApproved, Leave, Moved
  <2>3. fresh \subseteq Keys(p) /\ fresh \subseteq Nat
    BY <1>1 DEF Of, Keys
  <2>4. recs' = recs
    BY <1>15 DEF LookApproved
  <2> HIDE DEF fresh
  <2>5. c \in ClerkRow /\ c.pc = "write" /\ c.picks = fresh /\ c.looked = Len(letters) /\ c.partner = p
    BY <1>1, <2>1, <2>3 DEF ClerkRow
  <2> HIDE DEF c
  <2>6. clerk'[k] = c => ClerkOK(k)'
    <3>1. Len(letters) <= Len(letters') /\ p \in Partners
      BY <1>1, <2>1 DEF LettersKeep, ClerkOK
    <3>2. fresh \subseteq {i \in DOMAIN recs' : recs'[i].partner = p}
      BY <2>3, <2>4 DEF Keys
    <3>3. QED
      BY <2>5, <3>1, <3>2 DEF ClerkOK, Keys
  <2>7. QED
    BY <1>5, <1>7, <2>2, <2>5, <2>6
<1>16. ASSUME NEW k \in Clerks, NEW n \in DOMAIN letters, MarkSent(k, n) PROVE Fine
  <2> DEFINE c == [Free EXCEPT !.pc = "dm", !.letter = n]
  <2>1. c \in ClerkRow /\ c.pc = "dm" /\ c.letter = n
    <3>1. n \in Nat
      BY <1>1
    <3>2. QED
      BY <3>1 DEF Free, ClerkRow
  <2>2. Moved(k, c)
    BY <1>16 DEF MarkSent, Moved
  <2> HIDE DEF c
  <2>3. clerk'[k] = c => ClerkOK(k)'
    BY <1>2, <2>1 DEF ClerkOK
  <2>4. QED
    BY <1>5, <2>1, <2>2, <2>3
<1>17. ASSUME NEW k \in Clerks, SendDm(k) PROVE Fine
  <2>1. clerk[k].pc = "dm" /\ ClerkOK(k) /\ clerk[k] \in ClerkRow
    BY <1>1, <1>17 DEF SendDm, Stands
  <2> DEFINE c == [clerk[k] EXCEPT !.pc = "sent"]
  <2>2. c \in ClerkRow /\ c.pc = "sent" /\ c.letter = clerk[k].letter
    BY <2>1 DEF ClerkRow
  <2>3. Moved(k, c)
    BY <1>1, <1>17 DEF SendDm, Moved
  <2> HIDE DEF c
  <2>4. clerk'[k] = c => ClerkOK(k)'
    BY <1>2, <2>1, <2>2 DEF ClerkOK
  <2>5. QED
    BY <1>5, <2>2, <2>3, <2>4
<1>18. ASSUME NEW k \in Clerks, (\E text \in BOOLEAN : WriteLetter(k, text)) \/ LoseDraft(k) \/ StoreSent(k) PROVE Fine
  BY <1>7, <1>18 DEF WriteLetter, LoseDraft, StoreSent
<1>19. ASSUME UNCHANGED clerk PROVE Fine
  BY <1>4, <1>19
<1>20. CASE MatchStep
  BY <1>8, <1>9, <1>10, <1>11, <1>20 DEF MatchStep
<1>21. CASE RecommendStep
  <2>1. ASSUME NEW p \in Partners, Classify(p) PROVE Fine
    BY <1>4, <2>1 DEF Classify
  <2>2. QED
    BY <1>13, <1>14, <1>15, <1>18, <1>21, <2>1 DEF RecommendStep
<1>22. CASE LetterStep
  <2>1. ASSUME NEW n \in DOMAIN letters, NEW status \in LetterStatus, UpdateLetter(n, status) PROVE Fine
    BY <1>4, <2>1 DEF UpdateLetter
  <2>2. QED
    BY <1>16, <1>17, <1>18, <1>22, <2>1 DEF LetterStep
<1>23. QED
  BY <1>20, <1>21, <1>22 DEF ReferralNext

(* How a clerk comes to hold what it holds, and how a draft leaves it.     *)
LEMMA ClerkFrom ==
  ASSUME ReferralInv, ReferralNext, NEW k \in Clerks
  PROVE  /\ \/ clerk'[k] = clerk[k] \/ clerk'[k].pc \in {"off", "draft", "dm", "sent"}
            \/ StartMatch(k) \/ MatchCompanies(k) \/ Propose(k) \/ LookApproved(k)
            \/ clerk'[k].pc = "match" /\ ~clerk'[k].scheduled
         /\ clerk[k].pc \in {"draft", "write"} =>
              \/ clerk'[k] = clerk[k] \/ LookApproved(k) \/ LoseDraft(k)
              \/ \E text \in BOOLEAN : WriteLetter(k, text)
<1> DEFINE
  Explained ==
    /\ \/ clerk'[k] = clerk[k] \/ clerk'[k].pc \in {"off", "draft", "dm", "sent"}
       \/ StartMatch(k) \/ MatchCompanies(k) \/ Propose(k) \/ LookApproved(k)
       \/ clerk'[k].pc = "match" /\ ~clerk'[k].scheduled
    /\ clerk[k].pc \in {"draft", "write"} =>
         \/ clerk'[k] = clerk[k] \/ LookApproved(k) \/ LoseDraft(k)
         \/ \E text \in BOOLEAN : WriteLetter(k, text)
<1>1. clerk \in [Clerks -> ClerkRow] /\ DOMAIN clerk = Clerks
  BY DEF ReferralInv
<1>2. Free.pc = "off" /\ \A x : [Free EXCEPT !.pc = "draft", !.partner = x].pc = "draft" /\ [Free EXCEPT !.pc = "dm", !.letter = x].pc = "dm"
  BY DEF Free
<1>3. UNCHANGED clerk => Explained
  OBVIOUS
<1>4. ASSUME NEW j \in Clerks, Leave(j), clerk[j].pc \notin {"draft", "write"} PROVE Explained
  BY <1>1, <1>2, <1>4 DEF Leave
<1>5. ASSUME NEW j \in Clerks, StartMatch(j) PROVE Explained
  BY <1>1, <1>5 DEF StartMatch, Stands
<1>6. ASSUME NEW j \in Clerks, NEW p \in Partners, NEW replace \in BOOLEAN, AskMatch(j, p, replace) PROVE Explained
  <2> DEFINE c == [Free EXCEPT !.pc = "match", !.left = {p}, !.looked = Len(recs)]
  <2>1. c.pc = "match" /\ ~c.scheduled
    BY DEF Free
  <2>2. UNCHANGED clerk \/ clerk' = [clerk EXCEPT ![j] = c]
    BY <1>6 DEF AskMatch
  <2> HIDE DEF c
  <2>3. clerk[j].pc = "off"
    BY <1>6 DEF AskMatch, Stands
  <2>4. QED
    BY <1>1, <1>3, <2>1, <2>2, <2>3
<1>7. ASSUME NEW j \in Clerks, MatchCompanies(j) PROVE Explained
  <2>1. j = k \/ clerk'[k] = clerk[k]
    BY <1>1, <1>7 DEF MatchCompanies, Leave
  <2>2. QED
    BY <1>7, <2>1 DEF MatchCompanies, Stands
<1>8. ASSUME NEW j \in Clerks, Propose(j) PROVE Explained
  <2>1. clerk[j].pc = "propose" /\ (j = k \/ clerk'[k] = clerk[k])
    BY <1>1, <1>8 DEF Propose, Stands, Leave
  <2>2. QED
    BY <1>8, <2>1
<1>9. ASSUME NEW j \in Clerks, NEW x, clerk[j].pc = "off",
             clerk' \in {[clerk EXCEPT ![j] = [Free EXCEPT !.pc = "draft", !.partner = x]], [clerk EXCEPT ![j] = [Free EXCEPT !.pc = "dm", !.letter = x]], clerk}
      PROVE  Explained
  <2> DEFINE a == [Free EXCEPT !.pc = "draft", !.partner = x]
             b == [Free EXCEPT !.pc = "dm", !.letter = x]
  <2>1. clerk' = [clerk EXCEPT ![j] = a] \/ clerk' = [clerk EXCEPT ![j] = b] \/ UNCHANGED clerk
    BY <1>9
  <2>2. a.pc = "draft" /\ b.pc = "dm"
    BY <1>2
  <2> HIDE DEF a, b
  <2>3. QED
    BY <1>1, <1>9, <2>1, <2>2
<1>10. ASSUME NEW j \in Clerks, NEW i \in DOMAIN recs, NEW status \in Verdict, UpdateRecommendation(j, i, status) PROVE Explained
  BY <1>9, <1>10 DEF UpdateRecommendation, Stands
<1>11. ASSUME NEW j \in Clerks, NEW p \in Partners, AskLetter(j, p) PROVE Explained
  BY <1>9, <1>11 DEF AskLetter, Stands
<1>12. ASSUME NEW j \in Clerks, LookApproved(j) PROVE Explained
  <2>1. j = k \/ clerk'[k] = clerk[k]
    BY <1>1, <1>12 DEF LookApproved
  <2>2. QED
    BY <1>12, <2>1
<1>13. ASSUME NEW j \in Clerks, (\E text \in BOOLEAN : WriteLetter(j, text)) \/ LoseDraft(j) PROVE Explained
  <2>1. clerk'[k] = clerk[k] \/ (j = k /\ clerk'[k].pc = "off")
    BY <1>1, <1>2, <1>13 DEF WriteLetter, LoseDraft, Leave
  <2>2. QED
    BY <1>13, <2>1
<1>14. ASSUME NEW j \in Clerks, NEW n \in DOMAIN letters, MarkSent(j, n) PROVE Explained
  BY <1>9, <1>14 DEF MarkSent, Stands
<1>15. ASSUME NEW j \in Clerks, SendDm(j) PROVE Explained
  <2>1. clerk[j] \in ClerkRow /\ clerk[j].pc = "dm"
    BY <1>1, <1>15 DEF SendDm, Stands
  <2>2. clerk'[j].pc = "sent" /\ \A i \in Clerks : i # j => clerk'[i] = clerk[i]
    BY <1>1, <1>15, <2>1 DEF SendDm, ClerkRow
  <2>3. QED
    BY <2>1, <2>2
<1>16. ASSUME NEW j \in Clerks, StoreSent(j) PROVE Explained
  BY <1>4, <1>16 DEF StoreSent, Stands
<1>17. ASSUME (\E p \in Partners : Classify(p)) \/ \E n \in DOMAIN letters, status \in LetterStatus : UpdateLetter(n, status) PROVE Explained
  BY <1>3, <1>17 DEF Classify, UpdateLetter
<1>18. CASE MatchStep
  BY <1>5, <1>6, <1>7, <1>8, <1>18 DEF MatchStep
<1>19. CASE RecommendStep
  BY <1>10, <1>11, <1>12, <1>13, <1>17, <1>19 DEF RecommendStep
<1>20. CASE LetterStep
  BY <1>14, <1>15, <1>16, <1>17, <1>20 DEF LetterStep
<1>21. Explained
  BY <1>18, <1>19, <1>20 DEF ReferralNext
<1>22. QED
  BY <1>21

(* A message is written by one step, at the end of the messages.           *)
LEMMA NewLetter ==
  ASSUME ReferralInv, ReferralNext
  PROVE  \/ DOMAIN letters' = DOMAIN letters
         \/ \E k \in Clerks, text \in BOOLEAN :
              /\ WriteLetter(k, text) /\ DOMAIN letters' = DOMAIN letters \cup {Len(letters) + 1}
              /\ LET new == letters'[Len(letters) + 1] IN
                   /\ new.partner = clerk[k].partner /\ new.names = clerk[k].picks /\ new.looked = clerk[k].looked
                   /\ new.status = "rejected" => new.refused
<1>1. letters \in Seq(PartnerRecommendationMessage) /\ DOMAIN letters = 1..Len(letters) /\ Len(letters) \in Nat
  BY DEF ReferralInv, ReferralTypeOK
<1>2. ASSUME NEW k \in Clerks, NEW text \in BOOLEAN, WriteLetter(k, text)
      PROVE  /\ DOMAIN letters' = DOMAIN letters \cup {Len(letters) + 1}
             /\ LET new == letters'[Len(letters) + 1] IN
                   /\ new.partner = clerk[k].partner /\ new.names = clerk[k].picks /\ new.looked = clerk[k].looked
                   /\ new.status = "rejected" => new.refused
  <2> DEFINE new == [partner |-> clerk[k].partner, names |-> clerk[k].picks, text |-> text,
                     status |-> IF text THEN "draft" ELSE "rejected", looked |-> clerk[k].looked, refused |-> ~text, dms |-> 0]
  <2>1. letters' = Append(letters, new)
    BY <1>2 DEF WriteLetter
  <2>2. new.partner = clerk[k].partner /\ new.names = clerk[k].picks /\ new.looked = clerk[k].looked /\ (new.status = "rejected" => new.refused)
    BY <1>2
  <2> HIDE DEF new
  <2>3. letters'[Len(letters) + 1] = new /\ DOMAIN letters' = 1..Len(letters) + 1
    BY <1>1, <2>1
  <2>4. QED
    BY <1>1, <2>2, <2>3
<1>3. ASSUME NEW m, NEW x, letters' = [letters EXCEPT ![m] = x] PROVE DOMAIN letters' = DOMAIN letters
  BY <1>3
<1>4. CASE MatchStep
  BY <1>4 DEF MatchStep, StartMatch, MatchCompanies, Propose, AskMatch
<1>5. CASE LetterStep
  BY <1>1, <1>5 DEF LetterStep, UpdateLetter, SendDm, StoreSent, MarkSent
<1>6. CASE RecommendStep
  BY <1>2, <1>6 DEF RecommendStep, Classify, UpdateRecommendation, AskLetter, LookApproved, LoseDraft
<1>7. QED
  BY <1>4, <1>5, <1>6 DEF ReferralNext

LEMMA LettersStep ==
  ASSUME ReferralInv, ReferralNext
  PROVE  LetterInv' /\ ToldOnce'
<1>1. RecsKeep /\ LettersKeep /\ LetterInv /\ WriteInv /\ ToldOnce /\ (\A k \in Clerks : ClerkOK(k))
      /\ DOMAIN letters = 1..Len(letters) /\ Len(letters) \in Nat /\ DOMAIN recs = 1..Len(recs) /\ Len(recs) \in Nat
      /\ \A k \in Clerks : clerk[k].looked \in Nat
  BY RowsStep DEF ReferralInv, ReferralTypeOK, ClerkRow
<1>2. \A p : Keys(p) \subseteq Keys(p)'
  BY <1>1 DEF Keys, RecsKeep
<1>3. \A n \in DOMAIN letters :
        letters'[n].names \subseteq Keys(letters[n].partner)' /\ (letters'[n].status = "rejected" => letters'[n].refused)
  BY <1>1, <1>2 DEF LetterInv, LettersKeep
<1>4. \A n, l \in DOMAIN letters :
        n < l /\ letters'[n].names \cap letters'[l].names # {} => letters'[l].looked < n \/ letters'[n].refused
  BY <1>1 DEF ToldOnce, LettersKeep
<1>5. CASE DOMAIN letters' = DOMAIN letters
  BY <1>1, <1>3, <1>4, <1>5 DEF LetterInv, ToldOnce, LettersKeep, Keys
<1>6. ASSUME NEW k \in Clerks, NEW text \in BOOLEAN, WriteLetter(k, text), DOMAIN letters' = DOMAIN letters \cup {Len(letters) + 1},
             letters'[Len(letters) + 1].partner = clerk[k].partner, letters'[Len(letters) + 1].names = clerk[k].picks,
             letters'[Len(letters) + 1].looked = clerk[k].looked,
             letters'[Len(letters) + 1].status = "rejected" => letters'[Len(letters) + 1].refused
      PROVE  LetterInv' /\ ToldOnce'
  <2> DEFINE l == Len(letters) + 1
  <2>1. clerk[k].pc = "write" /\ clerk[k].looked <= Len(letters) /\ clerk[k].picks \subseteq Keys(clerk[k].partner)
    BY <1>1, <1>6 DEF WriteLetter, Stands, ClerkOK
  <2>2. letters'[l].names \subseteq Keys(clerk[k].partner) /\ letters'[l].partner = clerk[k].partner
    BY <1>6, <2>1
  <2>3. LetterInv'
    <3>1. ASSUME NEW n \in DOMAIN letters' PROVE letters'[n].names \subseteq {i \in DOMAIN recs' : recs'[i].partner = letters'[n].partner}
      <4>1. CASE n = l
        BY <1>1, <2>2, <4>1 DEF Keys, RecsKeep
      <4>2. CASE n \in DOMAIN letters
        BY <1>1, <4>2 DEF LetterInv, Keys, RecsKeep, LettersKeep
      <4>3. QED
        BY <1>6, <3>1, <4>1, <4>2
    <3>2. \A n \in DOMAIN letters' : letters'[n].status = "rejected" => letters'[n].refused
      BY <1>3, <1>6
    <3>3. QED
      BY <3>1, <3>2 DEF LetterInv, Keys
  <2>4. ASSUME NEW n \in DOMAIN letters, letters'[n].names \cap letters'[l].names # {} PROVE letters'[l].looked < n \/ letters'[n].refused
    <3>1. letters[n].names \cap clerk[k].picks # {}
      BY <1>1, <1>6, <2>4 DEF LettersKeep
    <3>2. CASE n <= clerk[k].looked
      BY <1>1, <2>1, <3>1, <3>2 DEF WriteInv, LettersKeep
    <3>3. CASE ~(n <= clerk[k].looked)
      BY <1>1, <1>6, <3>3
    <3>4. QED
      BY <3>2, <3>3
  <2>5. ToldOnce'
    <3>1. SUFFICES ASSUME NEW n \in DOMAIN letters', NEW m \in DOMAIN letters', n < m, letters'[n].names \cap letters'[m].names # {}
                   PROVE  letters'[m].looked < n \/ letters'[n].refused
      BY DEF ToldOnce
    <3>2. n \in DOMAIN letters
      BY <1>1, <1>6, <3>1
    <3>3. CASE m = l
      BY <2>4, <3>1, <3>2, <3>3
    <3>4. CASE m # l
      BY <1>4, <1>6, <3>1, <3>2, <3>4
    <3>5. QED
      BY <3>3, <3>4
  <2>6. QED
    BY <2>3, <2>5
<1>7. QED
  BY <1>5, <1>6, NewLetter

(* What the steps of a sweep leave in the clerk's hands.                   *)
LEMMA SweepMoves ==
  ASSUME ReferralInv, NEW k \in Clerks
  PROVE  /\ StartMatch(k) => /\ clerk'[k].pc = "match" /\ clerk'[k].looked = Len(recs)
                             /\ \A p \in clerk'[k].left : DueForMatch(p)
         /\ MatchCompanies(k) =>
              \/ clerk'[k].pc = "off"
              \/ /\ clerk'[k].pc = "propose" /\ clerk'[k].looked = clerk[k].looked /\ clerk'[k].scheduled = clerk[k].scheduled
                 /\ clerk'[k].partner \in clerk[k].left /\ clerk'[k].left \subseteq clerk[k].left
         /\ Propose(k) =>
              \/ clerk'[k].pc = "off"
              \/ /\ clerk'[k].pc = "match" /\ clerk'[k].looked = clerk[k].looked /\ clerk'[k].scheduled = clerk[k].scheduled
                 /\ clerk'[k].left = clerk[k].left
<1>1. clerk \in [Clerks -> ClerkRow] /\ clerk[k] \in ClerkRow /\ Free.pc = "off"
  BY DEF ReferralInv, Free
<1>2. ASSUME StartMatch(k)
      PROVE  /\ clerk'[k].pc = "match" /\ clerk'[k].looked = Len(recs)
             /\ \A p \in clerk'[k].left : DueForMatch(p)
  BY <1>1, <1>2 DEF StartMatch, Free
<1>3. ASSUME MatchCompanies(k), ~Leave(k)
      PROVE  /\ clerk'[k].pc = "propose" /\ clerk'[k].looked = clerk[k].looked /\ clerk'[k].scheduled = clerk[k].scheduled
             /\ clerk'[k].partner \in clerk[k].left /\ clerk'[k].left \subseteq clerk[k].left
  <2>1. PICK p \in clerk[k].left, chosen \in SUBSET Prospects :
            clerk' = [clerk EXCEPT ![k].left = @ \ {p}, ![k].partner = p, ![k].pc = "propose",
                                   ![k].picks = chosen \ {recs[i].company : i \in Of(p)}]
    BY <1>3 DEF MatchCompanies
  <2> DEFINE new == chosen \ {recs[i].company : i \in Of(p)}
             c == [clerk[k] EXCEPT !.left = @ \ {p}, !.partner = p, !.pc = "propose", !.picks = new]
  <2>2. clerk'[k] = c
    BY <1>1, <2>1
  <2> HIDE DEF new
  <2>3. c.pc = "propose" /\ c.partner = p /\ c.left = clerk[k].left \ {p} /\ c.looked = clerk[k].looked /\ c.scheduled = clerk[k].scheduled
    BY <1>1 DEF ClerkRow
  <2>4. QED
    BY <2>1, <2>2, <2>3
<1>4. ASSUME Propose(k), ~Leave(k)
      PROVE  /\ clerk'[k].pc = "match" /\ clerk'[k].looked = clerk[k].looked /\ clerk'[k].scheduled = clerk[k].scheduled
             /\ clerk'[k].left = clerk[k].left
  <2> DEFINE c == [clerk[k] EXCEPT !.pc = "match", !.partner = NoPartner, !.picks = {}]
  <2>1. clerk'[k] = c
    BY <1>1, <1>4 DEF Propose
  <2>2. c.pc = "match" /\ c.left = clerk[k].left /\ c.looked = clerk[k].looked /\ c.scheduled = clerk[k].scheduled
    BY <1>1 DEF ClerkRow
  <2>3. QED
    BY <2>1, <2>2
<1>5. Leave(k) => clerk'[k].pc = "off"
  BY <1>1 DEF Leave
<1>6. QED
  BY <1>2, <1>3, <1>4, <1>5

LEMMA WriteStep ==
  ASSUME ReferralInv, ReferralNext
  PROVE  WriteInv'
<1>1. RecsKeep /\ LettersKeep /\ LetterInv /\ WriteInv /\ (\A k \in Clerks : ClerkOK(k)) /\ clerk \in [Clerks -> ClerkRow]
      /\ DOMAIN letters = 1..Len(letters) /\ Len(letters) \in Nat /\ Len(recs) \in Nat
  BY RowsStep DEF ReferralInv, ReferralTypeOK
<1>2. SUFFICES ASSUME NEW k \in Clerks, clerk'[k].pc = "write", NEW n \in DOMAIN letters', n <= clerk'[k].looked,
                      letters'[n].names \cap clerk'[k].picks # {}
               PROVE  letters'[n].refused
  BY DEF WriteInv
<1>3. CASE clerk'[k] = clerk[k]
  <2>1. clerk[k].looked \in Nat /\ clerk[k].looked <= Len(letters) /\ clerk[k].pc = "write"
    BY <1>1, <1>2, <1>3 DEF ClerkOK, ClerkRow
  <2>2. n \in DOMAIN letters
    BY <1>1, <1>2, <1>3, <2>1 DEF LettersKeep
  <2>3. QED
    BY <1>1, <1>2, <1>3, <2>1, <2>2 DEF WriteInv, LettersKeep
<1>4. CASE LookApproved(k)
  <2> DEFINE p == clerk[k].partner
             fresh == {i \in Of(p) : recs[i].status = "approved"} \ Covered(p)
  <2>1. letters' = letters /\ clerk'[k] = IF fresh = {} THEN Free ELSE [clerk[k] EXCEPT !.pc = "write", !.picks = fresh, !.looked = Len(letters)]
    BY <1>1, <1>4 DEF LookApproved
  <2>2. Free.pc = "off"
    BY DEF Free
  <2>3. clerk'[k].picks = fresh
    BY <1>1, <1>2, <2>1, <2>2 DEF ClerkRow
  <2>4. PICK i \in letters[n].names : i \in fresh
    BY <1>2, <2>1, <2>3
  <2>5. recs[i].partner = p /\ i \notin Covered(p)
    BY <2>4 DEF Of
  <2>6. recs[i].partner = letters[n].partner
    BY <1>1, <1>2, <2>1, <2>4 DEF LetterInv, Keys
  <2>7. letters[n].status = "rejected"
    BY <1>2, <2>1, <2>4, <2>5, <2>6 DEF Covered
  <2>8. QED
    BY <1>1, <1>2, <2>1, <2>7 DEF LetterInv
<1>5. CASE ~LookApproved(k) /\ clerk'[k] # clerk[k]
  <2>1. StartMatch(k) \/ MatchCompanies(k) \/ Propose(k)
    BY <1>2, <1>5, ClerkFrom
  <2>2. clerk'[k].pc # "write"
    BY <2>1, SweepMoves
  <2>3. QED
    BY <1>2, <2>2
<1>6. QED
  BY <1>3, <1>4, <1>5

LEMMA ApprovedStep ==
  ASSUME ReferralInv, ReferralNext
  PROVE  ApprovedInv'
<1>1. /\ RecsKeep /\ LettersKeep /\ LetterInv /\ ApprovedInv /\ (\A k \in Clerks : ClerkOK(k)) /\ clerk \in [Clerks -> ClerkRow]
      /\ DOMAIN letters = 1..Len(letters) /\ Len(letters) \in Nat /\ DOMAIN recs = 1..Len(recs) /\ Len(recs) \in Nat /\ lostDrafts \in Nat
      /\ recs \in Seq(PartnerCompanyRecommendation)
  BY RowsStep DEF ReferralInv, ReferralTypeOK
<1>2. lostDrafts' = 0 => lostDrafts = 0 /\ \A k \in Clerks : clerk[k].pc \in {"draft", "write"} => ~LoseDraft(k)
  <2>1. lostDrafts' = lostDrafts \/ \E k \in Clerks : LoseDraft(k)
    BY DEF ReferralNext, MatchStep, RecommendStep, LetterStep, StartMatch, MatchCompanies, Propose, AskMatch, Classify, UpdateRecommendation,
           AskLetter, LookApproved, WriteLetter, UpdateLetter, MarkSent, SendDm, StoreSent
  <2>2. \A k \in Clerks : LoseDraft(k) => lostDrafts' = IF clerk[k].pc \in {"draft", "write"} THEN lostDrafts + 1 ELSE lostDrafts
    BY DEF LoseDraft
  <2>3. QED
    BY <1>1, <2>1, <2>2
<1>3. SUFFICES ASSUME lostDrafts' = 0, NEW i \in DOMAIN recs', recs'[i].status = "approved"
               PROVE  \/ \E n \in DOMAIN letters' : i \in letters'[n].names
                      \/ \E k \in Clerks : clerk'[k].partner = recs'[i].partner
                                          /\ (clerk'[k].pc = "draft" \/ (clerk'[k].pc = "write" /\ i \in clerk'[k].picks))
  BY DEF ApprovedInv
<1>4. \A n \in DOMAIN letters : n \in DOMAIN letters' /\ letters'[n].names = letters[n].names
  BY <1>1 DEF LettersKeep
<1>5. CASE i \in DOMAIN recs /\ recs[i].status = "approved"
  <2>1. recs'[i].partner = recs[i].partner
    BY <1>1, <1>5 DEF RecsKeep
  <2>2. CASE \E n \in DOMAIN letters : i \in letters[n].names
    BY <1>4, <2>2
  <2>3. ASSUME NEW k \in Clerks, clerk[k].partner = recs[i].partner, clerk[k].pc \in {"draft", "write"}, clerk[k].pc = "write" => i \in clerk[k].picks
        PROVE  \/ \E n \in DOMAIN letters' : i \in letters'[n].names
               \/ \E j \in Clerks : clerk'[j].partner = recs[i].partner
                                   /\ (clerk'[j].pc = "draft" \/ (clerk'[j].pc = "write" /\ i \in clerk'[j].picks))
    <3>1. CASE clerk'[k] = clerk[k]
      BY <2>3, <3>1
    <3>2. CASE LookApproved(k)
      <4> DEFINE p == clerk[k].partner
                 fresh == {x \in Of(p) : recs[x].status = "approved"} \ Covered(p)
      <4>1. CASE i \in fresh
        <5>1. clerk' = [clerk EXCEPT ![k] = [clerk[k] EXCEPT !.pc = "write", !.picks = fresh, !.looked = Len(letters)]]
          BY <1>1, <3>2, <4>1 DEF LookApproved
        <5>2. clerk'[k].pc = "write" /\ clerk'[k].picks = fresh /\ clerk'[k].partner = p
          BY <1>1, <5>1 DEF ClerkRow
        <5>3. QED
          BY <2>3, <4>1, <5>2
      <4>2. CASE i \notin fresh
        <5>1. i \in Of(p)
          BY <1>5, <2>3 DEF Of
        <5>2. i \in Covered(p)
          BY <1>5, <4>2, <5>1
        <5>3. QED
          BY <1>4, <5>2 DEF Covered
      <4>3. QED
        BY <4>1, <4>2
    <3>3. ASSUME NEW text \in BOOLEAN, WriteLetter(k, text) PROVE \E n \in DOMAIN letters' : i \in letters'[n].names
      <4>1. clerk[k].pc = "write"
        BY <3>3 DEF WriteLetter, Stands
      <4> DEFINE new == [partner |-> clerk[k].partner, names |-> clerk[k].picks, text |-> text,
                     status |-> IF text THEN "draft" ELSE "rejected", looked |-> clerk[k].looked, refused |-> ~text, dms |-> 0]
      <4>2. letters' = Append(letters, new) /\ new.names = clerk[k].picks
        BY <3>3 DEF WriteLetter
      <4> HIDE DEF new
      <4>3. Len(letters) + 1 \in DOMAIN letters' /\ letters'[Len(letters) + 1] = new
        <5>1. letters \in Seq(PartnerRecommendationMessage)
          BY DEF ReferralInv, ReferralTypeOK
        <5>2. QED
          BY <4>2, <5>1
      <4>4. QED
        BY <2>3, <4>1, <4>2, <4>3
    <3>4. QED
      BY <1>2, <1>3, <2>3, <3>1, <3>2, <3>3, ClerkFrom
  <2>4. QED
    BY <1>1, <1>2, <1>3, <1>5, <2>1, <2>2, <2>3 DEF ApprovedInv
<1>6. CASE ~(i \in DOMAIN recs /\ recs[i].status = "approved")
  <2>1. PICK k \in Clerks, j \in DOMAIN recs, status \in Verdict : UpdateRecommendation(k, j, status)
    <3>1. ASSUME NEW k \in Clerks, Propose(k) PROVE FALSE
      <4>1. CASE UNCHANGED recs
        BY <1>3, <1>6, <4>1
      <4>2. CASE recs' # recs
        BY <1>3, <1>6, <3>1, <4>2, ProposedRows
      <4>3. QED
        BY <4>1, <4>2
    <3>2. ASSUME NEW k \in Clerks, NEW p \in Partners, NEW replace \in BOOLEAN, AskMatch(k, p, replace) PROVE FALSE
      <4>1. DOMAIN recs' = DOMAIN recs /\ recs'[i] = IF replace /\ i \in Pending(p) THEN [recs[i] EXCEPT !.status = "deleted"] ELSE recs[i]
        BY <1>3, <3>2 DEF AskMatch
      <4>2. recs[i] \in PartnerCompanyRecommendation
        BY <1>1, <1>3, <4>1
      <4>3. QED
        BY <1>3, <1>6, <4>1, <4>2 DEF PartnerCompanyRecommendation
    <3>3. ASSUME UNCHANGED recs PROVE FALSE
      BY <1>3, <1>6, <3>3
    <3>4. QED
      BY <3>1, <3>2, <3>3 DEF ReferralNext, MatchStep, RecommendStep, LetterStep, StartMatch, MatchCompanies, Classify,
           AskLetter, LookApproved, WriteLetter, LoseDraft, UpdateLetter, MarkSent, SendDm, StoreSent
  <2>2. i = j /\ status = "approved"
    <3>1. recs[j] \in PartnerCompanyRecommendation
      BY <1>1
    <3>2. DOMAIN recs' = DOMAIN recs /\ recs'[j].status = status /\ \A x \in DOMAIN recs : x # j => recs'[x] = recs[x]
      BY <1>1, <2>1, <3>1 DEF UpdateRecommendation, PartnerCompanyRecommendation
    <3>3. QED
      BY <1>3, <1>6, <3>2
  <2>3. recs'[i].partner = recs[i].partner
    BY <1>1, <2>2 DEF RecsKeep
  <2>4. clerk'[k].pc = "draft" /\ clerk'[k].partner = recs[i].partner
    BY <1>1, <2>1, <2>2 DEF UpdateRecommendation, Free
  <2>5. QED
    BY <2>3, <2>4
<1>7. QED
  BY <1>5, <1>6

(* What a step does to the rows is an addition by a sweep, or leaves their *)
(* number.                                                                 *)
LEMMA NewRows ==
  ASSUME ReferralInv, ReferralNext
  PROVE  DOMAIN recs' = DOMAIN recs \/ \E k \in Clerks : Propose(k) /\ ~UNCHANGED recs
<1>1. UNCHANGED recs => DOMAIN recs' = DOMAIN recs
  OBVIOUS
<1>2. ASSUME NEW k \in Clerks, NEW p \in Partners, NEW replace \in BOOLEAN, AskMatch(k, p, replace) PROVE DOMAIN recs' = DOMAIN recs
  BY <1>2 DEF AskMatch
<1>3. ASSUME NEW k \in Clerks, NEW i \in DOMAIN recs, NEW status \in Verdict, UpdateRecommendation(k, i, status) PROVE DOMAIN recs' = DOMAIN recs
  BY <1>3 DEF UpdateRecommendation
<1>4. QED
  BY <1>1, <1>2, <1>3 DEF ReferralNext, MatchStep, RecommendStep, LetterStep, StartMatch, MatchCompanies, Classify,
     AskLetter, LookApproved, WriteLetter, LoseDraft, UpdateLetter, MarkSent, SendDm, StoreSent

LEMMA SweepStep ==
  ASSUME ReferralInv, ReferralNext
  PROVE  SweepInv'
<1>1. /\ RecsKeep /\ SweepInv /\ (\A k \in Clerks : ClerkOK(k)) /\ clerk \in [Clerks -> ClerkRow]
      /\ DOMAIN recs = 1..Len(recs) /\ Len(recs) \in Nat
  BY RowsStep DEF ReferralInv, ReferralTypeOK
<1>2. SUFFICES ASSUME NEW k \in Clerks, clerk'[k].pc \in {"match", "propose"}, clerk'[k].scheduled,
                      NEW i \in DOMAIN recs', i <= clerk'[k].looked, recs'[i].status = "proposed",
                      recs'[i].partner \in clerk'[k].left \/ (clerk'[k].pc = "propose" /\ recs'[i].partner = clerk'[k].partner)
               PROVE  recs'[i].back
  BY DEF SweepInv, AheadOf
<1>3. Len(recs') \in Nat /\ i \in 1..Len(recs')
  BY <1>2 DEF RecsKeep
<1>4. ASSUME i \in DOMAIN recs
      PROVE  recs'[i].partner = recs[i].partner /\ (recs'[i].back \/ (recs[i].status = "proposed" /\ ~recs[i].back))
  BY <1>1, <1>2, <1>4 DEF RecsKeep
<1>5. ASSUME clerk[k].pc \in {"match", "propose"}, clerk[k].scheduled, clerk'[k].looked = clerk[k].looked, AheadOf(k, recs'[i].partner)
      PROVE  recs'[i].back
  <2>1. clerk[k].looked <= Len(recs) /\ clerk[k].looked \in Nat
    BY <1>1, <1>5 DEF ClerkOK, ClerkRow
  <2>2. i \in DOMAIN recs
    BY <1>1, <1>2, <1>3, <1>5, <2>1
  <2>3. QED
    BY <1>1, <1>2, <1>4, <1>5, <2>2 DEF SweepInv
<1>6. CASE clerk'[k] = clerk[k]
  BY <1>2, <1>5, <1>6 DEF AheadOf
<1>7. CASE StartMatch(k)
  <2>1. clerk'[k].pc = "match" /\ clerk'[k].looked = Len(recs) /\ \A p \in clerk'[k].left : DueForMatch(p)
    BY <1>7, SweepMoves
  <2>2. recs' = recs /\ i \in DOMAIN recs
    BY <1>2, <1>7 DEF StartMatch
  <2>3. DueForMatch(recs[i].partner)
    BY <1>2, <2>1, <2>2
  <2>4. QED
    BY <1>2, <2>2, <2>3 DEF DueForMatch, Pending, Of
<1>8. CASE MatchCompanies(k)
  <2>1. /\ clerk'[k].looked = clerk[k].looked /\ clerk'[k].scheduled = clerk[k].scheduled
        /\ clerk'[k].partner \in clerk[k].left /\ clerk'[k].left \subseteq clerk[k].left
    BY <1>2, <1>8, SweepMoves
  <2>2. clerk[k].pc = "match"
    BY <1>8 DEF MatchCompanies, Stands
  <2>3. QED
    BY <1>2, <1>5, <2>1, <2>2 DEF AheadOf
<1>9. CASE Propose(k)
  <2>1. /\ clerk'[k].looked = clerk[k].looked /\ clerk'[k].scheduled = clerk[k].scheduled /\ clerk'[k].left = clerk[k].left
        /\ clerk'[k].pc = "match"
    BY <1>2, <1>9, SweepMoves
  <2>2. clerk[k].pc = "propose"
    BY <1>9 DEF Propose, Stands
  <2>3. QED
    BY <1>2, <1>5, <2>1, <2>2 DEF AheadOf
<1>10. CASE LookApproved(k)
  <2>1. clerk'[k].pc \in {"off", "write"}
    BY <1>1, <1>10 DEF LookApproved, Free, ClerkRow
  <2>2. QED
    BY <1>2, <2>1
<1>11. QED
  BY <1>2, <1>6, <1>7, <1>8, <1>9, <1>10, ClerkFrom

LEMMA PendingStep ==
  ASSUME ReferralInv, ReferralNext
  PROVE  PendingInv'
<1>1. /\ RecsKeep /\ SweepInv /\ PendingInv /\ (\A k \in Clerks : ClerkOK(k)) /\ clerk \in [Clerks -> ClerkRow]
      /\ DOMAIN recs = 1..Len(recs) /\ Len(recs) \in Nat
  BY RowsStep DEF ReferralInv, ReferralTypeOK
<1>2. SUFFICES ASSUME NEW i \in DOMAIN recs', NEW j \in DOMAIN recs', i < j, recs'[i].partner = recs'[j].partner, recs'[j].scheduled,
                      recs'[i].status = "proposed"
               PROVE  recs'[i].back \/ recs'[j].looked < i
  BY DEF PendingInv
<1>3. Len(recs') \in Nat /\ DOMAIN recs' = 1..Len(recs') /\ Len(recs) <= Len(recs')
  BY <1>1 DEF RecsKeep
<1>4. CASE j \in DOMAIN recs
  <2>1. i \in DOMAIN recs
    BY <1>1, <1>2, <1>3, <1>4
  <2>2. /\ recs'[i].back \/ (recs[i].status = "proposed" /\ ~recs[i].back)
        /\ recs'[i].partner = recs[i].partner /\ recs'[j].partner = recs[j].partner /\ recs'[j].looked = recs[j].looked
        /\ recs'[j].scheduled = recs[j].scheduled
    BY <1>1, <1>2, <1>4, <2>1 DEF RecsKeep
  <2>3. QED
    BY <1>1, <1>2, <1>4, <2>1, <2>2 DEF PendingInv
<1>5. CASE j \notin DOMAIN recs
  <2>1. PICK k \in Clerks : Propose(k) /\ ~UNCHANGED recs
    BY <1>2, <1>5, NewRows
  <2>2. recs'[j].partner = clerk[k].partner /\ recs'[j].scheduled = clerk[k].scheduled /\ recs'[j].looked = clerk[k].looked
    BY <1>2, <1>5, <2>1, ProposedRows
  <2>3. clerk[k].pc = "propose" /\ clerk[k].looked \in Nat /\ clerk[k].looked <= Len(recs)
    BY <1>1, <2>1 DEF Propose, Stands, ClerkOK, ClerkRow
  <2>4. CASE i \in DOMAIN recs
    <3>1. recs'[i] = recs[i]
      BY <2>1, <2>4, ProposedRows
    <3>2. i <= clerk[k].looked => recs[i].back
      BY <1>1, <1>2, <2>2, <2>3, <2>4, <3>1 DEF SweepInv, AheadOf
    <3>3. QED
      BY <1>1, <2>2, <2>3, <2>4, <3>1, <3>2
  <2>5. CASE i \notin DOMAIN recs
    BY <1>1, <1>2, <1>3, <2>2, <2>3, <2>5
  <2>6. QED
    BY <2>4, <2>5
<1>6. QED
  BY <1>4, <1>5

LEMMA ReferralTypes ==
  ASSUME ReferralInv, ReferralNext
  PROVE  ReferralTypeOK' /\ verdicts' \in Nat /\ lostDrafts' \in Nat
<1>1. RecsKeep /\ LettersKeep /\ classified \subseteq Partners /\ verdicts \in Nat /\ lostDrafts \in Nat
      /\ verdicts <= MaxVerdicts /\ lostDrafts <= verdicts
  BY RowsStep DEF ReferralInv, ReferralTypeOK
<1>2. UNCHANGED <<verdicts, lostDrafts>> \/ (Act /\ UNCHANGED lostDrafts) \/ (Act /\ lostDrafts' = lostDrafts + 1)
  <2>1. CASE MatchStep
    BY <2>1 DEF MatchStep, StartMatch, MatchCompanies, Propose, AskMatch
  <2>2. CASE RecommendStep
    BY <2>2 DEF RecommendStep, Classify, UpdateRecommendation, AskLetter, LookApproved, WriteLetter, LoseDraft
  <2>3. CASE LetterStep
    BY <2>3 DEF LetterStep, UpdateLetter, MarkSent, SendDm, StoreSent
  <2>4. QED
    BY <2>1, <2>2, <2>3 DEF ReferralNext
<1>3. verdicts' \in Nat /\ lostDrafts' \in Nat /\ verdicts' <= MaxVerdicts /\ lostDrafts' <= verdicts'
  BY <1>1, <1>2, ReferralAssumption DEF Act
<1>4. classified' \subseteq Partners
  <2>1. UNCHANGED classified \/ \E p \in Partners : Classify(p)
    BY DEF ReferralNext, MatchStep, RecommendStep, LetterStep, StartMatch, MatchCompanies, Propose, AskMatch, UpdateRecommendation,
           AskLetter, LookApproved, WriteLetter, LoseDraft, UpdateLetter, MarkSent, SendDm, StoreSent
  <2>2. QED
    BY <1>1, <2>1 DEF Classify
<1>5. QED
  BY <1>1, <1>3, <1>4 DEF ReferralTypeOK, RecsKeep, LettersKeep

LEMMA ReferralStepInv == ReferralInv /\ [ReferralNext]_referralVars => ReferralInv'
<1>1. SUFFICES ASSUME ReferralInv, [ReferralNext]_referralVars PROVE ReferralInv'
  OBVIOUS
<1>2. CASE ReferralNext
  BY <1>1, <1>2, ReferralTypes, ClerkStep, LettersStep, WriteStep, ApprovedStep, SweepStep, PendingStep DEF ReferralInv
<1>3. CASE UNCHANGED referralVars
  BY <1>1, <1>3 DEF referralVars, ReferralInv, ReferralTypeOK, ClerkOK, Keys, LetterInv, WriteInv, ApprovedInv, SweepInv, AheadOf,
                    ToldOnce, PendingInv
<1>4. QED
  BY <1>1, <1>2, <1>3

LEMMA ReferralInvGives == ReferralInv => ReferralHolds
<1>1. SUFFICES ASSUME ReferralInv PROVE ReferralHolds
  OBVIOUS
<1>2. PendingBounded
  BY <1>1 DEF ReferralInv, PendingInv, PendingBounded
<1>3. ApprovedNamed
  <2>1. SUFFICES ASSUME NEW i \in DOMAIN recs, recs[i].status = "approved", ~(lostDrafts > 0)
                 PROVE  \/ \E n \in DOMAIN letters : i \in letters[n].names
                        \/ \E k \in Clerks : clerk[k].pc \in {"draft", "write"} /\ clerk[k].partner = recs[i].partner
    BY DEF ApprovedNamed
  <2>2. lostDrafts = 0
    BY <1>1, <2>1 DEF ReferralInv
  <2>3. QED
    BY <1>1, <2>1, <2>2 DEF ReferralInv, ApprovedInv
<1>4. QED
  BY <1>1, <1>2, <1>3 DEF ReferralInv, ReferralHolds

(* A recommendation is told a partner once, but for a refused message and  *)
(* for drafts that overlap; what is approved is in a message, or on its    *)
(* way into one, unless a draft was lost; and the scheduled sweep adds     *)
(* nothing to what was pending as it began.                                *)
THEOREM ReferralsHold == ReferralSpec => []ReferralHolds
<1>1. ReferralInit => ReferralInv
  BY ReferralInitInv
<1>2. ReferralInv /\ [ReferralNext]_referralVars => ReferralInv'
  BY ReferralStepInv
<1>3. ReferralInv => ReferralHolds
  BY ReferralInvGives
<1>4. QED
  BY <1>1, <1>2, <1>3, PTL DEF ReferralSpec

-----------------------------------------------------------------------------
(* The LinkedIn monitor.                                                   *)
LEMMA LeastIsLeast ==
  ASSUME NEW S \in SUBSET Nat, S # {}
  PROVE  Least(S) \in S /\ \A q \in S : Least(S) <= q
<1>1. PICK x \in S : \A y \in S : ~ (<<y, x>> \in OpToRel(<, Nat))
  BY WFMin, NatLessThanWellFounded, Zenon
<1>2. \A y \in S : ~ (y < x)
  <2>1. ASSUME NEW y \in S, y < x PROVE FALSE
    <3>1. <<y, x>> \in Nat \X Nat /\ <<y, x>>[1] < <<y, x>>[2]
      BY <2>1
    <3>2. <<y, x>> \in OpToRel(<, Nat)
      BY <3>1 DEF OpToRel
    <3>3. QED
      BY <1>1, <3>2
  <2>2. QED
    BY <2>1
<1>3. \A y \in S : x <= y
  BY <1>2
<1>4. QED
  BY <1>3 DEF Least

(* Posts of a profile are finitely many, and those that its search does    *)
(* not return are excused.                                                 *)
LEMMA NewerCount ==
  ASSUME posts \in Seq(Watched \cup {0}), NEW p \in Watched, NEW i
  PROVE  Cardinality({j \in By(p) : j > i}) \in Nat
<1>1. IsFiniteSet(1..Len(posts))
  BY FS_Interval
<1>2. {j \in By(p) : j > i} \subseteq 1..Len(posts)
  BY DEF By
<1>3. IsFiniteSet({j \in By(p) : j > i})
  BY <1>1, <1>2, FS_Subset
<1>4. QED
  BY <1>3, FS_CardinalityType

LEMMA ReturnedOrExcused ==
  ASSUME posts \in Seq(Watched \cup {0}), NEW p \in Watched, NEW since \in Nat, NEW i \in By(p), i > since
  PROVE  i \in Returned(p, since) \/ Cardinality({j \in By(p) : j > i}) >= PerSource
<1>1. By(p) \subseteq Nat /\ i \in Nat
  BY DEF By
<1>2. {j \in {k \in By(p) : k > since} : j > i} = {j \in By(p) : j > i}
  <2>1. \A j \in By(p) : j > i => j > since
    BY <1>1
  <2>2. QED
    BY <2>1
<1>3. Cardinality({j \in By(p) : j > i}) \in Nat /\ PerSource \in Nat
  BY NewerCount, MonitorAssumption
<1>4. CASE Cardinality({j \in By(p) : j > i}) < PerSource
  BY <1>2, <1>4 DEF Returned
<1>5. CASE ~(Cardinality({j \in By(p) : j > i}) < PerSource)
  BY <1>3, <1>5
<1>6. QED
  BY <1>4, <1>5

(* What is known of where a sweep is; the steps at which it watches, and   *)
(* those at which it has a batch, or a post whose row is committed.        *)
MonitorSteps == {"off", "batch", "posts", "signal", "alert", "stamp", "search", "results", "candidate"}
HasBatch(m) == monitor[m].pc \in {"posts", "signal", "alert", "stamp"}
Watches(m) == monitor[m].pc = "batch" \/ HasBatch(m)
Alerts(m) == monitor[m].pc \in {"alert", "stamp"}
MonitorRow == [pc : MonitorSteps, now : Nat, left : SUBSET (Watched \cup Terms), batch : SUBSET Watched,
               found : SUBSET Nat, post : Nat, action : Action]

SharedTypes ==
  /\ posts \in Seq(Watched \cup {0}) /\ Len(posts) <= MaxPosts /\ profiles \in [Watched -> Profile]
  /\ signals \subseteq LinkedinMonitorSignal /\ Kept \subseteq DOMAIN posts /\ excused \subseteq DOMAIN posts
  /\ candidates \subseteq ReverseDiscoveryCandidate
  /\ alerts \in [1..MaxPosts -> Nat] /\ asked \in [1..MaxPosts -> Nat]
  /\ monitorFaults \in Nat /\ mishaps \in Nat /\ monitorFaults <= mishaps /\ mishaps <= MaxMishaps

Placed(m) ==
  /\ monitor[m].now <= Len(posts) /\ monitor[m].found \subseteq DOMAIN posts
  /\ monitor[m].pc \in {"signal", "alert", "stamp", "candidate"} => monitor[m].post \in DOMAIN posts
  /\ Watches(m) => monitor[m].left \subseteq Watched
RowTypes == monitor \in [Monitors -> MonitorRow] /\ \A m \in Monitors : Placed(m)

(* A stamp is of the past, and a profile that is gone has none.            *)
StampsPast ==
  \A p \in Watched :
    /\ profiles[p].checked = Unchecked \/ profiles[p].checked <= Len(posts)
    /\ profiles[p].is = "none" => profiles[p].checked = Unchecked

(* What is alerted is kept, and only one sweep is at the alert of a post.  *)
AlertInv ==
  /\ \A i \in 1..MaxPosts : alerts[i] <= 1 /\ (alerts[i] # 0 => i \in Kept)
  /\ \A m \in Monitors : Alerts(m) =>
       /\ monitor[m].post \in Kept
       /\ alerts[monitor[m].post] = IF monitor[m].pc = "alert" THEN 0 ELSE 1
  /\ \A m, n \in Monitors : Alerts(m) /\ Alerts(n) /\ monitor[m].post = monitor[n].post => m = n

(* What a sweep is about to stamp past is kept, excused, or still to be    *)
(* looked at by it.                                                        *)
Seen(m, i) == i \in Kept \cup excused \cup monitor[m].found \/ (monitor[m].pc = "signal" /\ i = monitor[m].post)
SeenInv ==
  \A m \in Monitors : HasBatch(m) =>
    \A p \in monitor[m].batch : \A i \in By(p) : i <= monitor[m].now => Seen(m, i)

MonitorInv ==
  SharedTypes /\ RowTypes /\ StampsPast /\ AlertInv /\ SeenInv /\ PostKept /\ AlertsFollow /\ KeptIsKnown

LEMMA RestingRow ==
  /\ Resting \in MonitorRow
  /\ Resting.pc = "off" /\ Resting.now = 0 /\ Resting.found = {} /\ Resting.left = {} /\ Resting.batch = {} /\ Resting.post = 0
BY DEF Resting, MonitorRow, MonitorSteps, Action

LEMMA MonitorInitInv == MonitorInit => MonitorInv
<1>1. SUFFICES ASSUME MonitorInit PROVE MonitorInv
  OBVIOUS
<1>2. posts \in Seq(Watched \cup {0}) /\ Len(posts) <= MaxPosts /\ \A p \in Watched : By(p) = {}
  <2>1. CASE scene = "search"
    <3>1. posts = <<0, 0>>
      BY <1>1, <2>1 DEF MonitorInit
    <3>2. \A p \in Watched : p # 0
      BY MonitorAssumption
    <3>3. MaxPosts >= 2
      BY MonitorAssumption
    <3>4. QED
      BY <3>1, <3>2, <3>3 DEF By
  <2>2. CASE scene # "search"
    <3>1. posts = <<>>
      BY <1>1, <2>2 DEF MonitorInit
    <3>2. QED
      BY <3>1, MonitorAssumption DEF By
  <2>3. QED
    BY <2>1, <2>2
<1>3. profiles \in [Watched -> Profile] /\ StampsPast
  <2>1. PICK other \in {NoProfile, [is |-> "paused", checked |-> 0]} :
          profiles = [p \in Watched |-> IF p = 1 THEN [is |-> "active", checked |-> Unchecked] ELSE other]
    BY <1>1 DEF MonitorInit
  <2>2. Unchecked \in Nat /\ Unchecked \in 0..Unchecked /\ 0 \in 0..Unchecked
    BY MonitorAssumption DEF Unchecked
  <2>3. \A p \in Watched : profiles[p] \in {[is |-> "active", checked |-> Unchecked], NoProfile, [is |-> "paused", checked |-> 0]}
    BY <2>1
  <2>4. profiles \in [Watched -> Profile]
    BY <2>1, <2>2 DEF Profile, NoProfile
  <2>5. 0 <= Len(posts)
    BY <1>2
  <2>6. QED
    BY <2>3, <2>4, <2>5 DEF StampsPast, NoProfile
<1>4. Kept = {} /\ signals = {} /\ candidates = {} /\ excused = {} /\ mishaps = 0 /\ monitorFaults = 0
  BY <1>1 DEF MonitorInit, Kept
<1>5. alerts \in [1..MaxPosts -> Nat] /\ asked \in [1..MaxPosts -> Nat] /\ \A i \in 1..MaxPosts : alerts[i] = 0
  BY <1>1 DEF MonitorInit
<1>6. SharedTypes
  BY <1>2, <1>3, <1>4, <1>5, MonitorAssumption DEF SharedTypes
<1>7. \A m \in Monitors : monitor[m] = Resting
  BY <1>1 DEF MonitorInit
<1>8. RowTypes
  <2>1. monitor \in [Monitors -> MonitorRow]
    BY <1>1, RestingRow DEF MonitorInit
  <2>2. 0 <= Len(posts)
    BY <1>2
  <2>3. QED
    BY <1>7, <2>1, <2>2, RestingRow DEF RowTypes, Placed, Watches, HasBatch
<1>9. AlertInv /\ SeenInv
  BY <1>5, <1>7, RestingRow DEF AlertInv, SeenInv, Alerts, HasBatch
<1>10. PostKept
  BY <1>2 DEF PostKept
<1>11. AlertsFollow /\ KeptIsKnown
  BY <1>4 DEF AlertsFollow, KeptIsKnown
<1>12. QED
  BY <1>3, <1>6, <1>8, <1>9, <1>10, <1>11 DEF MonitorInv

(* A step moves one sweep, and takes it to a place it can be in.           *)
LEMMA FollowRow ==
  ASSUME RowTypes, NEW m \in Monitors, NEW pc \in MonitorSteps, Follow(m, pc)
  PROVE  /\ monitor' \in [Monitors -> MonitorRow] /\ \A n \in Monitors : n # m => monitor'[n] = monitor[n]
         /\ monitor'[m].pc = pc /\ monitor'[m].now = monitor[m].now /\ monitor'[m].left = monitor[m].left
         /\ monitor'[m].batch = monitor[m].batch /\ monitor'[m].found = monitor[m].found
         /\ pc # "posts" => monitor'[m].post = monitor[m].post
<1>1. monitor[m] \in MonitorRow
  BY DEF RowTypes
<1> DEFINE r == [monitor[m] EXCEPT !.pc = pc, !.action = "ignore", !.post = IF pc = "posts" THEN 0 ELSE @]
<1>2. monitor' = [monitor EXCEPT ![m] = r]
  BY DEF Follow, RowTypes
<1>3. /\ r \in MonitorRow /\ r.pc = pc /\ r.now = monitor[m].now /\ r.left = monitor[m].left
      /\ r.batch = monitor[m].batch /\ r.found = monitor[m].found /\ (pc # "posts" => r.post = monitor[m].post)
  BY <1>1 DEF MonitorRow, Action
<1>4. QED
  <2> HIDE DEF r
  <2>1. QED
    BY <1>2, <1>3 DEF RowTypes

LEMMA SetRow ==
  ASSUME RowTypes, NEW m \in Monitors, NEW r \in MonitorRow, monitor' = [monitor EXCEPT ![m] = r]
  PROVE  /\ monitor' \in [Monitors -> MonitorRow] /\ monitor'[m] = r
         /\ \A n \in Monitors : n # m => monitor'[n] = monitor[n]
BY DEF RowTypes

(* What each step leaves of the sweep that takes it.                       *)
LEMMA BeginRow ==
  ASSUME SharedTypes, RowTypes, NEW m \in Monitors, NEW pc \in {"batch", "search"}, NEW left \in SUBSET (Watched \cup Terms),
         Begin(m, pc, left)
  PROVE  /\ monitor' \in [Monitors -> MonitorRow] /\ \A n \in Monitors : n # m => monitor'[n] = monitor[n]
         /\ monitor'[m].pc = pc /\ monitor'[m].now = Len(posts) /\ monitor'[m].left = left /\ monitor'[m].found = {}
<1> DEFINE r == [Resting EXCEPT !.pc = pc, !.now = Now, !.left = left]
<1>1. Now \in Nat /\ Now = Len(posts)
  BY DEF Now, SharedTypes
<1>2. r \in MonitorRow /\ r.pc = pc /\ r.now = Now /\ r.left = left /\ r.found = {}
  BY <1>1 DEF Resting, MonitorRow, MonitorSteps, Action
<1>3. monitor' = [monitor EXCEPT ![m] = r]
  BY DEF Begin
<1>4. QED
  <2> HIDE DEF r
  <2>1. QED
    BY <1>1, <1>2, <1>3, SetRow

LEMMA FirstOfSubset == ASSUME NEW S, NEW n PROVE FirstOf(S, n) \subseteq S
BY DEF FirstOf

LEMMA FetchRow ==
  ASSUME SharedTypes, RowTypes, NEW m \in Monitors, Fetch(m)
  PROVE  /\ monitor' \in [Monitors -> MonitorRow] /\ \A n \in Monitors : n # m => monitor'[n] = monitor[n]
         /\ \/ monitor'[m] = Resting
            \/ /\ monitor'[m].pc = "posts" /\ monitor'[m].now = monitor[m].now
               /\ monitor'[m].batch = FirstOf(monitor[m].left, PerBatch)
               /\ monitor'[m].left \subseteq monitor[m].left
               /\ monitor'[m].found = UNION {Returned(p, Since(monitor'[m].batch, monitor[m].now)) : p \in monitor'[m].batch}
               /\ monitor'[m].found \subseteq DOMAIN posts
<1> DEFINE batch == FirstOf(monitor[m].left, PerBatch)
           got == UNION {Returned(p, Since(batch, monitor[m].now)) : p \in batch}
<1>1. CASE \A p \in batch : profiles[p].is # "none"
  <2> DEFINE r == [monitor[m] EXCEPT !.pc = "posts", !.batch = batch, !.found = got, !.left = @ \ batch]
  <2>1. monitor[m].pc = "batch" /\ monitor[m] \in MonitorRow /\ monitor[m].left \subseteq Watched
    BY DEF Fetch, RowTypes, Placed, Watches
  <2>2. batch \subseteq Watched
    BY <2>1, FirstOfSubset
  <2>3. got \subseteq DOMAIN posts
    BY DEF Returned, By
  <2>4. DOMAIN posts \subseteq Nat
    BY DEF SharedTypes
  <2>5. monitor' = [monitor EXCEPT ![m] = r]
    BY <1>1 DEF Fetch, RowTypes
  <2> HIDE DEF batch, got
  <2>6. /\ r \in MonitorRow /\ r.pc = "posts" /\ r.now = monitor[m].now /\ r.batch = batch /\ r.found = got
        /\ r.left \subseteq monitor[m].left
    BY <2>1, <2>2, <2>3, <2>4 DEF MonitorRow, MonitorSteps
  <2> HIDE DEF r
  <2>7. /\ monitor' \in [Monitors -> MonitorRow] /\ monitor'[m] = r
        /\ \A n \in Monitors : n # m => monitor'[n] = monitor[n]
    BY <2>5, <2>6, SetRow
  <2>8. got = UNION {Returned(p, Since(batch, monitor[m].now)) : p \in batch}
    BY DEF got
  <2>9. batch = FirstOf(monitor[m].left, PerBatch)
    BY DEF batch
  <2>10. QED
    BY <2>3, <2>6, <2>7, <2>8, <2>9
<1>2. CASE ~(\A p \in batch : profiles[p].is # "none")
  <2>1. monitor' = [monitor EXCEPT ![m] = Resting]
    BY <1>2 DEF Fetch
  <2>2. QED
    BY <2>1, SetRow, RestingRow
<1>3. QED
  BY <1>1, <1>2

LEMMA TakePostRow ==
  ASSUME SharedTypes, RowTypes, NEW m \in Monitors, NEW i \in DOMAIN posts, TakePost(m, i)
  PROVE  /\ monitor' \in [Monitors -> MonitorRow] /\ \A n \in Monitors : n # m => monitor'[n] = monitor[n]
         /\ monitor'[m].now = monitor[m].now /\ monitor'[m].batch = monitor[m].batch /\ monitor'[m].left = monitor[m].left
         /\ monitor'[m].found = monitor[m].found \ {i}
         /\ \/ i \in Kept /\ monitor'[m].pc = "posts"
            \/ i \notin Kept /\ monitor'[m].pc = "signal" /\ monitor'[m].post = i
<1>1. monitor[m] \in MonitorRow /\ monitor[m].pc = "posts" /\ i \in Nat
  BY DEF TakePost, RowTypes, SharedTypes
<1>2. CASE i \in Kept
  <2> DEFINE r == [monitor[m] EXCEPT !.found = @ \ {i}]
  <2>1. monitor' = [monitor EXCEPT ![m] = r]
    BY <1>2 DEF TakePost, RowTypes
  <2>2. /\ r \in MonitorRow /\ r.now = monitor[m].now /\ r.batch = monitor[m].batch /\ r.left = monitor[m].left
        /\ r.found = monitor[m].found \ {i} /\ r.pc = "posts"
    BY <1>1 DEF MonitorRow
  <2> HIDE DEF r
  <2>3. QED
    BY <1>2, <2>1, <2>2, SetRow
<1>3. CASE i \notin Kept
  <2>1. PICK action \in {"engage", "ignore"} :
          monitor' = [monitor EXCEPT ![m].found = monitor[m].found \ {i}, ![m].pc = "signal", ![m].post = i, ![m].action = action]
    BY <1>3 DEF TakePost
  <2> DEFINE r == [monitor[m] EXCEPT !.found = monitor[m].found \ {i}, !.pc = "signal", !.post = i, !.action = action]
  <2>2. monitor' = [monitor EXCEPT ![m] = r]
    BY <2>1 DEF RowTypes
  <2>3. /\ r \in MonitorRow /\ r.now = monitor[m].now /\ r.batch = monitor[m].batch /\ r.left = monitor[m].left
        /\ r.found = monitor[m].found \ {i} /\ r.pc = "signal" /\ r.post = i
    BY <1>1 DEF MonitorRow, MonitorSteps, Action
  <2> HIDE DEF r
  <2>4. QED
    BY <1>3, <2>2, <2>3, SetRow
<1>4. QED
  BY <1>2, <1>3

(* The steps after which the sweep has no batch at hand.                   *)
Plain(m) ==
  MonitorEnds(m) \/ MonitorCrash(m) \/ BatchDone(m) \/ FetchFails(m) \/ Search(m) \/ StoreCandidate(m) \/ EndResults(m)
  \/ \E i \in DOMAIN posts : Judge(m, i)

LEMMA PlainRow ==
  ASSUME SharedTypes, RowTypes, NEW m \in Monitors, Plain(m)
  PROVE  /\ monitor' \in [Monitors -> MonitorRow] /\ \A n \in Monitors : n # m => monitor'[n] = monitor[n]
         /\ \/ monitor'[m] = Resting
            \/ /\ monitor'[m].pc \in {"batch", "search", "results", "candidate"} /\ monitor'[m].now = monitor[m].now
               /\ monitor'[m].found \subseteq DOMAIN posts
               /\ monitor'[m].pc = "batch" => Watches(m) /\ monitor'[m].left \subseteq monitor[m].left
               /\ monitor'[m].pc = "candidate" => monitor'[m].post \in DOMAIN posts
<1> DEFINE Goal ==
      /\ monitor' \in [Monitors -> MonitorRow] /\ \A n \in Monitors : n # m => monitor'[n] = monitor[n]
      /\ \/ monitor'[m] = Resting
         \/ /\ monitor'[m].pc \in {"batch", "search", "results", "candidate"} /\ monitor'[m].now = monitor[m].now
            /\ monitor'[m].found \subseteq DOMAIN posts
            /\ monitor'[m].pc = "batch" => Watches(m) /\ monitor'[m].left \subseteq monitor[m].left
            /\ monitor'[m].pc = "candidate" => monitor'[m].post \in DOMAIN posts
<1> SUFFICES Goal
  OBVIOUS
<1>1. monitor[m] \in MonitorRow /\ monitor[m].found \subseteq DOMAIN posts /\ DOMAIN posts \subseteq Nat
  BY DEF RowTypes, Placed, SharedTypes
<1>2. ASSUME monitor' = [monitor EXCEPT ![m] = Resting] PROVE Goal
  BY <1>2, SetRow, RestingRow
<1> DEFINE Next == {r \in MonitorRow :
      /\ r.pc \in {"batch", "search", "results", "candidate"} /\ r.now = monitor[m].now /\ r.found \subseteq DOMAIN posts
      /\ r.pc = "batch" => Watches(m) /\ r.left \subseteq monitor[m].left
      /\ r.pc = "candidate" => r.post \in DOMAIN posts}
<1>3. ASSUME NEW r \in Next, monitor' = [monitor EXCEPT ![m] = r] PROVE Goal
  BY <1>3, SetRow
<1>4. CASE MonitorEnds(m) \/ MonitorCrash(m)
  BY <1>2, <1>4 DEF MonitorEnds, MonitorCrash
<1>5. CASE BatchDone(m)
  <2> DEFINE r == [monitor[m] EXCEPT !.pc = "batch", !.batch = {}]
  <2>1. r \in MonitorRow /\ r.now = monitor[m].now /\ r.pc = "batch" /\ r.found = monitor[m].found /\ r.left = monitor[m].left
    BY <1>1 DEF MonitorRow, MonitorSteps
  <2>2. Watches(m)
    BY <1>5 DEF BatchDone, Watches, HasBatch
  <2>3. monitor' = [monitor EXCEPT ![m] = r] \/ monitor' = [monitor EXCEPT ![m] = Resting]
    BY <1>5 DEF BatchDone, RowTypes
  <2>4. r \in Next
    BY <1>1, <2>1, <2>2
  <2> HIDE DEF r, Goal, Next
  <2>5. QED
    BY <1>2, <1>3, <2>3, <2>4
<1>6. CASE FetchFails(m)
  <2> DEFINE r == [monitor[m] EXCEPT !.left = @ \ FirstOf(@, PerBatch)]
  <2>1. monitor[m].pc = "batch" /\ monitor' = [monitor EXCEPT ![m] = r]
    BY <1>6 DEF FetchFails, RowTypes
  <2>2. r \in MonitorRow /\ r.now = monitor[m].now /\ r.pc = "batch" /\ r.found = monitor[m].found /\ r.left \subseteq monitor[m].left
    BY <1>1, <2>1 DEF MonitorRow
  <2>3. Watches(m)
    BY <2>1 DEF Watches
  <2>4. r \in Next
    BY <1>1, <2>2, <2>3
  <2> HIDE DEF r, Goal, Next
  <2>5. QED
    BY <1>3, <2>1, <2>4
<1>7. CASE Search(m)
  <2> DEFINE term == Least(monitor[m].left)
             r == [monitor[m] EXCEPT !.pc = "results", !.left = @ \ {term}, !.found = DOMAIN posts]
             s == [monitor[m] EXCEPT !.left = @ \ {term}]
  <2>1. /\ monitor[m].pc = "search"
        /\ \/ monitor' = [monitor EXCEPT ![m] = r] \/ monitor' = [monitor EXCEPT ![m] = s]
           \/ monitor' = [monitor EXCEPT ![m] = Resting]
    BY <1>7 DEF Search, RowTypes
  <2>2. r \in MonitorRow /\ r.now = monitor[m].now /\ r.pc = "results" /\ r.found = DOMAIN posts
    BY <1>1 DEF MonitorRow, MonitorSteps
  <2>3. s \in MonitorRow /\ s.now = monitor[m].now /\ s.pc = "search" /\ s.found = monitor[m].found
    BY <1>1, <2>1 DEF MonitorRow
  <2>4. r \in Next /\ s \in Next
    BY <1>1, <2>2, <2>3
  <2> HIDE DEF r, s, Goal, Next
  <2>5. QED
    BY <1>2, <1>3, <2>1, <2>4
<1>8. CASE StoreCandidate(m)
  <2> DEFINE r == [monitor[m] EXCEPT !.pc = "results", !.post = 0]
  <2>1. monitor' = [monitor EXCEPT ![m] = r] \/ monitor' = [monitor EXCEPT ![m] = Resting]
    BY <1>8 DEF StoreCandidate, RowTypes
  <2>2. r \in MonitorRow /\ r.now = monitor[m].now /\ r.pc = "results" /\ r.found = monitor[m].found
    BY <1>1 DEF MonitorRow, MonitorSteps
  <2>3. r \in Next
    BY <1>1, <2>2
  <2> HIDE DEF r, Goal, Next
  <2>4. QED
    BY <1>2, <1>3, <2>1, <2>3
<1>9. CASE EndResults(m)
  <2> DEFINE r == [monitor[m] EXCEPT !.pc = "search", !.post = 0]
  <2>1. monitor' = [monitor EXCEPT ![m] = r]
    BY <1>9 DEF EndResults, RowTypes
  <2>2. r \in MonitorRow /\ r.now = monitor[m].now /\ r.pc = "search" /\ r.found = monitor[m].found
    BY <1>1 DEF MonitorRow, MonitorSteps
  <2>3. r \in Next
    BY <1>1, <2>2
  <2> HIDE DEF r, Goal, Next
  <2>4. QED
    BY <1>3, <2>1, <2>3
<1>10. CASE \E i \in DOMAIN posts : Judge(m, i)
  <2>1. PICK i \in DOMAIN posts : Judge(m, i)
    BY <1>10
  <2> DEFINE r == [monitor[m] EXCEPT !.found = @ \ {i}]
             s == [monitor[m] EXCEPT !.found = @ \ {i}, !.pc = "candidate", !.post = i]
  <2>2. monitor[m].pc = "results" /\ (monitor' = [monitor EXCEPT ![m] = r] \/ monitor' = [monitor EXCEPT ![m] = s])
    BY <2>1 DEF Judge, RowTypes
  <2>3. r \in MonitorRow /\ r.now = monitor[m].now /\ r.pc = "results" /\ r.found \subseteq monitor[m].found
    BY <1>1, <2>2 DEF MonitorRow
  <2>4. s \in MonitorRow /\ s.now = monitor[m].now /\ s.pc = "candidate" /\ s.found \subseteq monitor[m].found /\ s.post = i
    BY <1>1 DEF MonitorRow, MonitorSteps
  <2>5. r \in Next /\ s \in Next
    BY <1>1, <2>3, <2>4
  <2> HIDE DEF r, s, Goal, Next
  <2>6. QED
    BY <1>3, <2>2, <2>5
<1>11. QED
  BY <1>4, <1>5, <1>6, <1>7, <1>8, <1>9, <1>10 DEF Plain

(* The steps at which a post is kept and alerted.                          *)
LEMMA StoreSignalRow ==
  ASSUME SharedTypes, RowTypes, NEW m \in Monitors, StoreSignal(m)
  PROVE  /\ monitor' \in [Monitors -> MonitorRow] /\ \A n \in Monitors : n # m => monitor'[n] = monitor[n]
         /\ \/ monitor'[m] = Resting /\ UNCHANGED signals
            \/ /\ monitor'[m].now = monitor[m].now /\ monitor'[m].left = monitor[m].left
               /\ monitor'[m].batch = monitor[m].batch /\ monitor'[m].found = monitor[m].found
               /\ monitor[m].post \notin Kept
               /\ signals' = signals \cup {[post |-> monitor[m].post, action |-> monitor[m].action, alerted |-> FALSE]}
               /\ \/ monitor'[m].pc = "posts" /\ monitor[m].action = "ignore"
                  \/ monitor'[m].pc = "alert" /\ monitor'[m].post = monitor[m].post
<1>1. CASE monitor' = [monitor EXCEPT ![m] = Resting] /\ UNCHANGED signals
  BY <1>1, SetRow, RestingRow
<1>2. CASE /\ monitor[m].post \notin Kept
           /\ signals' = signals \cup {[post |-> monitor[m].post, action |-> monitor[m].action, alerted |-> FALSE]}
           /\ Follow(m, IF monitor[m].action = "ignore" THEN "posts" ELSE "alert")
  <2>1. "posts" \in MonitorSteps /\ "alert" \in MonitorSteps
    BY DEF MonitorSteps
  <2>2. CASE monitor[m].action = "ignore"
    <3>1. Follow(m, "posts")
      BY <1>2, <2>2
    <3>2. QED
      BY <1>2, <2>1, <2>2, <3>1, FollowRow
  <2>3. CASE monitor[m].action # "ignore"
    <3>1. Follow(m, "alert")
      BY <1>2, <2>3
    <3>2. QED
      BY <1>2, <2>1, <3>1, FollowRow
  <2>4. QED
    BY <2>2, <2>3
<1>3. QED
  BY <1>1, <1>2 DEF StoreSignal, KeepSignal

LEMMA AlertRow ==
  ASSUME SharedTypes, RowTypes, NEW m \in Monitors, SendAlert(m) \/ RecordAlert(m)
  PROVE  /\ monitor' \in [Monitors -> MonitorRow] /\ \A n \in Monitors : n # m => monitor'[n] = monitor[n]
         /\ monitor'[m].now = monitor[m].now /\ monitor'[m].left = monitor[m].left
         /\ monitor'[m].batch = monitor[m].batch /\ monitor'[m].found = monitor[m].found
         /\ \/ monitor'[m].pc = "posts"
            \/ monitor'[m].pc = "stamp" /\ monitor'[m].post = monitor[m].post
<1>1. "posts" \in MonitorSteps /\ "stamp" \in MonitorSteps
  BY DEF MonitorSteps
<1>2. Follow(m, "posts") \/ Follow(m, "stamp")
  BY DEF SendAlert, RecordAlert
<1>3. QED
  BY <1>1, <1>2, FollowRow

Starts(m) == StartMonitor(m) \/ StartSearch(m)

LEMMA MonitorCases ==
  ASSUME [MonitorNext]_monitorVars
  PROVE  \/ UNCHANGED <<posts, profiles, signals, candidates, monitor, alerts, asked, excused, mishaps, monitorFaults>>
         \/ \E p \in Watched : Post(p)
         \/ \E p \in Watched, is \in {"none", "active", "paused"} : EditProfile(p, is)
         \/ \E m \in Monitors : \/ Starts(m) \/ Fetch(m) \/ StoreSignal(m) \/ SendAlert(m) \/ RecordAlert(m) \/ Plain(m)
                                \/ \E i \in DOMAIN posts : TakePost(m, i)
<1>1. CASE UNCHANGED monitorVars
  BY <1>1 DEF monitorVars
<1>2. CASE World
  BY <1>2 DEF World
<1>3. CASE \E m \in Monitors : MonitorSweep(m) \/ KeywordSearch(m)
  <2>1. PICK m \in Monitors : MonitorSweep(m) \/ KeywordSearch(m)
    BY <1>3
  <2>2. CASE MonitorSweep(m)
    BY <2>2 DEF MonitorSweep, Starts, Plain
  <2>3. CASE KeywordSearch(m)
    BY <2>3 DEF KeywordSearch, Starts, Plain
  <2>4. QED
    BY <2>1, <2>2, <2>3
<1>4. QED
  BY <1>1, <1>2, <1>3 DEF MonitorNext

LEMMA StartRow ==
  ASSUME SharedTypes, RowTypes, NEW m \in Monitors, Starts(m)
  PROVE  /\ monitor' \in [Monitors -> MonitorRow] /\ \A n \in Monitors : n # m => monitor'[n] = monitor[n]
         /\ monitor'[m].now = Len(posts) /\ monitor'[m].found = {}
         /\ \/ monitor'[m].pc = "batch" /\ monitor'[m].left \subseteq Watched
            \/ monitor'[m].pc = "search"
<1>1. Active \in SUBSET (Watched \cup Terms) /\ Active \subseteq Watched /\ Terms \in SUBSET (Watched \cup Terms)
  BY DEF Active
<1>2. Begin(m, "batch", Active) \/ Begin(m, "search", Terms)
  BY DEF Starts, StartMonitor, StartSearch
<1>3. QED
  BY <1>1, <1>2, BeginRow

LEMMA RowTypesStep ==
  ASSUME SharedTypes, RowTypes, [MonitorNext]_monitorVars
  PROVE  RowTypes'
<1>1. ASSUME NEW m \in Monitors, posts' = posts, monitor' \in [Monitors -> MonitorRow],
             \A n \in Monitors : n # m => monitor'[n] = monitor[n], Placed(m)'
      PROVE  RowTypes'
  <2>1. ASSUME NEW n \in Monitors, n # m PROVE Placed(n)'
    <3>1. Placed(n) /\ monitor'[n] = monitor[n]
      BY <1>1, <2>1 DEF RowTypes
    <3>2. QED
      BY <1>1, <3>1 DEF Placed, Watches, HasBatch
  <2>2. QED
    BY <1>1, <2>1 DEF RowTypes
<1>2. ASSUME NEW m \in Monitors, Starts(m) PROVE RowTypes'
  <2>1. posts' = posts /\ Len(posts) <= Len(posts)
    BY <1>2 DEF Starts, StartMonitor, StartSearch, SharedTypes
  <2>2. Placed(m)'
    BY <1>2, <2>1, StartRow DEF Placed, Watches, HasBatch
  <2>3. QED
    BY <1>1, <1>2, <2>1, <2>2, StartRow
<1>3. ASSUME NEW m \in Monitors, Fetch(m) PROVE RowTypes'
  <2>1. posts' = posts /\ 0 <= Len(posts)
    <3>1. posts' = posts
      BY <1>3 DEF Fetch
    <3>2. 0 <= Len(posts)
      BY DEF SharedTypes
    <3>3. QED
      BY <3>1, <3>2
  <2>2. Placed(m) /\ Watches(m)
    BY <1>3 DEF RowTypes, Fetch, Watches
  <2>3. Placed(m)'
    BY <1>3, <2>1, <2>2, FetchRow, RestingRow DEF Placed, Watches, HasBatch
  <2>4. QED
    BY <1>1, <1>3, <2>1, <2>3, FetchRow
<1>4. ASSUME NEW m \in Monitors, NEW i \in DOMAIN posts, TakePost(m, i) PROVE RowTypes'
  <2>1. posts' = posts
    BY <1>4 DEF TakePost
  <2>2. Placed(m) /\ Watches(m)
    BY <1>4 DEF RowTypes, TakePost, Watches, HasBatch
  <2>3. Placed(m)'
    BY <1>4, <2>1, <2>2, TakePostRow DEF Placed, Watches, HasBatch
  <2>4. QED
    BY <1>1, <1>4, <2>1, <2>3, TakePostRow
<1>5. ASSUME NEW m \in Monitors, StoreSignal(m) PROVE RowTypes'
  <2>1. posts' = posts /\ 0 <= Len(posts)
    BY <1>5 DEF StoreSignal, SharedTypes
  <2>2. Placed(m) /\ Watches(m) /\ monitor[m].pc = "signal"
    BY <1>5 DEF RowTypes, StoreSignal, Watches, HasBatch
  <2>3. Placed(m)'
    BY <1>5, <2>1, <2>2, StoreSignalRow, RestingRow DEF Placed, Watches, HasBatch
  <2>4. QED
    BY <1>1, <1>5, <2>1, <2>3, StoreSignalRow
<1>6. ASSUME NEW m \in Monitors, SendAlert(m) \/ RecordAlert(m) PROVE RowTypes'
  <2>1. posts' = posts
    BY <1>6 DEF SendAlert, RecordAlert
  <2>2. Placed(m) /\ Watches(m) /\ monitor[m].pc \in {"alert", "stamp"}
    BY <1>6 DEF RowTypes, SendAlert, RecordAlert, Watches, HasBatch
  <2>3. Placed(m)'
    BY <1>6, <2>1, <2>2, AlertRow DEF Placed, Watches, HasBatch
  <2>4. QED
    BY <1>1, <1>6, <2>1, <2>3, AlertRow
<1>7. ASSUME NEW m \in Monitors, Plain(m) PROVE RowTypes'
  <2>1. posts' = posts /\ 0 <= Len(posts)
    <3>1. posts' = posts
      BY <1>7 DEF Plain, MonitorEnds, MonitorCrash, BatchDone, FetchFails, Search, StoreCandidate, EndResults, Judge
    <3>2. 0 <= Len(posts)
      BY DEF SharedTypes
    <3>3. QED
      BY <3>1, <3>2
  <2>2. Placed(m)
    BY DEF RowTypes
  <2>3. Placed(m)'
    BY <1>7, <2>1, <2>2, PlainRow, RestingRow DEF Placed, Watches, HasBatch
  <2>4. QED
    BY <1>1, <1>7, <2>1, <2>3, PlainRow
<1>8. ASSUME UNCHANGED monitor, posts' = posts \/ \E p \in Watched : Post(p) PROVE RowTypes'
  <2>1. Len(posts) <= Len(posts') /\ DOMAIN posts \subseteq DOMAIN posts' /\ Len(posts) \in Nat /\ Len(posts') \in Nat
    <3>1. CASE posts' = posts
      BY <3>1 DEF SharedTypes
    <3>2. CASE \E p \in Watched : Post(p)
      <4>1. PICK p \in Watched : posts' = Append(posts, p)
        BY <3>2 DEF Post
      <4>2. QED
        BY <4>1 DEF SharedTypes
    <3>3. QED
      BY <1>8, <3>1, <3>2
  <2>2. ASSUME NEW m \in Monitors PROVE Placed(m)'
    <3>1. Placed(m) /\ monitor[m].now \in Nat
      BY DEF RowTypes, MonitorRow
    <3>2. monitor[m].now <= Len(posts')
      BY <2>1, <3>1 DEF Placed
    <3>3. QED
      BY <1>8, <2>1, <3>1, <3>2 DEF Placed, Watches, HasBatch
  <2>3. QED
    BY <1>8, <2>2 DEF RowTypes
<1>9. ASSUME NEW p \in Watched, NEW is \in {"none", "active", "paused"}, EditProfile(p, is) PROVE RowTypes'
  BY <1>8, <1>9 DEF EditProfile
<1>10. QED
  <2>1. (\E p \in Watched : Post(p)) => UNCHANGED monitor
    BY DEF Post
  <2>2. QED
    BY <1>2, <1>3, <1>4, <1>5, <1>6, <1>7, <1>8, <1>9, <2>1, MonitorCases

(* What a step leaves of the tables.                                       *)
LEMMA SharedStep ==
  ASSUME SharedTypes, RowTypes, [MonitorNext]_monitorVars
  PROVE  SharedTypes'
<1>1. MaxMishaps \in Nat /\ Unchecked \in 0..Unchecked /\ NoProfile \in Profile /\ MaxPosts \in Nat
  BY MonitorAssumption DEF Unchecked, NoProfile, Profile
<1>2. DOMAIN posts \subseteq 1..MaxPosts /\ DOMAIN posts = 1..Len(posts) /\ Len(posts) \in Nat
  BY <1>1 DEF SharedTypes
<1>3. Mishap => mishaps' \in Nat /\ mishaps' <= MaxMishaps /\ mishaps <= mishaps'
  BY <1>1 DEF Mishap, SharedTypes
<1>4. Blunder => /\ mishaps' \in Nat /\ mishaps' <= MaxMishaps /\ monitorFaults' \in Nat /\ monitorFaults' <= mishaps'
  BY <1>1 DEF Blunder, Mishap, SharedTypes
<1> DEFINE Counts == mishaps' \in Nat /\ mishaps' <= MaxMishaps /\ monitorFaults' \in Nat /\ monitorFaults' <= mishaps'
<1>5. ASSUME UNCHANGED <<mishaps, monitorFaults>> \/ Blunder \/ (Mishap /\ UNCHANGED monitorFaults) PROVE Counts
  BY <1>3, <1>4, <1>5 DEF SharedTypes
<1>6. Kept' = {s.post : s \in signals'}
  BY DEF Kept
<1>7. CASE UNCHANGED <<posts, profiles, signals, candidates, monitor, alerts, asked, excused, mishaps, monitorFaults>>
  BY <1>6, <1>7 DEF SharedTypes, Kept
<1>8. ASSUME NEW p \in Watched, Post(p) PROVE SharedTypes'
  <2>1. posts' \in Seq(Watched \cup {0}) /\ Len(posts') <= MaxPosts /\ DOMAIN posts \subseteq DOMAIN posts'
    BY <1>1, <1>2, <1>8 DEF Post, Now, SharedTypes
  <2>2. QED
    BY <1>6, <1>8, <2>1 DEF Post, SharedTypes, Kept
<1>9. ASSUME NEW p \in Watched, NEW is \in {"none", "active", "paused"}, EditProfile(p, is) PROVE SharedTypes'
  <2>1. profiles' \in [Watched -> Profile]
    <3>1. profiles[p] \in Profile
      BY DEF SharedTypes
    <3>2. [profiles[p] EXCEPT !.is = is] \in Profile
      BY <3>1 DEF Profile
    <3>3. QED
      BY <1>1, <1>9, <3>2 DEF EditProfile, SharedTypes
  <2>2. Counts
    BY <1>5, <1>9 DEF EditProfile
  <2>3. QED
    BY <1>6, <1>9, <2>1, <2>2 DEF EditProfile, SharedTypes, Kept
<1> DEFINE Same == UNCHANGED <<posts, profiles, signals, candidates, alerts, asked>>
<1>10. ASSUME Same, Counts, excused' \subseteq DOMAIN posts PROVE SharedTypes'
  BY <1>6, <1>10 DEF SharedTypes, Kept
<1>11. ASSUME NEW m \in Monitors, Starts(m) PROVE SharedTypes'
  <2>1. Same /\ excused' = excused
    BY <1>11 DEF Starts, StartMonitor, StartSearch
  <2>2. Counts
    BY <1>5, <1>11 DEF Starts, StartMonitor, StartSearch, Begin
  <2>3. QED
    BY <1>10, <2>1, <2>2 DEF SharedTypes
<1>12. ASSUME NEW m \in Monitors, Fetch(m) PROVE SharedTypes'
  <2>1. Same /\ UNCHANGED <<mishaps, monitorFaults>>
    BY <1>12 DEF Fetch
  <2> DEFINE past == UNION {{i \in By(p) : \/ profiles[p].checked = Unchecked /\ i <= Since(FirstOf(monitor[m].left, PerBatch), monitor[m].now)
                                         \/ Cardinality({j \in By(p) : j > i}) >= PerSource} : p \in FirstOf(monitor[m].left, PerBatch)}
  <2>2. excused' \subseteq DOMAIN posts
    <3>1. past \subseteq DOMAIN posts
      BY DEF By
    <3>2. excused' = excused \/ excused' = excused \cup past
      BY <1>12 DEF Fetch
    <3> HIDE DEF past
    <3>3. QED
      BY <3>1, <3>2 DEF SharedTypes
  <2>3. QED
    BY <1>5, <1>10, <2>1, <2>2
<1>13. ASSUME NEW m \in Monitors, NEW i \in DOMAIN posts, TakePost(m, i) PROVE SharedTypes'
  <2>1. Same /\ UNCHANGED <<mishaps, monitorFaults, excused>>
    BY <1>13 DEF TakePost
  <2>2. QED
    BY <1>5, <1>10, <2>1 DEF SharedTypes
<1>14. ASSUME NEW m \in Monitors, StoreSignal(m) PROVE SharedTypes'
  <2>1. UNCHANGED <<posts, profiles, candidates, alerts, asked, excused, mishaps, monitorFaults>>
    BY <1>14 DEF StoreSignal
  <2>2. monitor[m].post \in DOMAIN posts /\ monitor[m].action \in Action /\ DOMAIN posts \subseteq Nat
    BY <1>2, <1>14 DEF RowTypes, Placed, StoreSignal, MonitorRow
  <2> DEFINE new == [post |-> monitor[m].post, action |-> monitor[m].action, alerted |-> FALSE]
  <2>3. new \in LinkedinMonitorSignal /\ new.post \in DOMAIN posts
    BY <2>2 DEF LinkedinMonitorSignal
  <2>4. signals' = signals \/ signals' = signals \cup {new}
    BY <1>14, StoreSignalRow
  <2> HIDE DEF new
  <2>5. signals' \subseteq LinkedinMonitorSignal /\ \A s \in signals' : s.post \in DOMAIN posts
    BY <2>3, <2>4 DEF SharedTypes, Kept
  <2>6. QED
    BY <1>6, <2>1, <2>5 DEF SharedTypes
<1>15. ASSUME NEW m \in Monitors, SendAlert(m) PROVE SharedTypes'
  <2>1. UNCHANGED <<posts, profiles, signals, candidates, asked, excused>>
    BY <1>15 DEF SendAlert
  <2>2. alerts' \in [1..MaxPosts -> Nat]
    <3>1. monitor[m].post \in 1..MaxPosts
      BY <1>2, <1>15 DEF RowTypes, Placed, SendAlert
    <3>2. alerts' = alerts \/ alerts' = [alerts EXCEPT ![monitor[m].post] = @ + 1]
      BY <1>15 DEF SendAlert
    <3>3. QED
      BY <3>1, <3>2 DEF SharedTypes
  <2>3. Counts
    <3>1. UNCHANGED <<mishaps, monitorFaults>> \/ Blunder
      BY <1>15 DEF SendAlert
    <3>2. QED
      BY <1>5, <3>1
  <2>4. QED
    BY <1>6, <2>1, <2>2, <2>3 DEF SharedTypes, Kept
<1>16. ASSUME NEW m \in Monitors, RecordAlert(m) PROVE SharedTypes'
  <2>1. UNCHANGED <<posts, profiles, candidates, alerts, asked, excused, mishaps, monitorFaults>>
    BY <1>16 DEF RecordAlert
  <2>2. ASSUME NEW t \in signals' PROVE t \in LinkedinMonitorSignal /\ t.post \in DOMAIN posts
    <3>1. PICK s \in signals : t = IF s.post = monitor[m].post THEN [s EXCEPT !.alerted = TRUE] ELSE s
      BY <1>16, <2>2 DEF RecordAlert
    <3>2. s \in LinkedinMonitorSignal /\ s.post \in DOMAIN posts
      BY DEF SharedTypes, Kept
    <3>3. [s EXCEPT !.alerted = TRUE] \in LinkedinMonitorSignal /\ [s EXCEPT !.alerted = TRUE].post = s.post
      BY <3>2 DEF LinkedinMonitorSignal
    <3>4. QED
      BY <3>1, <3>2, <3>3
  <2>3. QED
    BY <1>6, <2>1, <2>2 DEF SharedTypes
<1>17. ASSUME NEW m \in Monitors, Plain(m) PROVE SharedTypes'
  <2>1. CASE BatchDone(m)
    <3>1. UNCHANGED <<posts, signals, candidates, alerts, asked, excused, mishaps, monitorFaults>>
      BY <2>1 DEF BatchDone
    <3>2. monitor[m].now \in 0..Unchecked
      <4>1. monitor[m].now \in Nat /\ monitor[m].now <= Len(posts)
        BY DEF RowTypes, Placed, MonitorRow
      <4>2. Len(posts) <= MaxPosts
        BY DEF SharedTypes
      <4>3. QED
        BY <1>1, <1>2, <4>1, <4>2 DEF Unchecked
    <3>3. \A p \in Watched : [profiles[p] EXCEPT !.checked = monitor[m].now] \in Profile
      BY <3>2 DEF SharedTypes, Profile
    <3>4. profiles' \in [Watched -> Profile]
      BY <2>1, <3>3 DEF BatchDone, Stamp, SharedTypes
    <3>5. QED
      BY <1>6, <3>1, <3>4 DEF SharedTypes, Kept
  <2>2. CASE MonitorEnds(m) \/ MonitorCrash(m) \/ FetchFails(m) \/ Search(m) \/ EndResults(m)
    <3>1. Same /\ excused' = excused
      BY <2>2 DEF MonitorEnds, MonitorCrash, FetchFails, FailBatch, Search, EndResults
    <3>2. Counts
      <4>1. UNCHANGED <<mishaps, monitorFaults>> \/ Blunder
        BY <2>2 DEF MonitorEnds, MonitorCrash, FetchFails, Search, EndResults
      <4>2. QED
        BY <1>5, <4>1
    <3>3. QED
      BY <1>10, <3>1, <3>2 DEF SharedTypes
  <2>3. CASE StoreCandidate(m)
    <3>1. UNCHANGED <<posts, profiles, signals, alerts, asked, excused, mishaps, monitorFaults>>
      BY <2>3 DEF StoreCandidate
    <3>2. monitor[m].post \in 1..MaxPosts
      BY <1>2, <2>3 DEF RowTypes, Placed, StoreCandidate
    <3>3. [post |-> monitor[m].post, after |-> asked[monitor[m].post]] \in ReverseDiscoveryCandidate
      BY <3>2 DEF ReverseDiscoveryCandidate, SharedTypes
    <3>4. candidates' \subseteq ReverseDiscoveryCandidate
      BY <2>3, <3>3 DEF StoreCandidate, SharedTypes
    <3>5. QED
      BY <1>6, <3>1, <3>4 DEF SharedTypes, Kept
  <2>4. CASE \E i \in DOMAIN posts : Judge(m, i)
    <3>1. PICK i \in DOMAIN posts : Judge(m, i)
      BY <2>4
    <3>2. UNCHANGED <<posts, profiles, signals, candidates, alerts, excused, mishaps, monitorFaults>>
      BY <3>1 DEF Judge
    <3>3. asked' = asked \/ asked' = [asked EXCEPT ![i] = IF @ < 3 THEN @ + 1 ELSE @]
      BY <3>1 DEF Judge
    <3>4. asked' \in [1..MaxPosts -> Nat]
      BY <1>2, <3>3 DEF SharedTypes
    <3>5. QED
      BY <1>6, <3>2, <3>4 DEF SharedTypes, Kept
  <2>5. QED
    BY <1>17, <2>1, <2>2, <2>3, <2>4 DEF Plain
<1>18. QED
  BY <1>7, <1>8, <1>9, <1>11, <1>12, <1>13, <1>14, <1>15, <1>16, <1>17, MonitorCases

(* What the steps leave alone.                                             *)
LEMMA Leaves ==
  ASSUME NEW m
  PROVE  /\ Starts(m) => UNCHANGED <<posts, profiles, signals, candidates, alerts, asked, excused>>
         /\ Fetch(m) => UNCHANGED <<posts, profiles, signals, candidates, alerts, asked, mishaps, monitorFaults>>
         /\ \A i : TakePost(m, i) => UNCHANGED <<posts, profiles, signals, candidates, alerts, asked, excused>>
         /\ StoreSignal(m) => UNCHANGED <<posts, profiles, candidates, alerts, asked, excused>>
         /\ SendAlert(m) => UNCHANGED <<posts, profiles, signals, candidates, asked, excused>>
         /\ RecordAlert(m) => UNCHANGED <<posts, profiles, candidates, alerts, asked, excused>>
         /\ Plain(m) => UNCHANGED <<posts, signals, alerts, excused>> /\ (UNCHANGED profiles \/ BatchDone(m))
<1>1. Starts(m) => UNCHANGED <<posts, profiles, signals, candidates, alerts, asked, excused>>
  BY DEF Starts, StartMonitor, StartSearch
<1>2. Fetch(m) => UNCHANGED <<posts, profiles, signals, candidates, alerts, asked, mishaps, monitorFaults>>
  BY DEF Fetch
<1>3. /\ \A i : TakePost(m, i) => UNCHANGED <<posts, profiles, signals, candidates, alerts, asked, excused>>
      /\ StoreSignal(m) => UNCHANGED <<posts, profiles, candidates, alerts, asked, excused>>
      /\ SendAlert(m) => UNCHANGED <<posts, profiles, signals, candidates, asked, excused>>
      /\ RecordAlert(m) => UNCHANGED <<posts, profiles, candidates, alerts, asked, excused>>
  BY DEF TakePost, StoreSignal, SendAlert, RecordAlert
<1>4. Plain(m) => UNCHANGED <<posts, signals, alerts, excused>> /\ (UNCHANGED profiles \/ BatchDone(m))
  BY DEF Plain, MonitorEnds, MonitorCrash, BatchDone, FetchFails, FailBatch, Search, StoreCandidate, EndResults, Judge
<1>5. QED
  BY <1>1, <1>2, <1>3, <1>4

(* What is kept or excused stays so, and a step adds posts at the end only. *)
LEMMA MonitorGrows ==
  ASSUME SharedTypes, RowTypes, [MonitorNext]_monitorVars
  PROVE  /\ Kept \subseteq Kept' /\ excused \subseteq excused' /\ Len(posts) <= Len(posts') /\ Len(posts) \in Nat
         /\ \A q \in Watched : \A i \in By(q)' : i <= Len(posts) => i \in By(q)
<1>1. Len(posts) \in Nat /\ DOMAIN posts = 1..Len(posts)
  BY DEF SharedTypes
<1>2. Kept' = {s.post : s \in signals'} /\ Kept = {s.post : s \in signals}
  BY DEF Kept
<1>3. CASE posts' = posts
  <2>1. \A q \in Watched : By(q)' = By(q)
    BY <1>3 DEF By
  <2>2. excused \subseteq excused'
    <3>1. excused' = excused \/ \E m \in Monitors : Fetch(m)
      BY MonitorCases, Leaves DEF Post, EditProfile
    <3>2. ASSUME NEW m \in Monitors, Fetch(m) PROVE excused \subseteq excused'
      BY <3>2 DEF Fetch
    <3>3. QED
      BY <3>1, <3>2
  <2>3. Kept \subseteq Kept'
    <3>1. signals' = signals \/ (\E m \in Monitors : StoreSignal(m)) \/ (\E m \in Monitors : RecordAlert(m))
      BY MonitorCases, Leaves DEF Post, EditProfile
    <3>2. ASSUME NEW m \in Monitors, StoreSignal(m) PROVE signals \subseteq signals'
      BY <3>2, StoreSignalRow
    <3>3. ASSUME NEW m \in Monitors, RecordAlert(m) PROVE Kept \subseteq Kept'
      <4>1. ASSUME NEW s \in signals PROVE \E t \in signals' : t.post = s.post
        <5>1. (IF s.post = monitor[m].post THEN [s EXCEPT !.alerted = TRUE] ELSE s) \in signals'
          BY <3>3 DEF RecordAlert
        <5>2. s \in LinkedinMonitorSignal
          BY DEF SharedTypes
        <5>3. [s EXCEPT !.alerted = TRUE].post = s.post
          BY <5>2 DEF LinkedinMonitorSignal
        <5>4. QED
          BY <5>1, <5>3
      <4>2. QED
        BY <1>2, <4>1
    <3>4. QED
      BY <1>2, <3>1, <3>2, <3>3
  <2>4. QED
    BY <1>1, <1>3, <2>1, <2>2, <2>3
<1>4. CASE posts' # posts
  <2>1. PICK p \in Watched : Post(p)
    BY <1>4, MonitorCases, Leaves DEF EditProfile
  <2>2. Kept' = Kept /\ excused' = excused /\ posts' = Append(posts, p)
    BY <1>2, <2>1 DEF Post
  <2>3. /\ Len(posts') = Len(posts) + 1 /\ DOMAIN posts' = 1..Len(posts) + 1
        /\ \A i \in 1..Len(posts) : posts'[i] = posts[i]
    BY <2>2 DEF SharedTypes
  <2>4. \A q \in Watched : \A i \in By(q)' : i <= Len(posts) => i \in By(q)
    BY <1>1, <2>3 DEF By
  <2>5. QED
    BY <1>1, <2>2, <2>3, <2>4
<1>5. QED
  BY <1>3, <1>4

(* How a step may move the stamp of a profile.                             *)
LEMMA StampMoves ==
  ASSUME SharedTypes, RowTypes, [MonitorNext]_monitorVars, NEW q \in Watched
  PROVE  \/ profiles'[q].checked = Unchecked
         \/ profiles'[q].checked = profiles[q].checked /\ (profiles'[q].is = "none" => profiles[q].is = "none")
         \/ /\ profiles'[q].is # "none"
            /\ \E m \in Monitors : /\ monitor[m].pc = "posts" /\ monitor[m].found = {} /\ q \in monitor[m].batch
                                   /\ profiles'[q].checked = monitor[m].now
<1>1. profiles[q] \in Profile
  BY DEF SharedTypes
<1>2. CASE UNCHANGED profiles
  BY <1>2
<1>3. ASSUME NEW p \in Watched, NEW is \in {"none", "active", "paused"}, EditProfile(p, is)
      PROVE  \/ profiles'[q].checked = Unchecked
             \/ profiles'[q].checked = profiles[q].checked /\ (profiles'[q].is = "none" => profiles[q].is = "none")
  <2>1. CASE q # p
    BY <1>3, <2>1 DEF EditProfile, SharedTypes
  <2>2. CASE q = p /\ is = "none"
    BY <1>3, <2>2 DEF EditProfile, SharedTypes, NoProfile
  <2>3. CASE q = p /\ is # "none"
    <3>1. profiles'[q] = [profiles[q] EXCEPT !.is = is]
      BY <1>3, <2>3 DEF EditProfile, SharedTypes
    <3>2. QED
      BY <1>1, <2>3, <3>1 DEF Profile
  <2>4. QED
    BY <2>1, <2>2, <2>3
<1>4. ASSUME NEW m \in Monitors, BatchDone(m), profiles' # profiles
      PROVE  \/ profiles'[q] = profiles[q]
             \/ /\ profiles'[q].is # "none" /\ monitor[m].pc = "posts" /\ monitor[m].found = {} /\ q \in monitor[m].batch
                /\ profiles'[q].checked = monitor[m].now
  <2>1. /\ \A p \in monitor[m].batch : profiles[p].is # "none"
        /\ profiles' = [p \in Watched |-> IF p \in monitor[m].batch THEN [profiles[p] EXCEPT !.checked = monitor[m].now] ELSE profiles[p]]
        /\ monitor[m].pc = "posts" /\ monitor[m].found = {}
    BY <1>4 DEF BatchDone, Stamp
  <2>2. CASE q \in monitor[m].batch
    <3>1. profiles'[q] = [profiles[q] EXCEPT !.checked = monitor[m].now] /\ profiles[q].is # "none"
      BY <2>1, <2>2
    <3>2. QED
      BY <1>1, <2>1, <2>2, <3>1 DEF Profile
  <2>3. CASE q \notin monitor[m].batch
    BY <2>1, <2>3
  <2>4. QED
    BY <2>2, <2>3
<1>5. \/ UNCHANGED profiles \/ (\E p \in Watched, is \in {"none", "active", "paused"} : EditProfile(p, is))
      \/ (\E m \in Monitors : BatchDone(m))
  BY MonitorCases, Leaves DEF Post
<1>6. QED
  BY <1>2, <1>3, <1>4, <1>5

LEMMA StampsStep ==
  ASSUME SharedTypes, RowTypes, StampsPast, SeenInv, PostKept, [MonitorNext]_monitorVars
  PROVE  StampsPast' /\ PostKept'
<1>1. Unchecked' = Unchecked
  BY DEF Unchecked
<1>2. /\ Kept \subseteq Kept' /\ excused \subseteq excused' /\ Len(posts) <= Len(posts') /\ Len(posts) \in Nat
      /\ Len(posts') \in Nat
      /\ \A q \in Watched : \A i \in By(q)' : i <= Len(posts) => i \in By(q)
  BY MonitorGrows, SharedStep DEF SharedTypes
<1>3. \A q \in Watched : profiles[q].checked \in Nat
  BY MonitorAssumption DEF SharedTypes, Profile, Unchecked
<1>4. \A m \in Monitors : monitor[m].now \in Nat /\ monitor[m].now <= Len(posts)
  BY DEF RowTypes, Placed, MonitorRow
<1>5. ASSUME NEW q \in Watched
      PROVE  /\ profiles'[q].checked = Unchecked \/ profiles'[q].checked <= Len(posts)
             /\ profiles'[q].is = "none" => profiles'[q].checked = Unchecked
  BY <1>4, StampMoves DEF StampsPast
<1>6. \A q \in Watched : profiles'[q].checked = Unchecked \/ profiles'[q].checked <= Len(posts')
  <2>1. ASSUME NEW q \in Watched, profiles'[q].checked <= Len(posts) PROVE profiles'[q].checked <= Len(posts')
    <3>1. profiles'[q].checked \in Nat
      BY SharedStep, MonitorAssumption DEF SharedTypes, Profile, Unchecked
    <3>2. QED
      BY <1>2, <2>1, <3>1
  <2>2. QED
    BY <1>5, <2>1
<1>7. StampsPast'
  BY <1>1, <1>5, <1>6 DEF StampsPast
<1>8. ASSUME NEW q \in Watched, NEW i \in By(q)', profiles'[q].is # "none", profiles'[q].checked # Unchecked,
             i <= profiles'[q].checked
      PROVE  i \in (Kept \cup excused)'
  <2>1. i \in Nat /\ profiles'[q].checked \in Nat
    <3>1. posts' \in Seq(Watched \cup {0}) /\ profiles' \in [Watched -> Profile]
      BY SharedStep DEF SharedTypes
    <3>2. i \in Nat
      BY <1>8, <3>1 DEF By
    <3>3. profiles'[q].checked \in Nat
      BY <3>1, MonitorAssumption DEF Profile, Unchecked
    <3>4. QED
      BY <3>2, <3>3
  <2>2. i \in By(q)
    BY <1>2, <1>5, <1>8, <2>1
  <2>3. CASE profiles'[q].checked = profiles[q].checked /\ (profiles'[q].is = "none" => profiles[q].is = "none")
    <3>1. profiles[q].is # "none"
      BY <1>8, <2>3 DEF StampsPast
    <3>2. i \in Kept \cup excused
      BY <1>8, <2>2, <2>3, <3>1 DEF PostKept
    <3>3. QED
      BY <1>2, <3>2
  <2>4. ASSUME NEW m \in Monitors, monitor[m].pc = "posts", monitor[m].found = {}, q \in monitor[m].batch,
               profiles'[q].checked = monitor[m].now
        PROVE  i \in Kept \cup excused
    BY <1>8, <2>2, <2>4 DEF SeenInv, HasBatch, Seen
  <2>5. QED
    BY <1>2, <1>8, <2>3, <2>4, StampMoves
<1>9. PostKept'
  BY <1>1, <1>8 DEF PostKept
<1>10. QED
  BY <1>7, <1>9

(* A fetch asks from the oldest stamp of its batch on, or further back.    *)
LEMMA SinceTheOldest ==
  ASSUME SharedTypes, NEW batch \in SUBSET Watched, NEW now \in Nat
  PROVE  /\ Since(batch, now) \in Nat
         /\ \A p \in batch : profiles[p].checked # Unchecked => Since(batch, now) <= profiles[p].checked
<1> DEFINE cutoffs == {profiles[p].checked : p \in {q \in batch : profiles[q].checked # Unchecked}}
<1>1. cutoffs \in SUBSET Nat
  BY MonitorAssumption DEF SharedTypes, Profile, Unchecked
<1>2. Lookback \in Nat
  BY MonitorAssumption
<1>3. CASE cutoffs # {}
  <2>1. Since(batch, now) = Least(cutoffs)
    BY <1>3 DEF Since
  <2>2. Least(cutoffs) \in cutoffs /\ \A q \in cutoffs : Least(cutoffs) <= q
    BY <1>1, <1>3, LeastIsLeast
  <2>3. \A p \in batch : profiles[p].checked # Unchecked => profiles[p].checked \in cutoffs
    OBVIOUS
  <2> HIDE DEF cutoffs
  <2>4. QED
    BY <1>1, <2>1, <2>2, <2>3
<1>4. CASE cutoffs = {}
  <2>1. Since(batch, now) = IF now > Lookback THEN now - Lookback ELSE 0
    BY <1>4 DEF Since
  <2>2. \A p \in batch : profiles[p].checked = Unchecked
    BY <1>4
  <2>3. QED
    BY <1>2, <2>1, <2>2
<1>5. QED
  BY <1>3, <1>4

LEMMA FetchSees ==
  ASSUME SharedTypes, RowTypes, PostKept, NEW m \in Monitors, Fetch(m), HasBatch(m)',
         NEW p \in monitor'[m].batch, NEW i \in By(p)
  PROVE  i \in Kept \cup excused' \cup monitor'[m].found
<1> DEFINE batch == FirstOf(monitor[m].left, PerBatch)
           since == Since(batch, monitor[m].now)
<1>1. monitor[m].left \subseteq Watched /\ monitor[m].now \in Nat /\ batch \subseteq monitor[m].left
  BY FirstOfSubset DEF Fetch, RowTypes, Placed, Watches, MonitorRow
<1>2. monitor'[m].batch = batch /\ monitor'[m].found = UNION {Returned(q, since) : q \in batch}
  BY FetchRow, RestingRow DEF HasBatch
<1>3. p \in batch /\ p \in Watched
  BY <1>1, <1>2
<1>4. \A q \in batch : profiles[q].is # "none"
  <2>1. CASE ~(\A q \in batch : profiles[q].is # "none")
    <3>1. monitor' = [monitor EXCEPT ![m] = Resting]
      BY <2>1 DEF Fetch
    <3>2. monitor'[m] = Resting
      BY <3>1 DEF RowTypes
    <3>3. QED
      BY <3>2, RestingRow DEF HasBatch
  <2>2. QED
    BY <2>1
<1> DEFINE Beyond(q, j) == Cardinality({k \in By(q) : k > j}) >= PerSource
           past == UNION {{j \in By(q) : (profiles[q].checked = Unchecked /\ j <= since) \/ Beyond(q, j)} : q \in batch}
<1>5. excused' = excused \cup past
  BY <1>4 DEF Fetch
<1>6. since \in Nat /\ (profiles[p].checked # Unchecked => since <= profiles[p].checked)
  BY <1>1, <1>3, SinceTheOldest
<1>7. i \in Nat /\ posts \in Seq(Watched \cup {0}) /\ profiles[p].checked \in Nat
  BY <1>3, MonitorAssumption DEF SharedTypes, Profile, Unchecked, By
<1>8. CASE i > since
  <2>1. i \in Returned(p, since) \/ Beyond(p, i)
    <3> HIDE DEF since
    <3>1. QED
      BY <1>3, <1>6, <1>7, <1>8, ReturnedOrExcused
  <2>2. CASE i \in Returned(p, since)
    BY <1>2, <1>3, <2>2
  <2>3. CASE Beyond(p, i)
    <3> HIDE DEF Beyond, since, batch
    <3>1. i \in past
      BY <1>3, <2>3
    <3>2. QED
      BY <1>5, <3>1
  <2>4. QED
    BY <2>1, <2>2, <2>3
<1>9. CASE ~(i > since)
  <2>1. i <= since
    BY <1>6, <1>7, <1>9
  <2>2. CASE profiles[p].checked = Unchecked
    <3>1. i \in past
      BY <1>3, <2>1, <2>2
    <3>2. QED
      BY <1>5, <3>1
  <2>3. CASE profiles[p].checked # Unchecked
    <3>1. i <= profiles[p].checked
      BY <1>6, <1>7, <2>1, <2>3
    <3>2. i \in Kept \cup excused
      BY <1>3, <1>4, <2>3, <3>1 DEF PostKept
    <3>3. QED
      BY <1>5, <3>2
  <2>4. QED
    BY <2>2, <2>3
<1>10. QED
  BY <1>8, <1>9

LEMMA SeenStep ==
  ASSUME SharedTypes, RowTypes, PostKept, SeenInv, [MonitorNext]_monitorVars
  PROVE  SeenInv'
<1>1. /\ Kept \subseteq Kept' /\ excused \subseteq excused'
      /\ \A q \in Watched : \A i \in By(q)' : i <= Len(posts) => i \in By(q)
  BY MonitorGrows
<1>2. SUFFICES ASSUME NEW n \in Monitors, HasBatch(n)', NEW p \in monitor'[n].batch, NEW i \in By(p)', i <= monitor'[n].now
               PROVE  Seen(n, i)'
  BY DEF SeenInv
<1>3. /\ monitor'[n].batch \subseteq Watched /\ monitor'[n].now \in Nat
      /\ monitor[n].now \in Nat /\ monitor[n].now <= Len(posts) /\ Len(posts) \in Nat
  BY RowTypesStep DEF RowTypes, MonitorRow, Placed, SharedTypes
<1>4. i \in Nat
  <2>1. posts' \in Seq(Watched \cup {0})
    BY SharedStep DEF SharedTypes
  <2>2. QED
    BY <2>1 DEF By
<1>5. ASSUME monitor'[n].now = monitor[n].now PROVE i \in By(p)
  <2>1. i <= Len(posts)
    BY <1>2, <1>3, <1>4, <1>5
  <2>2. QED
    BY <1>1, <1>3, <2>1
<1>6. ASSUME monitor'[n].now = monitor[n].now, monitor'[n].batch = monitor[n].batch, HasBatch(n) PROVE Seen(n, i)
  BY <1>2, <1>5, <1>6 DEF SeenInv
<1>7. CASE monitor'[n] = monitor[n]
  <2>1. HasBatch(n) /\ Seen(n, i)
    BY <1>2, <1>6, <1>7 DEF HasBatch
  <2>2. QED
    BY <1>1, <1>7, <2>1 DEF Seen
<1>8. ASSUME Starts(n) \/ Plain(n) PROVE FALSE
  BY <1>2, <1>8, StartRow, PlainRow, RestingRow DEF HasBatch
<1>9. ASSUME Fetch(n) PROVE Seen(n, i)'
  <2>1. monitor'[n].now = monitor[n].now
    BY <1>2, <1>9, FetchRow, RestingRow DEF HasBatch
  <2>2. i \in Kept \cup excused' \cup monitor'[n].found
    BY <1>2, <1>5, <1>9, <2>1, FetchSees
  <2>3. QED
    BY <1>1, <2>2 DEF Seen
<1>10. ASSUME NEW j \in DOMAIN posts, TakePost(n, j) PROVE Seen(n, i)'
  <2>1. HasBatch(n) /\ monitor[n].pc = "posts"
    BY <1>10 DEF TakePost, HasBatch
  <2>2. Seen(n, i)
    BY <1>6, <1>10, <2>1, TakePostRow
  <2>3. i \in Kept \cup excused \cup monitor[n].found
    BY <2>1, <2>2 DEF Seen
  <2>4. monitor'[n].found = monitor[n].found \ {j} /\ (j \in Kept \/ (monitor'[n].pc = "signal" /\ monitor'[n].post = j))
    BY <1>10, TakePostRow
  <2>5. QED
    BY <1>1, <2>3, <2>4 DEF Seen
<1>11. ASSUME StoreSignal(n) PROVE Seen(n, i)'
  <2>1. HasBatch(n) /\ monitor'[n] # Resting
    BY <1>2, <1>11, RestingRow DEF StoreSignal, HasBatch
  <2>2. monitor[n].post \in Kept'
    <3>1. \E s \in signals' : s.post = monitor[n].post
      <4>1. signals' = signals \cup {[post |-> monitor[n].post, action |-> monitor[n].action, alerted |-> FALSE]}
        BY <1>11, <2>1, StoreSignalRow
      <4>2. [post |-> monitor[n].post, action |-> monitor[n].action, alerted |-> FALSE] \in signals'
        BY <4>1
      <4>3. QED
        BY <4>2
    <3>2. Kept' = {s.post : s \in signals'}
      BY DEF Kept
    <3>3. QED
      BY <3>1, <3>2
  <2>3. monitor'[n].now = monitor[n].now /\ monitor'[n].batch = monitor[n].batch /\ monitor'[n].found = monitor[n].found
    BY <1>11, <2>1, StoreSignalRow
  <2>4. Seen(n, i)
    BY <1>6, <2>1, <2>3
  <2>5. QED
    BY <1>1, <2>2, <2>3, <2>4 DEF Seen
<1>12. ASSUME SendAlert(n) \/ RecordAlert(n) PROVE Seen(n, i)'
  <2>1. HasBatch(n) /\ monitor[n].pc # "signal"
    BY <1>12 DEF SendAlert, RecordAlert, HasBatch
  <2>2. monitor'[n].now = monitor[n].now /\ monitor'[n].batch = monitor[n].batch /\ monitor'[n].found = monitor[n].found
    BY <1>12, AlertRow
  <2>3. Seen(n, i)
    BY <1>6, <2>1, <2>2
  <2>4. QED
    BY <1>1, <2>1, <2>2, <2>3 DEF Seen
<1>13. monitor'[n] = monitor[n] \/ Starts(n) \/ Plain(n) \/ Fetch(n) \/ StoreSignal(n) \/ SendAlert(n) \/ RecordAlert(n)
       \/ \E j \in DOMAIN posts : TakePost(n, j)
  <2>1. ASSUME NEW m \in Monitors, m # n,
               \/ Starts(m) \/ Fetch(m) \/ StoreSignal(m) \/ SendAlert(m) \/ RecordAlert(m) \/ Plain(m)
               \/ \E j \in DOMAIN posts : TakePost(m, j)
        PROVE  monitor'[n] = monitor[n]
    BY <2>1, StartRow, FetchRow, StoreSignalRow, AlertRow, PlainRow, TakePostRow
  <2>2. (\E q \in Watched : Post(q)) => monitor' = monitor
    BY DEF Post
  <2>3. (\E q \in Watched, is \in {"none", "active", "paused"} : EditProfile(q, is)) => monitor' = monitor
    BY DEF EditProfile
  <2>4. QED
    BY <2>1, <2>2, <2>3, MonitorCases
<1>14. QED
  BY <1>7, <1>8, <1>9, <1>10, <1>11, <1>12, <1>13

(* Who comes to, stays at and leaves the alert of a post.                  *)
LEMMA AlertMoves ==
  ASSUME SharedTypes, RowTypes, [MonitorNext]_monitorVars
  PROVE  \/ /\ UNCHANGED alerts
            /\ \A n \in Monitors : Alerts(n)' => Alerts(n) /\ monitor'[n].pc = monitor[n].pc /\ monitor'[n].post = monitor[n].post
         \/ \E m \in Monitors : StoreSignal(m) \/ SendAlert(m)
<1> DEFINE Quiet == /\ UNCHANGED alerts
                    /\ \A n \in Monitors : Alerts(n)' => /\ Alerts(n) /\ monitor'[n].pc = monitor[n].pc
                                                         /\ monitor'[n].post = monitor[n].post
<1>1. ASSUME UNCHANGED alerts, UNCHANGED monitor PROVE Quiet
  BY <1>1 DEF Alerts
<1>2. ASSUME NEW m \in Monitors, UNCHANGED alerts, \A n \in Monitors : n # m => monitor'[n] = monitor[n], ~Alerts(m)'
      PROVE  Quiet
  BY <1>2 DEF Alerts
<1>3. ASSUME NEW m \in Monitors, Starts(m) \/ Fetch(m) \/ Plain(m) \/ (\E i \in DOMAIN posts : TakePost(m, i))
      PROVE  Quiet
  <2>1. UNCHANGED alerts
    BY <1>3, Leaves
  <2>2. \A n \in Monitors : n # m => monitor'[n] = monitor[n]
    BY <1>3, StartRow, FetchRow, PlainRow, TakePostRow
  <2>3. ~Alerts(m)'
    BY <1>3, StartRow, FetchRow, PlainRow, TakePostRow, RestingRow DEF Alerts
  <2>4. QED
    BY <1>2, <2>1, <2>2, <2>3
<1>4. ASSUME NEW m \in Monitors, RecordAlert(m) PROVE Quiet
  <2>1. Follow(m, "posts") /\ "posts" \in MonitorSteps
    BY <1>4 DEF RecordAlert, MonitorSteps
  <2>2. ~Alerts(m)' /\ \A n \in Monitors : n # m => monitor'[n] = monitor[n]
    BY <2>1, FollowRow DEF Alerts
  <2>3. QED
    BY <1>2, <1>4, <2>2, Leaves
<1>5. QED
  BY <1>1, <1>3, <1>4, MonitorCases DEF Post, EditProfile

LEMMA AlertStep ==
  ASSUME SharedTypes, RowTypes, AlertInv, [MonitorNext]_monitorVars
  PROVE  AlertInv'
<1>1. Kept \subseteq Kept' /\ DOMAIN posts \subseteq 1..MaxPosts /\ alerts \in [1..MaxPosts -> Nat]
  <2>1. Kept \subseteq Kept'
    BY MonitorGrows
  <2>2. MaxPosts \in Nat /\ alerts \in [1..MaxPosts -> Nat]
    BY MonitorAssumption DEF SharedTypes
  <2>3. DOMAIN posts = 1..Len(posts) /\ Len(posts) \in Nat /\ Len(posts) <= MaxPosts
    BY DEF SharedTypes
  <2>4. QED
    BY <2>1, <2>2, <2>3
<1>2. ASSUME UNCHANGED alerts,
             \A n \in Monitors : Alerts(n)' => Alerts(n) /\ monitor'[n].pc = monitor[n].pc /\ monitor'[n].post = monitor[n].post
      PROVE  AlertInv'
  BY <1>1, <1>2 DEF AlertInv
<1>3. ASSUME NEW m \in Monitors, StoreSignal(m) PROVE AlertInv'
  <2>1. UNCHANGED alerts /\ \A n \in Monitors : n # m => monitor'[n] = monitor[n]
    BY <1>3, Leaves, StoreSignalRow
  <2>2. CASE ~Alerts(m)'
    BY <1>2, <2>1, <2>2 DEF Alerts
  <2>3. CASE Alerts(m)'
    <3>1. /\ monitor[m].post \notin Kept /\ monitor'[m].pc = "alert" /\ monitor'[m].post = monitor[m].post
          /\ signals' = signals \cup {[post |-> monitor[m].post, action |-> monitor[m].action, alerted |-> FALSE]}
      BY <1>3, <2>3, StoreSignalRow, RestingRow DEF Alerts
    <3>2. monitor[m].post \in 1..MaxPosts
      BY <1>1, <1>3 DEF StoreSignal, RowTypes, Placed
    <3>3. alerts[monitor[m].post] = 0
      BY <3>1, <3>2 DEF AlertInv
    <3>4. monitor[m].post \in Kept'
      <4>1. [post |-> monitor[m].post, action |-> monitor[m].action, alerted |-> FALSE] \in signals'
        BY <3>1
      <4>2. \E s \in signals' : s.post = monitor[m].post
        BY <4>1
      <4>3. Kept' = {s.post : s \in signals'}
        BY DEF Kept
      <4>4. QED
        BY <4>2, <4>3
    <3>5. \A n \in Monitors : n # m /\ Alerts(n) => monitor[n].post # monitor[m].post
      BY <3>1 DEF AlertInv
    <3>6. \A i \in 1..MaxPosts : alerts'[i] <= 1 /\ (alerts'[i] # 0 => i \in Kept')
      BY <1>1, <2>1 DEF AlertInv
    <3>7. \A n \in Monitors : Alerts(n)' =>
            monitor'[n].post \in Kept' /\ alerts'[monitor'[n].post] = IF monitor'[n].pc = "alert" THEN 0 ELSE 1
      <4>1. ASSUME NEW n \in Monitors, n # m, Alerts(n)'
            PROVE  monitor'[n].post \in Kept' /\ alerts'[monitor'[n].post] = IF monitor'[n].pc = "alert" THEN 0 ELSE 1
        BY <1>1, <2>1, <4>1 DEF AlertInv, Alerts
      <4>2. QED
        BY <2>1, <3>1, <3>3, <3>4, <4>1
    <3>8. \A n, k \in Monitors : Alerts(n)' /\ Alerts(k)' /\ monitor'[n].post = monitor'[k].post => n = k
      BY <2>1, <3>1, <3>5 DEF AlertInv, Alerts
    <3>9. QED
      BY <3>6, <3>7, <3>8 DEF AlertInv
  <2>4. QED
    BY <2>2, <2>3
<1>4. ASSUME NEW m \in Monitors, SendAlert(m) PROVE AlertInv'
  <2>1. /\ Kept' = Kept /\ Alerts(m) /\ monitor[m].pc = "alert" /\ monitor[m].post \in 1..MaxPosts
        /\ \A n \in Monitors : n # m => monitor'[n] = monitor[n]
    BY <1>1, <1>4, AlertRow DEF SendAlert, Kept, Alerts, RowTypes, Placed
  <2>2. alerts[monitor[m].post] = 0 /\ monitor[m].post \in Kept
    BY <2>1 DEF AlertInv
  <2>3. "posts" \in MonitorSteps /\ "stamp" \in MonitorSteps
    BY DEF MonitorSteps
  <2>4. CASE UNCHANGED alerts /\ Follow(m, "posts")
    <3>1. ~Alerts(m)'
      BY <2>3, <2>4, FollowRow DEF Alerts
    <3>2. QED
      BY <1>2, <2>1, <2>4, <3>1 DEF Alerts
  <2>5. CASE alerts' = [alerts EXCEPT ![monitor[m].post] = @ + 1] /\ Follow(m, "stamp")
    <3>1. monitor'[m].pc = "stamp" /\ monitor'[m].post = monitor[m].post
      BY <2>3, <2>5, FollowRow
    <3>2. alerts'[monitor[m].post] = 1 /\ \A i \in 1..MaxPosts : i # monitor[m].post => alerts'[i] = alerts[i]
      BY <1>1, <2>1, <2>2, <2>5
    <3>3. \A i \in 1..MaxPosts : alerts'[i] <= 1 /\ (alerts'[i] # 0 => i \in Kept')
      BY <2>1, <2>2, <3>2 DEF AlertInv
    <3>4. \A n \in Monitors : n # m /\ Alerts(n) => monitor[n].post # monitor[m].post /\ monitor[n].post \in 1..MaxPosts
      BY <1>1, <2>1 DEF AlertInv, RowTypes, Placed, Alerts
    <3>5. \A n \in Monitors : Alerts(n)' =>
            monitor'[n].post \in Kept' /\ alerts'[monitor'[n].post] = IF monitor'[n].pc = "alert" THEN 0 ELSE 1
      <4>1. ASSUME NEW n \in Monitors, n # m, Alerts(n)'
            PROVE  monitor'[n].post \in Kept' /\ alerts'[monitor'[n].post] = IF monitor'[n].pc = "alert" THEN 0 ELSE 1
        BY <2>1, <3>2, <3>4, <4>1 DEF AlertInv, Alerts
      <4>2. QED
        BY <2>1, <2>2, <3>1, <3>2, <4>1
    <3>6. \A n, k \in Monitors : Alerts(n)' /\ Alerts(k)' /\ monitor'[n].post = monitor'[k].post => n = k
      BY <2>1, <3>1, <3>4 DEF AlertInv, Alerts
    <3>7. QED
      BY <3>3, <3>5, <3>6 DEF AlertInv
  <2>6. QED
    BY <1>4, <2>4, <2>5 DEF SendAlert
<1>5. QED
  BY <1>2, <1>3, <1>4, AlertMoves

LEMMA FollowStep ==
  ASSUME SharedTypes, RowTypes, AlertInv, AlertsFollow, [MonitorNext]_monitorVars
  PROVE  AlertsFollow'
<1>1. monitorFaults > 0 => monitorFaults' > 0
  <2>1. monitorFaults \in Nat
    BY DEF SharedTypes
  <2>2. monitorFaults' = monitorFaults \/ Blunder
    <3>1. ASSUME NEW m \in Monitors, Starts(m) \/ (\E i \in DOMAIN posts : TakePost(m, i)) \/ StoreSignal(m) \/ RecordAlert(m)
          PROVE  monitorFaults' = monitorFaults
      BY <3>1 DEF Starts, StartMonitor, StartSearch, Begin, TakePost, StoreSignal, RecordAlert
    <3>2. ASSUME NEW m \in Monitors, SendAlert(m) \/ Plain(m) PROVE monitorFaults' = monitorFaults \/ Blunder
      BY <3>2 DEF SendAlert, Plain, MonitorEnds, MonitorCrash, BatchDone, FetchFails, Search, StoreCandidate, EndResults, Judge
    <3>3. QED
      BY <3>1, <3>2, MonitorCases, Leaves DEF Post, EditProfile
  <2>3. QED
    BY <2>1, <2>2 DEF Blunder
<1>2. Blunder => monitorFaults' > 0
  BY DEF Blunder, SharedTypes
<1> DEFINE Fine(s) == \/ s.alerted /\ alerts[s.post] = 1
                      \/ s.action = "ignore" \/ monitorFaults > 0
                      \/ \E m \in Monitors : monitor[m].post = s.post /\ monitor[m].pc \in {"alert", "stamp"}
           FineNext(s) == \/ s.alerted /\ alerts'[s.post] = 1
                          \/ s.action = "ignore" \/ monitorFaults' > 0
                          \/ \E m \in Monitors : monitor'[m].post = s.post /\ monitor'[m].pc \in {"alert", "stamp"}
<1>3. \A s \in signals : Fine(s)
  BY DEF AlertsFollow
<1>4. ASSUME UNCHANGED <<signals, alerts>>,
             \A n \in Monitors : Alerts(n) => monitor'[n] = monitor[n] \/ monitorFaults' > 0
      PROVE  \A s \in signals' : FineNext(s)
  BY <1>1, <1>3, <1>4 DEF Alerts
<1>5. ASSUME NEW m \in Monitors, StoreSignal(m) PROVE \A s \in signals' : FineNext(s)
  <2>1. UNCHANGED alerts /\ monitor[m].pc = "signal" /\ \A n \in Monitors : n # m => monitor'[n] = monitor[n]
    BY <1>5, Leaves, StoreSignalRow DEF StoreSignal
  <2>2. \A s \in signals : FineNext(s)
    BY <1>1, <1>3, <2>1
  <2> DEFINE new == [post |-> monitor[m].post, action |-> monitor[m].action, alerted |-> FALSE]
  <2>3. CASE UNCHANGED signals
    BY <2>2, <2>3
  <2>4. CASE /\ signals' = signals \cup {new}
             /\ \/ monitor'[m].pc = "posts" /\ monitor[m].action = "ignore"
                \/ monitor'[m].pc = "alert" /\ monitor'[m].post = monitor[m].post
    <3>1. new.post = monitor[m].post /\ new.action = monitor[m].action
      OBVIOUS
    <3> HIDE DEF new
    <3>2. FineNext(new)
      BY <2>4, <3>1
    <3>3. QED
      BY <2>2, <2>4, <3>2
  <2>5. QED
    BY <1>5, <2>3, <2>4, StoreSignalRow
<1>6. ASSUME NEW m \in Monitors, SendAlert(m) PROVE \A s \in signals' : FineNext(s)
  <2>1. /\ Alerts(m) /\ monitor[m].pc = "alert" /\ monitor[m].post \in DOMAIN posts
        /\ \A n \in Monitors : n # m => monitor'[n] = monitor[n]
    BY <1>6, AlertRow DEF SendAlert, Alerts, RowTypes, Placed
  <2>2. signals' = signals /\ alerts[monitor[m].post] = 0
    BY <1>6, <2>1 DEF SendAlert, AlertInv
  <2>3. "posts" \in MonitorSteps /\ "stamp" \in MonitorSteps
    BY DEF MonitorSteps
  <2>4. CASE Blunder
    BY <1>2, <2>4
  <2>5. CASE alerts' = [alerts EXCEPT ![monitor[m].post] = @ + 1] /\ Follow(m, "stamp")
    <3>1. monitor'[m].pc = "stamp" /\ monitor'[m].post = monitor[m].post
      BY <2>3, <2>5, FollowRow
    <3>2. \A s \in signals : s.post \in 1..MaxPosts
      <4>1. DOMAIN posts = 1..Len(posts) /\ Len(posts) \in Nat /\ Len(posts) <= MaxPosts /\ MaxPosts \in Nat
        BY MonitorAssumption DEF SharedTypes
      <4>2. \A s \in signals : s.post \in DOMAIN posts
        BY DEF SharedTypes, Kept
      <4>3. QED
        BY <4>1, <4>2
    <3>3. ASSUME NEW s \in signals PROVE FineNext(s)
      <4>1. CASE s.alerted /\ alerts[s.post] = 1
        <5>1. s.post # monitor[m].post
          BY <2>2, <4>1
        <5>2. alerts'[s.post] = alerts[s.post]
          BY <2>5, <3>2, <5>1 DEF SharedTypes
        <5>3. QED
          BY <4>1, <5>2
      <4>2. CASE s.action = "ignore" \/ monitorFaults > 0
        BY <1>1, <4>2
      <4>3. ASSUME NEW n \in Monitors, monitor[n].post = s.post, monitor[n].pc \in {"alert", "stamp"}
            PROVE  monitor'[n].post = s.post /\ monitor'[n].pc \in {"alert", "stamp"}
        BY <2>1, <3>1, <4>3
      <4>4. QED
        BY <1>3, <4>1, <4>2, <4>3
    <3>4. QED
      BY <2>2, <3>3
  <2>6. QED
    BY <1>6, <2>4, <2>5 DEF SendAlert
<1>7. ASSUME NEW m \in Monitors, RecordAlert(m) PROVE \A s \in signals' : FineNext(s)
  <2>1. /\ Alerts(m) /\ monitor[m].pc = "stamp" /\ alerts' = alerts
        /\ \A n \in Monitors : n # m => monitor'[n] = monitor[n]
    BY <1>7, AlertRow, Leaves DEF RecordAlert, Alerts
  <2>2. alerts[monitor[m].post] = 1
    BY <2>1 DEF AlertInv
  <2>3. ASSUME NEW t \in signals' PROVE FineNext(t)
    <3>1. PICK s \in signals : t = IF s.post = monitor[m].post THEN [s EXCEPT !.alerted = TRUE] ELSE s
      BY <1>7, <2>3 DEF RecordAlert
    <3>2. CASE s.post = monitor[m].post
      <4>1. s \in LinkedinMonitorSignal
        BY DEF SharedTypes
      <4>2. t.alerted = TRUE /\ t.post = monitor[m].post
        BY <3>1, <3>2, <4>1 DEF LinkedinMonitorSignal
      <4>3. QED
        BY <2>1, <2>2, <4>2
    <3>3. CASE s.post # monitor[m].post
      <4>1. t = s /\ Fine(s)
        BY <1>3, <3>1, <3>3
      <4>2. \A n \in Monitors : monitor[n].post = s.post => monitor'[n] = monitor[n]
        BY <2>1, <3>3
      <4>3. QED
        BY <1>1, <2>1, <4>1, <4>2
    <3>4. QED
      BY <3>2, <3>3
  <2>4. QED
    BY <2>3
<1>8. ASSUME NEW m \in Monitors, Starts(m) \/ Fetch(m) \/ Plain(m) \/ (\E i \in DOMAIN posts : TakePost(m, i))
      PROVE  \A s \in signals' : FineNext(s)
  <2>1. UNCHANGED <<signals, alerts>>
    BY <1>8, Leaves
  <2>2. \A n \in Monitors : n # m => monitor'[n] = monitor[n]
    BY <1>8, StartRow, FetchRow, PlainRow, TakePostRow
  <2>3. Alerts(m) => Blunder
    BY <1>8 DEF Alerts, Starts, StartMonitor, StartSearch, Begin, Fetch, TakePost, Plain, MonitorEnds, MonitorCrash, BatchDone,
       FetchFails, Search, StoreCandidate, EndResults, Judge
  <2>4. QED
    BY <1>2, <1>4, <2>1, <2>2, <2>3
<1>9. ASSUME UNCHANGED <<signals, alerts, monitor>> PROVE \A s \in signals' : FineNext(s)
  BY <1>4, <1>9
<1>10. (\A s \in signals' : FineNext(s)) => AlertsFollow'
  BY DEF AlertsFollow
<1> HIDE DEF FineNext, Fine
<1>11. QED
  BY <1>5, <1>6, <1>7, <1>8, <1>9, <1>10, MonitorCases DEF Post, EditProfile

LEMMA KnownStep ==
  ASSUME SharedTypes, RowTypes, KeptIsKnown, [MonitorNext]_monitorVars
  PROVE  KeptIsKnown'
<1>1. CASE UNCHANGED <<candidates, asked>>
  BY <1>1 DEF KeptIsKnown
<1>2. ASSUME NEW m \in Monitors, StoreCandidate(m) PROVE KeptIsKnown'
  <2> DEFINE new == [post |-> monitor[m].post, after |-> asked[monitor[m].post]]
  <2>1. asked' = asked /\ (candidates' = candidates \/ candidates' = candidates \cup {new})
    BY <1>2 DEF StoreCandidate
  <2>2. asked[new.post] = new.after
    OBVIOUS
  <2> HIDE DEF new
  <2>3. QED
    BY <2>1, <2>2 DEF KeptIsKnown
<1>3. ASSUME NEW m \in Monitors, NEW i \in DOMAIN posts, Judge(m, i) PROVE KeptIsKnown'
  <2>1. candidates' = candidates
    BY <1>3 DEF Judge
  <2>2. asked' = asked \/ (~Known(i) /\ \A j \in 1..MaxPosts : j # i => asked'[j] = asked[j])
    BY <1>3 DEF Judge, SharedTypes
  <2>3. CASE asked' = asked
    BY <2>1, <2>3 DEF KeptIsKnown
  <2>4. CASE asked' # asked
    <3>1. asked' = [asked EXCEPT ![i] = IF @ < 3 THEN @ + 1 ELSE @] /\ ~Known(i)
      BY <1>3, <2>4 DEF Judge
    <3>2. \A c \in candidates : c.post # i
      BY <3>1 DEF Known
    <3>3. \A c \in candidates : asked'[c.post] = asked[c.post]
      BY <3>1, <3>2 DEF SharedTypes
    <3>4. QED
      BY <2>1, <3>3 DEF KeptIsKnown
  <2>5. QED
    BY <2>3, <2>4
<1>4. UNCHANGED <<candidates, asked>> \/ \E m \in Monitors : StoreCandidate(m) \/ \E i \in DOMAIN posts : Judge(m, i)
  BY MonitorCases, Leaves DEF Post, EditProfile, Plain, MonitorEnds, MonitorCrash, BatchDone, FetchFails, Search, EndResults
<1>5. QED
  BY <1>1, <1>2, <1>3, <1>4

LEMMA MonitorStepInv == MonitorInv /\ [MonitorNext]_monitorVars => MonitorInv'
BY RowTypesStep, SharedStep, StampsStep, SeenStep, AlertStep, FollowStep, KnownStep DEF MonitorInv

LEMMA MonitorInvGives == MonitorInv => MonitorHolds
<1>1. SUFFICES ASSUME MonitorInv PROVE MonitorHolds
  OBVIOUS
<1>2. MonitorTypeOK
  BY <1>1 DEF MonitorInv, SharedTypes, MonitorTypeOK
<1>3. AlertOnce
  BY <1>1 DEF MonitorInv, SharedTypes, AlertInv, AlertOnce
<1>4. QED
  BY <1>1, <1>2, <1>3 DEF MonitorInv, MonitorHolds

(* No matching post of a watched profile is lost by the stamps, and none   *)
(* is alerted twice, whatever sweeps overlap, die or fail, for any number  *)
(* of them, of profiles and of posts.                                      *)
THEOREM MonitorsHold == MonitorSpec => []MonitorHolds
<1>1. MonitorInit => MonitorInv
  BY MonitorInitInv
<1>2. MonitorInv /\ [MonitorNext]_monitorVars => MonitorInv'
  BY MonitorStepInv
<1>3. MonitorInv => MonitorHolds
  BY MonitorInvGives
<1>4. QED
  BY <1>1, <1>2, <1>3, PTL DEF MonitorSpec
=============================================================================
