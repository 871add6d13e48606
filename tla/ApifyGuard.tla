----------------------------- MODULE ApifyGuard -----------------------------
(***************************************************************************)
(* check_apify_budget, app/apify_budget_guard.py: asked right before a     *)
(* paid Apify call.  It compares the provider's own figure, which lags,    *)
(* and the local ledger of estimates with a daily budget, and the lagging  *)
(* figure alone with a monthly one, and then records the estimate.  Every  *)
(* read is a step of its own, callers run side by side, and midnight may   *)
(* fall between any two steps.  A call is estimated at one unit, its worst *)
(* case.                                                                   *)
(***************************************************************************)
EXTENDS Integers, FiniteSets

CONSTANTS
  ApifyCallers,
  ApifyDaily,      \* apify.daily_budget_usd
  ApifyMonthly,    \* apify.monthly_budget_usd
  MaxApifyDay,     \* bound: days of the month
  MaxLedgerFaults  \* bound: ledger reads and writes that fail

ASSUME ApifyAssumption ==
  /\ IsFiniteSet(ApifyCallers) /\ ApifyCallers # {}
  /\ ApifyDaily \in Nat /\ ApifyMonthly \in Nat /\ MaxApifyDay \in Nat /\ MaxLedgerFaults \in Nat

VARIABLES
  combined,      \* spend.daily_cap_usd is configured
  apifyDay,
  apifySpent,    \* what Apify really charged, per day
  apifyFigure,   \* what its usage endpoint shows, per day
  monthSpent,    \* what it really charged this month
  monthFigure,   \* the total of the month that the endpoint shows
  apifyLedger,   \* the sum of the ledger's rows, per day
  apifyPc,       \* where each caller is
  seenToday,     \* the figure of its day that a caller fetched
  seenMonth,     \* the total of the month that it fetched
  ledgerFaults

apifySeen == <<seenToday, seenMonth>>
apifyMonth == <<monthSpent, monthFigure>>
apifyVars ==
  <<combined, apifyDay, apifySpent, apifyFigure, apifyMonth, apifyLedger, apifyPc, apifySeen, ledgerFaults>>

ApifyDays == 0..MaxApifyDay

ApifyTypeOK ==
  /\ combined \in BOOLEAN /\ apifyDay \in ApifyDays
  /\ apifySpent \in [ApifyDays -> Nat] /\ apifyLedger \in [ApifyDays -> Nat]
  /\ apifyFigure \in [ApifyDays -> Nat] /\ \A d \in ApifyDays : apifyFigure[d] <= apifySpent[d]
  /\ monthSpent \in Nat /\ monthFigure \in Nat
  /\ apifyPc \in [ApifyCallers -> {"idle", "fetch", "check", "record", "call"}]
  /\ seenToday \in [ApifyCallers -> Nat] /\ seenMonth \in [ApifyCallers -> Nat]
  /\ ledgerFaults \in 0..MaxLedgerFaults

ApifyInit ==
  /\ combined \in BOOLEAN /\ apifyDay = 0
  /\ apifySpent = [d \in ApifyDays |-> 0]
  /\ apifyFigure = [d \in ApifyDays |-> 0]
  /\ monthSpent = 0 /\ monthFigure = 0
  /\ apifyLedger = [d \in ApifyDays |-> 0]
  /\ apifyPc = [c \in ApifyCallers |-> "idle"]
  /\ seenToday = [c \in ApifyCallers |-> 0] /\ seenMonth = [c \in ApifyCallers |-> 0]
  /\ ledgerFaults = 0

ApifyGoto(c, from, to) == apifyPc[c] = from /\ apifyPc' = [apifyPc EXCEPT ![c] = to]
LedgerFault == ledgerFaults < MaxLedgerFaults /\ ledgerFaults' = ledgerFaults + 1
MaxOf(a, b) == IF a > b THEN a ELSE b

(* Apify settles some of what it charged; the figure of a day that is over *)
(* is complete.                                                            *)
FigureCatchesUp ==
  /\ apifyFigure[apifyDay] < apifySpent[apifyDay]
  /\ apifyFigure' = [apifyFigure EXCEPT ![apifyDay] = @ + 1]
  /\ monthFigure' = monthFigure + 1
  /\ UNCHANGED <<combined, apifyDay, apifySpent, monthSpent, apifyLedger, apifyPc, apifySeen, ledgerFaults>>

ApifyMidnight ==
  /\ apifyDay < MaxApifyDay
  /\ apifyFigure[apifyDay] = apifySpent[apifyDay]
  /\ apifyDay' = apifyDay + 1
  /\ UNCHANGED <<combined, apifySpent, apifyFigure, apifyMonth, apifyLedger, apifyPc, apifySeen, ledgerFaults>>

AskGuard(c) ==
  /\ ApifyGoto(c, "idle", "fetch")
  /\ UNCHANGED <<combined, apifyDay, apifySpent, apifyFigure, apifyMonth, apifyLedger, apifySeen, ledgerFaults>>

FetchUsage(c) ==
  /\ ApifyGoto(c, "fetch", "check")
  /\ seenToday' = [seenToday EXCEPT ![c] = apifyFigure[apifyDay]]
  /\ seenMonth' = [seenMonth EXCEPT ![c] = monthFigure]
  /\ UNCHANGED <<combined, apifyDay, apifySpent, apifyFigure, apifyMonth, apifyLedger, ledgerFaults>>

(* No budget configured, no usable figure, a failed request: blocked.      *)
FetchBlocks(c) ==
  /\ ApifyGoto(c, "fetch", "idle")
  /\ UNCHANGED <<combined, apifyDay, apifySpent, apifyFigure, apifyMonth, apifyLedger, apifySeen, ledgerFaults>>

(* A bug: the provider's figure alone.                                     *)
BugEffectiveToday(c, ledgerToday) == seenToday[c]

EffectiveToday(c, ledgerToday) == MaxOf(seenToday[c], ledgerToday)

MonthFits(c) == seenMonth[c] + 1 <= ApifyMonthly

(* A ledger that cannot be read counts as zero.                            *)
CheckBudgets(c) ==
  \E ledgerToday \in {apifyLedger[apifyDay], 0} :
    /\ \/ ledgerToday = apifyLedger[apifyDay] /\ UNCHANGED ledgerFaults
       \/ LedgerFault
    /\ ApifyGoto(c, "check",
         IF EffectiveToday(c, ledgerToday) + 1 <= ApifyDaily /\ MonthFits(c) THEN "record" ELSE "idle")
    /\ seenToday' = [seenToday EXCEPT ![c] = 0] /\ seenMonth' = [seenMonth EXCEPT ![c] = 0]
    /\ UNCHANGED <<combined, apifyDay, apifySpent, apifyFigure, apifyMonth, apifyLedger>>

Record(c) ==
  /\ ApifyGoto(c, "record", "call")
  /\ apifyLedger' = [apifyLedger EXCEPT ![apifyDay] = @ + 1]
  /\ UNCHANGED <<combined, apifyDay, apifySpent, apifyFigure, apifyMonth, apifySeen, ledgerFaults>>

(* record_spend swallows a failed insert, and the call is allowed;         *)
(* reserve_spend lets it out, or finds the combined cap reached.           *)
RecordLost(c) ==
  /\ ~combined
  /\ LedgerFault
  /\ ApifyGoto(c, "record", "call")
  /\ UNCHANGED <<combined, apifyDay, apifySpent, apifyFigure, apifyMonth, apifyLedger, apifySeen>>

ReserveBlocks(c) ==
  /\ combined
  /\ ApifyGoto(c, "record", "idle")
  /\ UNCHANGED <<combined, apifyDay, apifySpent, apifyFigure, apifyMonth, apifyLedger, apifySeen, ledgerFaults>>

(* The actor runs and is charged, for less than the estimate or for it.    *)
ApifyCall(c) ==
  /\ ApifyGoto(c, "call", "idle")
  /\ \E cost \in 0..1 :
       /\ apifySpent' = [apifySpent EXCEPT ![apifyDay] = @ + cost]
       /\ monthSpent' = monthSpent + cost
  /\ UNCHANGED <<combined, apifyDay, apifyFigure, monthFigure, apifyLedger, apifySeen, ledgerFaults>>

ApifyNext ==
  \/ FigureCatchesUp \/ ApifyMidnight
  \/ \E c \in ApifyCallers :
       \/ AskGuard(c) \/ FetchUsage(c) \/ FetchBlocks(c) \/ CheckBudgets(c)
       \/ Record(c) \/ RecordLost(c) \/ ReserveBlocks(c) \/ ApifyCall(c)

ApifySpec == ApifyInit /\ [][ApifyNext]_apifyVars

-----------------------------------------------------------------------------
(* What a day can cost beyond its budget: the callers that checked before  *)
(* another recorded, those that recorded before midnight and called after  *)
(* it, and one call for every failure of the ledger.                       *)
ApifyDayLimit(d) ==
  ApifyDaily + Cardinality(ApifyCallers) - 1 + ledgerFaults
    + (IF d = 0 THEN 0 ELSE Cardinality(ApifyCallers))

(* Although the provider's figure lags, a burst of calls passes the daily  *)
(* budget by no more than ApifyDayLimit.                                   *)
ApifyDayBounded == \A d \in ApifyDays : apifySpent[d] <= ApifyDayLimit(d)

(* The monthly budget is asked of the lagging figure alone: it can be      *)
(* passed, by one day's spending and one call of each caller that fetched  *)
(* the figure on an earlier day, and not by more.                          *)
ApifyMonthBounded ==
  monthSpent <= ApifyMonthly + ApifyDayLimit(1) + Cardinality(ApifyCallers)
=============================================================================
