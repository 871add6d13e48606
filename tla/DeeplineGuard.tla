---------------------------- MODULE DeeplineGuard ----------------------------
(***************************************************************************)
(* check_daily_deepline_budget, app/budget_guard.py: the first check of a  *)
(* day stores the account's balance in a Parameter row, the later ones     *)
(* compare what is gone since with the budget.  The row is read, the       *)
(* balance is fetched from the provider, and the row is written, in three  *)
(* steps that several callers may interleave; nothing makes the row unique *)
(* and nothing stops a caller from writing it from an old reading.         *)
(***************************************************************************)
EXTENDS Naturals, FiniteSets, Sequences

CONSTANTS
  DeeplineCallers,
  DeeplineBudget,   \* limits.contact_discovery_daily_budget_usd, or the default
  OpeningBalance,
  MaxDeeplineDay,   \* bound
  MaxTopUps         \* bound

ASSUME DeeplineAssumption ==
  /\ IsFiniteSet(DeeplineCallers)
  /\ DeeplineBudget \in Nat \ {0} /\ OpeningBalance \in Nat
  /\ MaxDeeplineDay \in Nat /\ MaxTopUps \in Nat

VARIABLES
  deeplineDay,
  balance,
  baselines,      \* the rows deepline_daily_baseline, in the order of their insertion
  deeplinePc,
  checkDay,       \* the date a check computed at its start
  rowRead,        \* 0: no row; n: row n, as it was when read
  valueRead,
  balanceRead,
  deeplineSpent,  \* history: spent per day
  baselineCount,  \* history: how often a day's baseline was written
  carried,        \* history: calls made on a later day than their check
  topUps

deeplineLocals == <<checkDay, rowRead, valueRead, balanceRead>>
deeplineVars == <<deeplineDay, balance, baselines, deeplinePc, deeplineLocals, deeplineSpent, baselineCount, carried, topUps>>

DeeplineDays == 0..MaxDeeplineDay
NoBaseline == [date |-> 0, amount |-> 0]
Baseline == [date : DeeplineDays, amount : Nat]

DeeplineTypeOK ==
  /\ deeplineDay \in DeeplineDays /\ balance \in Nat
  /\ baselines \in Seq(Baseline) /\ Len(baselines) <= Cardinality(DeeplineCallers)
  /\ deeplinePc \in [DeeplineCallers -> {"idle", "row", "balance", "decide", "call"}]
  /\ checkDay \in [DeeplineCallers -> DeeplineDays]
  /\ rowRead \in [DeeplineCallers -> Nat] /\ \A c \in DeeplineCallers : rowRead[c] <= Len(baselines)
  /\ valueRead \in [DeeplineCallers -> Baseline]
  /\ balanceRead \in [DeeplineCallers -> Nat]
  /\ deeplineSpent \in [DeeplineDays -> Nat] /\ baselineCount \in [DeeplineDays -> Nat]
  /\ carried \in [DeeplineDays -> Nat] /\ topUps \in 0..MaxTopUps

DeeplineInit ==
  /\ deeplineDay = 0 /\ balance = OpeningBalance /\ baselines = <<>>
  /\ deeplinePc = [c \in DeeplineCallers |-> "idle"]
  /\ checkDay = [c \in DeeplineCallers |-> 0]
  /\ rowRead = [c \in DeeplineCallers |-> 0]
  /\ valueRead = [c \in DeeplineCallers |-> NoBaseline]
  /\ balanceRead = [c \in DeeplineCallers |-> 0]
  /\ deeplineSpent = [d \in DeeplineDays |-> 0] /\ baselineCount = [d \in DeeplineDays |-> 0]
  /\ carried = [d \in DeeplineDays |-> 0] /\ topUps = 0

DeeplineGoto(c, from, to) == deeplinePc[c] = from /\ deeplinePc' = [deeplinePc EXCEPT ![c] = to]
ForgetReadings(c) ==
  /\ rowRead' = [rowRead EXCEPT ![c] = 0] /\ valueRead' = [valueRead EXCEPT ![c] = NoBaseline]
  /\ balanceRead' = [balanceRead EXCEPT ![c] = 0]

DeeplineMidnight ==
  /\ deeplineDay < MaxDeeplineDay
  /\ deeplineDay' = deeplineDay + 1
  /\ UNCHANGED <<balance, baselines, deeplinePc, deeplineLocals, deeplineSpent, baselineCount, carried, topUps>>

TopUp ==
  /\ topUps < MaxTopUps
  /\ balance' = balance + 1 /\ topUps' = topUps + 1
  /\ UNCHANGED <<deeplineDay, baselines, deeplinePc, deeplineLocals, deeplineSpent, baselineCount, carried>>

StartCheck(c) ==
  /\ DeeplineGoto(c, "idle", "row")
  /\ checkDay' = [checkDay EXCEPT ![c] = deeplineDay]
  /\ UNCHANGED <<deeplineDay, balance, baselines, rowRead, valueRead, balanceRead, deeplineSpent, baselineCount, carried, topUps>>

(* .first() without an order: any of the rows.                             *)
ReadBaseline(c) ==
  /\ DeeplineGoto(c, "row", "balance")
  /\ IF baselines = <<>>
     THEN UNCHANGED <<rowRead, valueRead>>
     ELSE \E i \in DOMAIN baselines :
            rowRead' = [rowRead EXCEPT ![c] = i] /\ valueRead' = [valueRead EXCEPT ![c] = baselines[i]]
  /\ UNCHANGED <<deeplineDay, balance, baselines, checkDay, balanceRead, deeplineSpent, baselineCount, carried, topUps>>

FetchBalance(c) ==
  /\ DeeplineGoto(c, "balance", "decide")
  /\ balanceRead' = [balanceRead EXCEPT ![c] = balance]
  /\ UNCHANGED <<deeplineDay, balance, baselines, checkDay, rowRead, valueRead, deeplineSpent, baselineCount, carried, topUps>>

FetchFails(c) ==
  /\ DeeplineGoto(c, "balance", "idle")
  /\ ForgetReadings(c) /\ checkDay' = [checkDay EXCEPT ![c] = 0]
  /\ UNCHANGED <<deeplineDay, balance, baselines, deeplineSpent, baselineCount, carried, topUps>>

NeedsBaseline(c) == rowRead[c] = 0 \/ valueRead[c].date # checkDay[c]

(* A bug: every new baseline is a row of its own.                          *)
BugWriteBaseline(c) ==
  /\ NeedsBaseline(c)
  /\ DeeplineGoto(c, "decide", "call")
  /\ baselines' = Append(baselines, [date |-> checkDay[c], amount |-> balanceRead[c]])
  /\ baselineCount' = [baselineCount EXCEPT ![checkDay[c]] = @ + 1]
  /\ ForgetReadings(c)
  /\ UNCHANGED <<deeplineDay, balance, checkDay, deeplineSpent, carried, topUps>>

(* The first check of the day stores the balance it fetched, and passes.   *)
WriteBaseline(c) ==
  /\ NeedsBaseline(c)
  /\ DeeplineGoto(c, "decide", "call")
  /\ LET new == [date |-> checkDay[c], amount |-> balanceRead[c]] IN
     baselines' = IF rowRead[c] = 0 THEN Append(baselines, new)
                                    ELSE [baselines EXCEPT ![rowRead[c]] = new]
  /\ baselineCount' = [baselineCount EXCEPT ![checkDay[c]] = @ + 1]
  /\ ForgetReadings(c)
  /\ UNCHANGED <<deeplineDay, balance, checkDay, deeplineSpent, carried, topUps>>

(* A negative difference, after a top-up, counts as nothing spent.         *)
SpentSince(c) == IF valueRead[c].amount > balanceRead[c] THEN valueRead[c].amount - balanceRead[c] ELSE 0

(* A bug: one call more.                                                   *)
BugPassCheck(c) ==
  /\ ~NeedsBaseline(c)
  /\ SpentSince(c) <= DeeplineBudget
  /\ DeeplineGoto(c, "decide", "call")
  /\ ForgetReadings(c)
  /\ UNCHANGED <<deeplineDay, balance, baselines, checkDay, deeplineSpent, baselineCount, carried, topUps>>

PassCheck(c) ==
  /\ ~NeedsBaseline(c)
  /\ SpentSince(c) < DeeplineBudget
  /\ DeeplineGoto(c, "decide", "call")
  /\ ForgetReadings(c)
  /\ UNCHANGED <<deeplineDay, balance, baselines, checkDay, deeplineSpent, baselineCount, carried, topUps>>

BudgetExceeded(c) ==
  /\ ~NeedsBaseline(c)
  /\ SpentSince(c) >= DeeplineBudget
  /\ DeeplineGoto(c, "decide", "idle")
  /\ ForgetReadings(c) /\ checkDay' = [checkDay EXCEPT ![c] = 0]
  /\ UNCHANGED <<deeplineDay, balance, baselines, deeplineSpent, baselineCount, carried, topUps>>

(* The guarded call takes a credit, or finds nothing and takes none.       *)
DeeplineCall(c) ==
  /\ DeeplineGoto(c, "call", "idle")
  /\ \/ UNCHANGED <<balance, deeplineSpent, carried>>
     \/ /\ balance > 0
        /\ balance' = balance - 1
        /\ deeplineSpent' = [deeplineSpent EXCEPT ![deeplineDay] = @ + 1]
        /\ carried' = [carried EXCEPT ![deeplineDay] = @ + (IF checkDay[c] = deeplineDay THEN 0 ELSE 1)]
  /\ checkDay' = [checkDay EXCEPT ![c] = 0]
  /\ UNCHANGED <<deeplineDay, baselines, rowRead, valueRead, balanceRead, baselineCount, topUps>>

DeeplineNext ==
  \/ DeeplineMidnight \/ TopUp
  \/ \E c \in DeeplineCallers :
       \/ StartCheck(c) \/ ReadBaseline(c) \/ FetchBalance(c) \/ FetchFails(c)
       \/ WriteBaseline(c) \/ PassCheck(c) \/ BudgetExceeded(c) \/ DeeplineCall(c)

DeeplineSpec == DeeplineInit /\ [][DeeplineNext]_deeplineVars

-----------------------------------------------------------------------------
(* A day spends its budget, and a call of every other caller that was past *)
(* its check, once for every baseline that was written for it, plus the    *)
(* calls checked on the day before and what was topped up: only a baseline *)
(* that is not replaced makes the budget a daily one.                      *)
DeeplineDayBounded ==
  \A d \in DeeplineDays :
    deeplineSpent[d] <= (DeeplineBudget + Cardinality(DeeplineCallers) - 1) * baselineCount[d]
                        + carried[d] + topUps
=============================================================================
