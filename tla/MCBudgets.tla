----------------------------- MODULE MCBudgets -----------------------------
(* The three guards that stand before a paid call, and the sensors, which  *)
(* spend through them, on small instances.  They share no state:           *)
(* `component` says which one this behaviour is about.                     *)
EXTENDS SpendLedger, ApifyGuard, DeeplineGuard, Sensing, TLC

VARIABLE component

ledgerVars == vars
budgetVars == <<component, ledgerVars, apifyVars, deeplineVars, sensingVars>>

Start ==
  /\ component \in {"ledger", "apify", "deepline", "sensing"}
  /\ Init /\ ApifyInit /\ DeeplineInit /\ SensingInit
  /\ component # "ledger" => cap = "configured"
  /\ component # "apify" => ~combined
  /\ component # "sensing" => sensor = LinkedinJobs /\ ~phraseScene

LedgerStep == component = "ledger" /\ Next /\ UNCHANGED <<apifyVars, deeplineVars, sensingVars>>
ApifyStep == component = "apify" /\ ApifyNext /\ UNCHANGED <<ledgerVars, deeplineVars, sensingVars>>
DeeplineStep == component = "deepline" /\ DeeplineNext /\ UNCHANGED <<ledgerVars, apifyVars, sensingVars>>
SensingStep == component = "sensing" /\ SensingNext /\ UNCHANGED <<ledgerVars, apifyVars, deeplineVars>>

Steps == UNCHANGED component /\ (LedgerStep \/ ApifyStep \/ DeeplineStep \/ SensingStep)

Budgets == Start /\ [][Steps]_budgetVars

Symmetry == Permutations(Callers) \cup Permutations(ApifyCallers) \cup Permutations(DeeplineCallers)

(* The provider guards keep their budgets up to the calls that were let    *)
(* through before their money showed: Apify's per day and per month, and   *)
(* Deepline's per day; and their variables have their types.               *)
DayBudgetsBounded == ApifyTypeOK /\ DeeplineTypeOK /\ ApifyDayBounded /\ ApifyMonthBounded /\ DeeplineDayBounded
=============================================================================
