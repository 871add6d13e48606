---------------------------- MODULE SpendLedger ----------------------------
(***************************************************************************)
(* app/spend_ledger.py: the combined daily cap and the per-run cap that    *)
(* every paid call reserves against before it is made, and the settlement  *)
(* that gives unused money back.  The governed clients (deepline_client,   *)
(* prospeo_client) appear as the outcomes of the call between the two.     *)
(* The rows of provider_spend_ledger are kept as their sum per day: the    *)
(* code reads nothing else of them, except the row a caller itself holds.  *)
(***************************************************************************)
EXTENDS Integers, FiniteSets

CONSTANTS
  Callers,   \* threads that run plays, on any instance
  Costs,     \* estimates, in the smallest unit of money
  MaxCost,   \* the dearest of them
  DailyCap,  \* spend.daily_cap_usd
  RunCap,    \* spend.run_cap_usd
  MaxDay     \* bound: days run from 0 to MaxDay

ASSUME SpendAssumption ==
  /\ IsFiniteSet(Callers)
  /\ MaxCost \in Nat /\ Costs \subseteq 0..MaxCost
  /\ DailyCap \in Nat /\ RunCap \in Nat /\ MaxDay \in Nat

Days == 0..MaxDay

VARIABLES
  day,       \* spend_date: the UTC day
  cap,       \* spend.daily_cap_usd: "configured" or "unset"
  ledger,    \* ledger[d]: sum of actual, else estimated, over the rows of day d
  pc,        \* where a caller is
  est,       \* est[c]: estimate of the reservation c is making or holds
  rowDay,    \* rowDay[c]: spend_date of the row c holds
  spent,     \* spent[c]: spent_usd of the SpendScope of c's run
  blocked,   \* blocked[c]: its count of refusals, 1 for any positive count
  billed,    \* history: what providers really charged, by the reservation's day
  runBilled  \* history: what providers charged to the run c is in

vars == <<day, cap, ledger, pc, est, rowDay, spent, blocked, billed, runBilled>>

PCs == {"off", "ready", "check", "insert", "calling", "settle"}

TypeOK ==
  /\ day \in Days
  /\ cap \in {"configured", "unset"}
  /\ ledger \in [Days -> Int]
  /\ pc \in [Callers -> PCs]
  /\ est \in [Callers -> Costs \cup {0}]
  /\ rowDay \in [Callers -> Days]
  /\ spent \in [Callers -> Int]
  /\ blocked \in [Callers -> {0, 1}]
  /\ billed \in [Days -> Nat]
  /\ runBilled \in [Callers -> Nat]

Init ==
  /\ day = 0
  /\ cap \in {"configured", "unset"}
  /\ ledger = [d \in Days |-> 0]
  /\ pc = [c \in Callers |-> "off"]
  /\ est = [c \in Callers |-> 0]
  /\ rowDay = [c \in Callers |-> 0]
  /\ spent = [c \in Callers |-> 0]
  /\ blocked = [c \in Callers |-> 0]
  /\ billed = [d \in Days |-> 0]
  /\ runBilled = [c \in Callers |-> 0]

Goto(c, label) == pc' = [pc EXCEPT ![c] = label]

(* _today() moves on at UTC midnight. *)
Midnight ==
  /\ day < MaxDay
  /\ day' = day + 1
  /\ UNCHANGED <<cap, ledger, pc, est, rowDay, spent, blocked, billed, runBilled>>

(* with spend_scope(...): a fresh scope for this thread. *)
EnterScope(c) ==
  /\ pc[c] = "off"
  /\ Goto(c, "ready")
  /\ spent' = [spent EXCEPT ![c] = 0]
  /\ blocked' = [blocked EXCEPT ![c] = 0]
  /\ UNCHANGED <<day, cap, ledger, est, rowDay, billed, runBilled>>

(* The block is left: the scope is reset. *)
LeaveScope(c) ==
  /\ pc[c] = "ready"
  /\ Goto(c, "off")
  /\ spent' = [spent EXCEPT ![c] = 0]
  /\ blocked' = [blocked EXCEPT ![c] = 0]
  /\ runBilled' = [runBilled EXCEPT ![c] = 0]
  /\ UNCHANGED <<day, cap, ledger, est, rowDay, billed>>

(* The paid call is over for its caller, one way or another. *)
BackToRun(c) ==
  /\ Goto(c, "ready")
  /\ est' = [est EXCEPT ![c] = 0]
  /\ rowDay' = [rowDay EXCEPT ![c] = 0]

(* A bug in a client: its estimate is counted twice. *)
BugReserveTwice(c, e) ==
  /\ pc[c] = "ready"
  /\ est' = [est EXCEPT ![c] = 2 * e]
  /\ Goto(c, "check")
  /\ UNCHANGED <<day, cap, ledger, rowDay, spent, blocked, billed, runBilled>>

(* A governed client calls reserve_spend with its estimate. *)
Reserve(c, e) ==
  /\ pc[c] = "ready"
  /\ est' = [est EXCEPT ![c] = e]
  /\ Goto(c, "check")
  /\ UNCHANGED <<day, cap, ledger, rowDay, spent, blocked, billed, runBilled>>

(* Bugs in the checks: one cap forgotten.                                  *)
BugNoDaily(c) == cap = "configured" /\ spent[c] + est[c] <= RunCap
BugNoRun(c) == cap = "configured" /\ ledger[day] + est[c] <= DailyCap

(* The checks of _reserve, against the sum it reads now. *)
FitsCaps(c) ==
  /\ cap = "configured"
  /\ ledger[day] + est[c] <= DailyCap
  /\ spent[c] + est[c] <= RunCap

CheckPasses(c) ==
  /\ pc[c] = "check"
  /\ FitsCaps(c)
  /\ Goto(c, "insert")
  /\ UNCHANGED <<day, cap, ledger, est, rowDay, spent, blocked, billed, runBilled>>

(* SpendBlocked: a cap would be passed, none is set, or the sum could not  *)
(* be read; reserve_spend counts the refusal in the scope.                 *)
SpendBlocked(c) ==
  /\ pc[c] = "check"
  /\ blocked' = [blocked EXCEPT ![c] = 1]
  /\ BackToRun(c)
  /\ UNCHANGED <<day, cap, ledger, spent, billed, runBilled>>

(* The INSERT and its commit: the row is dated by _today() at this moment. *)
InsertRow(c) ==
  /\ pc[c] = "insert"
  /\ ledger' = [ledger EXCEPT ![day] = @ + est[c]]
  /\ rowDay' = [rowDay EXCEPT ![c] = day]
  /\ spent' = [spent EXCEPT ![c] = @ + est[c]]
  /\ Goto(c, "calling")
  /\ UNCHANGED <<day, cap, est, blocked, billed, runBilled>>

(* The commit raises: the call is not made. *)
InsertRaises(c) ==
  /\ pc[c] = "insert"
  /\ BackToRun(c)
  /\ UNCHANGED <<day, cap, ledger, spent, blocked, billed, runBilled>>

---------------------------------------------------------------------------
(* The provider charges b for the call that caller c reserved. *)
Bill(c, b) ==
  /\ billed' = [billed EXCEPT ![rowDay[c]] = @ + b]
  /\ runBilled' = [runBilled EXCEPT ![c] = @ + b]

(* A result: billed, the reservation stands. *)
CallSucceeds(c) ==
  /\ pc[c] = "calling"
  /\ Bill(c, est[c])
  /\ BackToRun(c)
  /\ UNCHANGED <<day, cap, ledger, spent, blocked>>

(* A bug in a client: an unclear outcome gives the reservation back. *)
BugSettleUnclear(c) ==
  /\ pc[c] = "calling"
  /\ \E b \in {0, est[c]} : Bill(c, b)
  /\ Goto(c, "settle")
  /\ UNCHANGED <<day, cap, ledger, est, rowDay, spent, blocked>>

(* DeeplineMaybeBilled, or a network failure in search_person: nobody      *)
(* knows whether it was charged, so the reservation stands.                *)
CallMaybeBilled(c) ==
  /\ pc[c] = "calling"
  /\ \E b \in {0, est[c]} : Bill(c, b)
  /\ BackToRun(c)
  /\ UNCHANGED <<day, cap, ledger, spent, blocked>>

(* A free repeat, a miss or a definite error: not charged, to be settled.  *)
CallNotBilled(c) ==
  /\ pc[c] = "calling"
  /\ Goto(c, "settle")
  /\ UNCHANGED <<day, cap, ledger, est, rowDay, spent, blocked, billed, runBilled>>

(* settle_spend(id, 0.0): the allowance of the row's day and of the run    *)
(* comes back.                                                             *)
Settle(c) ==
  /\ pc[c] = "settle"
  /\ ledger' = [ledger EXCEPT ![rowDay[c]] = @ - est[c]]
  /\ spent' = [spent EXCEPT ![c] = @ - est[c]]
  /\ BackToRun(c)
  /\ UNCHANGED <<day, cap, blocked, billed, runBilled>>

(* settle_spend swallows a database error: raised by the read it changes   *)
(* nothing, raised by the commit it has already lowered the scope.         *)
SettleRaises(c) ==
  /\ pc[c] = "settle"
  /\ \/ UNCHANGED spent
     \/ spent' = [spent EXCEPT ![c] = @ - est[c]]
  /\ BackToRun(c)
  /\ UNCHANGED <<day, cap, ledger, blocked, billed, runBilled>>

(* The process dies: rows stay, the scope is gone; a call in flight may    *)
(* have been charged.                                                      *)
Crash(c) ==
  /\ pc[c] \notin {"off", "ready"}
  /\ \/ UNCHANGED billed
     \/ /\ pc[c] = "calling"
        /\ billed' = [billed EXCEPT ![rowDay[c]] = @ + est[c]]
  /\ Goto(c, "off")
  /\ est' = [est EXCEPT ![c] = 0]
  /\ rowDay' = [rowDay EXCEPT ![c] = 0]
  /\ spent' = [spent EXCEPT ![c] = 0]
  /\ blocked' = [blocked EXCEPT ![c] = 0]
  /\ runBilled' = [runBilled EXCEPT ![c] = 0]
  /\ UNCHANGED <<day, cap, ledger>>

Step(c) ==
  \/ EnterScope(c) \/ LeaveScope(c)
  \/ \E e \in Costs : Reserve(c, e)
  \/ CheckPasses(c) \/ SpendBlocked(c) \/ InsertRow(c) \/ InsertRaises(c)
  \/ CallSucceeds(c) \/ CallMaybeBilled(c) \/ CallNotBilled(c)
  \/ Settle(c) \/ SettleRaises(c) \/ Crash(c)

Next == Midnight \/ \E c \in Callers : Step(c)

Spec == Init /\ [][Next]_vars

---------------------------------------------------------------------------
(* One caller at a time never spends a day past its cap, also when         *)
(* midnight falls between the check and the row.                           *)
SequentialDailyCap ==
  Cardinality(Callers) = 1 => \A d \in Days : ledger[d] <= DailyCap

(* Concurrent callers read the sum and insert without a lock, so they can  *)
(* pass the cap, by at most one call per further caller.                   *)
OvershootBounded ==
  \A d \in Days : ledger[d] <= DailyCap + (Cardinality(Callers) - 1) * MaxCost

(* "records the reservation BEFORE the paid call is made": whatever fails, *)
(* the ledger of a day never shows less than providers charged for it.     *)
ReservationCoversBill == \A d \in Days : billed[d] <= ledger[d]

(* No run is charged more than its run cap: not after settlements that     *)
(* failed halfway, not across midnight.                                    *)
RunWithinCap ==
  \A c \in Callers : runBilled[c] <= spent[c] /\ spent[c] <= RunCap

(* What the ledger's text promises of the combined cap: the day's total    *)
(* stays within spend.daily_cap_usd.                                       *)
DailyCapHolds == \A d \in Days : ledger[d] <= DailyCap
=============================================================================
