----------------------------- MODULE IcpMatching -----------------------------
(* Which ideal customer profiles (ICPs) a company matches, and who changes *)
(* that.  Sweeps (icp/icp_matching.py run_icp_matching_sweep, started by a *)
(* request and by the intelligence run) evaluate companies that are due,   *)
(* with three attempts for those that lack information.  Gates             *)
(* (gate_batch_before_decision_makers and verify_and_reconfirm_matches)    *)
(* and backfills pay for a revenue figure, replace the headcount proxy by  *)
(* it, and the gates delete a company that fails on it.  An operator sets  *)
(* a figure or a role at any time.                                         *)
(*                                                                         *)
(* Each worker has a session of its own: it keeps the rows it has read     *)
(* until it commits, and reads them anew after that (SQLAlchemy's          *)
(* expire_on_commit).  Amounts are small numbers in proportion to the      *)
(* source's dollars and percents.                                          *)
EXTENDS Integers, FiniteSets, FiniteSetsExt

CONSTANTS
  Firms,            \* companies
  IcpWorkers,       \* sweeps, backfills and gates
  FirmFacts,        \* what may be on file of a company
  Icps,             \* the ICPs, records of IcpShape
  Figures,          \* revenue figures the providers and the operator may have
  FirmRoles,        \* roles a posting may be for
  Unknown,          \* NULL
  RevenueP25, RevenueP75,       \* revenue of an employee, percentiles
  SalesP25, SalesP75,           \* sales staff in a hundred employees
  PassThroughMin,               \* PASS_THROUGH_REVENUE_MIN_EMPLOYEES
  PerEmployeeMin, PerEmployeeMax, \* plausible revenue of an employee
  RetryAfter,       \* ICP_RETRY_AFTER_DAYS
  MaxEvaluations,   \* ICP_MAX_EVALUATION_ATTEMPTS
  SweepLimit,       \* companies in one sweep
  MaxIcpDay,        \* bound on days
  MaxEdits          \* bound on the operator's edits

OrUnknown(S) == S \cup {Unknown}
Known(x) == x # Unknown

(* A company's row as far as an ICP asks for it.                           *)
FirmShape ==
  [employees: OrUnknown(Nat), lower: OrUnknown(Nat), higher: OrUnknown(Nat),
   salesShare: OrUnknown(0..100), role: OrUnknown(FirmRoles), passThrough: BOOLEAN]

IcpShape ==
  [id: STRING, revenueMin: OrUnknown(Nat), revenueMax: OrUnknown(Nat), employeeMin: OrUnknown(Nat),
   employeeMax: OrUnknown(Nat), salesMax: OrUnknown(Nat), presence: BOOLEAN, roles: SUBSET FirmRoles]

(* Every company on file and every ICP has its shape.                      *)
ASSUME FactsAssumption == FirmFacts \subseteq FirmShape /\ Icps \subseteq IcpShape

(* NULL is neither a number, a company, a worker nor a row; a company is   *)
(* evaluated at least once.                                                *)
ASSUME IcpAssumption ==
  /\ Unknown \notin Nat /\ Unknown \notin Firms /\ Unknown \notin IcpWorkers /\ Unknown \notin FirmShape
  /\ Figures \subseteq Nat /\ RetryAfter \in Nat /\ MaxEvaluations \in Nat \ {0}
  /\ MaxIcpDay \in Nat /\ MaxEdits \in Nat

-----------------------------------------------------------------------------
(* The evaluation of one company against one ICP.                          *)

Reported(f) == Known(f.lower) \/ Known(f.higher)
Headcount(f) == Known(f.employees) /\ f.employees > 0

HasRevenue(f) == Reported(f) \/ Headcount(f)
_estimated_revenue_range(f) ==
  IF Reported(f)
  THEN <<IF Known(f.lower) THEN f.lower ELSE f.higher, IF Known(f.higher) THEN f.higher ELSE f.lower>>
  ELSE <<f.employees * RevenueP25, f.employees * RevenueP75>>

(* The least number of sales people, in hundredths.                        *)
_estimated_sales_team_size_range(f) ==
  f.employees * (IF Known(f.salesShare) THEN f.salesShare ELSE SalesP25)

_needs_real_revenue_check(f) ==
  /\ Known(f.employees) /\ f.employees > PassThroughMin
  /\ f.passThrough

AtLeast(x, least) == Known(least) => x >= least
AtMost(x, most) == Known(most) => x <= most

AsksRevenue(i) == Known(i.revenueMin) \/ Known(i.revenueMax)
AsksHeadcount(i) == Known(i.employeeMin) \/ Known(i.employeeMax)

(* A pass-through industry's proxy is not to be trusted: the figure itself *)
(* is what is missing.                                                     *)
RevenueBlocked(f, i) ==
  AsksRevenue(i) /\ ~Reported(f) /\ Headcount(f) /\ _needs_real_revenue_check(f)

Missing(f, i) ==
  \/ AsksRevenue(i) /\ ~HasRevenue(f)
  \/ RevenueBlocked(f, i)
  \/ (AsksHeadcount(i) \/ Known(i.salesMax)) /\ ~Known(f.employees)
  \/ ~Known(f.role)

RevenueFits(f, i) ==
  AsksRevenue(i) =>
    /\ AtLeast(_estimated_revenue_range(f)[2], i.revenueMin)
    /\ AtMost(_estimated_revenue_range(f)[1], i.revenueMax)
HeadcountFits(f, i) == AtLeast(f.employees, i.employeeMin) /\ AtMost(f.employees, i.employeeMax)
SalesTeamFits(f, i) ==
  Known(i.salesMax) => _estimated_sales_team_size_range(f) <= 100 * i.salesMax
RoleFits(f, i) == i.presence <=> f.role \in i.roles

Matched(f, i) ==
  ~Missing(f, i) /\ RevenueFits(f, i) /\ HeadcountFits(f, i) /\ SalesTeamFits(f, i) /\ RoleFits(f, i)

AnyMatch(f) == \E i \in Icps : Matched(f, i)

(* Without the look at the figure on file.                                 *)
BugFailsOnRevenue(f) ==
  /\ ~AnyMatch(f)
  /\ \E i \in Icps : Matched(f, [i EXCEPT !.revenueMin = Unknown, !.revenueMax = Unknown])

(* With the revenue bands taken out of the ICPs.                           *)
FailsOnRevenue(f) ==
  /\ ~AnyMatch(f) /\ Known(f.lower)
  /\ \E i \in Icps : Matched(f, [i EXCEPT !.revenueMin = Unknown, !.revenueMax = Unknown])

(* A figure that no company of this size could have is another company's.  *)
_implausible_for_headcount(figure, f) ==
  /\ Headcount(f) /\ f.employees >= 5
  /\ \/ figure > f.employees * PerEmployeeMax
     \/ figure < f.employees * PerEmployeeMin
-----------------------------------------------------------------------------
VARIABLES
  firm,       \* firm[c]: the company's row, or Unknown if there is none
  evaluated,  \* evaluated[c]: [day, missing, attempts], or Unknown
  matches,    \* rows of icp_matches: {<<company, ICP>>}
  icpWorker,  \* icpWorker[w]: what the worker does, its rows as it read them
  icpDay,     \* days since the start
  edits,      \* edits by the operator
  stale,      \* companies whose row changed since their last evaluation read it
  mixed,      \* companies that two workers had at once
  tries,      \* tries[c]: evaluations that lacked information
  hurried,    \* companies evaluated again before they were due
  misjudged   \* companies deleted though no reported figure of theirs failed

icpGhosts == <<stale, mixed, tries, hurried, misjudged>>
icpVars == <<firm, evaluated, matches, icpWorker, icpDay, edits, icpGhosts>>

Evaluation == [day: OrUnknown(0..MaxIcpDay), missing: BOOLEAN, attempts: Nat]
NotEvaluated == [day |-> Unknown, missing |-> FALSE, attempts |-> 0]
NoWork == [does |-> "nothing", todo |-> {}, on |-> Unknown]
OnFile == {c \in Firms : Known(firm[c])}

IcpTypeOK ==
  /\ \A c \in Firms : Known(firm[c]) => firm[c] \in FirmShape
  /\ evaluated \in [Firms -> Evaluation]
  /\ matches \subseteq Firms \X Icps
  /\ \A w \in IcpWorkers : icpWorker[w].does \in {"nothing", "sweeps", "gates", "backfills"}
  /\ icpDay \in 0..MaxIcpDay /\ edits \in 0..MaxEdits
  /\ stale \subseteq Firms /\ mixed \subseteq Firms /\ hurried \subseteq Firms /\ misjudged \subseteq Firms

IcpInit ==
  /\ firm \in [Firms -> OrUnknown(FirmFacts)]
  /\ evaluated = [c \in Firms |-> NotEvaluated]
  /\ matches = {} /\ icpWorker = [w \in IcpWorkers |-> NoWork]
  /\ icpDay = 0 /\ edits = 0
  /\ stale = {} /\ mixed = {} /\ hurried = {} /\ misjudged = {}
  /\ tries = [c \in Firms |-> 0]
-----------------------------------------------------------------------------
(* What the others see of a change to the row of c by worker w, or by      *)
(* nobody's worker: the last evaluation is out of date, and a gate that    *)
(* holds the row holds an old one.                                         *)
Holders(c) == {w \in IcpWorkers : c \in icpWorker[w].todo \cup {icpWorker[w].on}}
GateHolds(c, w) == \E v \in Holders(c) \ {w} : icpWorker[v].does = "gates"

Changed(c, w, row) ==
  /\ firm' = [firm EXCEPT ![c] = row]
  /\ stale' = IF Known(evaluated[c].day) \/ Holders(c) # {} THEN stale \cup {c} ELSE stale
  /\ mixed' = IF GateHolds(c, w) THEN mixed \cup {c} ELSE mixed

(* The rows of run_icp_matching_sweep's query, those never evaluated       *)
(* first, then the longest ago.                                            *)
Due(c) ==
  LET e == evaluated[c] IN
  \/ ~Known(e.day)
  \/ e.missing /\ e.day < icpDay - RetryAfter /\ e.attempts < MaxEvaluations

Sooner(c, d) ==
  Known(evaluated[d].day) /\ (Known(evaluated[c].day) => evaluated[c].day < evaluated[d].day)

DueFirms == {c \in OnFile : Due(c)}
Selections ==
  {S \in SUBSET DueFirms :
     /\ Cardinality(S) = Min({SweepLimit, Cardinality(DueFirms)})
     /\ \A c \in S, d \in DueFirms \ S : ~Sooner(d, c)}

Idle(w) == icpWorker[w].does = "nothing"
Between(w, kind) == icpWorker[w].does = kind /\ ~Known(icpWorker[w].on)
Has(w, kind) == icpWorker[w].does = kind /\ Known(icpWorker[w].on)

run_icp_matching_sweep(w) ==
  /\ Idle(w) /\ DueFirms # {}
  /\ \E S \in Selections :
       /\ icpWorker' = [icpWorker EXCEPT ![w] = [does |-> "sweeps", todo |-> S, on |-> Unknown]]
       /\ mixed' = mixed \cup {c \in S : \E v \in Holders(c) : icpWorker[v].does = "sweeps"}
  /\ UNCHANGED <<firm, evaluated, matches, icpDay, edits, stale, tries, hurried, misjudged>>

(* A company that is gone is passed over; another is read and evaluated,   *)
(* before its verdicts are written.                                        *)
evaluate_icp_matches_for_company(w, c) ==
  LET rest == icpWorker[w].todo \ {c} f == firm[c] IN
  /\ Between(w, "sweeps") /\ c \in icpWorker[w].todo
  /\ icpWorker' = [icpWorker EXCEPT ![w] =
       IF Known(f)
       THEN [does |-> "sweeps", todo |-> rest, on |-> c, row |-> f, attempts |-> evaluated[c].attempts,
             left |-> {i \in Icps : ~Missing(f, i)}]
       ELSE [does |-> "sweeps", todo |-> rest, on |-> Unknown]]
  /\ stale' = stale \ {c}
  /\ UNCHANGED <<firm, evaluated, matches, icpDay, edits, mixed, tries, hurried, misjudged>>

(* One verdict and its commit, after which the row is read anew.  A match  *)
(* cannot refer to a company that is gone.                                 *)
record_icp_match(w) ==
  LET me == icpWorker[w] IN
  /\ Has(w, "sweeps") /\ me.left # {}
  /\ LET i == CHOOSE i \in me.left : TRUE
         pair == <<me.on, i>>
         writes == Matched(me.row, i) \/ pair \in matches
     IN
     /\ Matched(me.row, i) => me.on \in OnFile
     /\ matches' = IF Matched(me.row, i) THEN matches \cup {pair} ELSE matches \ {pair}
     /\ icpWorker' = [icpWorker EXCEPT ![w].left = @ \ {i},
                                      ![w].attempts = IF writes THEN Unknown ELSE @]
  /\ UNCHANGED <<firm, evaluated, icpDay, edits, icpGhosts>>

(* What was missing counts as an attempt; a complete evaluation is final.  *)
StampEvaluation(w) ==
  LET me == icpWorker[w]
      c == me.on
      before == evaluated[c]
      missing == \E i \in Icps : Missing(me.row, i)
      attempts == IF Known(me.attempts) THEN me.attempts ELSE before.attempts
  IN
  /\ Has(w, "sweeps") /\ me.left = {} /\ c \in OnFile
  /\ evaluated' = [evaluated EXCEPT ![c] =
       [day |-> icpDay, missing |-> missing,
        attempts |-> IF missing THEN attempts + 1 ELSE before.attempts]]
  /\ tries' = IF missing THEN [tries EXCEPT ![c] = @ + 1] ELSE tries
  /\ hurried' = IF Known(before.day) /\ icpDay <= before.day + RetryAfter THEN hurried \cup {c} ELSE hurried
  /\ icpWorker' = [icpWorker EXCEPT ![w] = [does |-> "sweeps", todo |-> me.todo, on |-> Unknown]]
  /\ UNCHANGED <<firm, matches, icpDay, edits, stale, mixed, misjudged>>

(* Any error ends one company only: the verdicts committed so far stay,    *)
(* and the company is due as before.                                       *)
EvaluationFails(w) ==
  LET me == icpWorker[w] IN
  /\ Has(w, "sweeps")
  /\ icpWorker' = [icpWorker EXCEPT ![w] = [does |-> "sweeps", todo |-> me.todo, on |-> Unknown]]
  /\ stale' = stale \cup {me.on}
  /\ UNCHANGED <<firm, evaluated, matches, icpDay, edits, mixed, tries, hurried, misjudged>>

-----------------------------------------------------------------------------
(* The gate reads every row of the batch at once; each commit of its own   *)
(* makes it read them anew.                                                *)
gate_batch_before_decision_makers(w) ==
  /\ Idle(w) /\ OnFile # {}
  /\ icpWorker' = [icpWorker EXCEPT ![w] =
       [does |-> "gates", todo |-> OnFile, on |-> Unknown, rows |-> firm, asked |-> FALSE]]
  /\ UNCHANGED <<firm, evaluated, matches, icpDay, edits, icpGhosts>>

GateTakes(w, c) ==
  /\ Between(w, "gates") /\ c \in icpWorker[w].todo
  /\ icpWorker' = [icpWorker EXCEPT ![w].todo = @ \ {c}, ![w].on = c, ![w].asked = FALSE]
  /\ UNCHANGED <<firm, evaluated, matches, icpDay, edits, icpGhosts>>

run_revenue_backfill_sweep(w) ==
  LET without == {c \in OnFile : ~Reported(firm[c])} IN
  /\ Idle(w) /\ without # {}
  /\ \E S \in SUBSET without :
       /\ Cardinality(S) = Min({SweepLimit, Cardinality(without)})
       /\ icpWorker' = [icpWorker EXCEPT ![w] =
            [does |-> "backfills", todo |-> S, on |-> Unknown, rows |-> <<>>, asked |-> FALSE]]
  /\ UNCHANGED <<firm, evaluated, matches, icpDay, edits, icpGhosts>>

(* The backfill reads each row when it comes to it.                        *)
BackfillTakes(w, c) ==
  /\ Between(w, "backfills") /\ c \in icpWorker[w].todo
  /\ icpWorker' = [icpWorker EXCEPT ![w].todo = @ \ {c}, ![w].on = IF c \in OnFile THEN c ELSE Unknown,
                                   ![w].rows = [d \in {c} |-> firm[c]], ![w].asked = FALSE]
  /\ UNCHANGED <<firm, evaluated, matches, icpDay, edits, icpGhosts>>

NeedsRevenue(f) == ~Known(f.lower) /\ (AnyMatch(f) \/ \E i \in Icps : RevenueBlocked(f, i))

(* The question is due: the backfill asks whatever has no figure, the gate *)
(* what could match.                                                       *)
Asks(w) ==
  LET me == icpWorker[w] IN
  /\ Has(w, "gates") \/ Has(w, "backfills")
  /\ ~me.asked /\ Known(me.rows[me.on])
  /\ me.does = "gates" => NeedsRevenue(me.rows[me.on])

(* Deepline, then Google: a figure that is plausible, on the row as read,  *)
(* is written over whatever the row has by now; or none is found.          *)
estimate_company_revenue(w) ==
  LET me == icpWorker[w]
      c == me.on
      f == me.rows[c]
  IN
  /\ Asks(w)
  /\ \/ /\ UNCHANGED <<firm, stale, mixed>>
        /\ icpWorker' = [icpWorker EXCEPT ![w].asked = TRUE]
     \/ \E figure \in Figures :
          /\ ~Reported(f) /\ ~_implausible_for_headcount(figure, f) /\ c \in OnFile
          /\ Changed(c, w, [firm[c] EXCEPT !.lower = figure, !.higher = figure])
          /\ icpWorker' = [icpWorker EXCEPT ![w].asked = TRUE,
                                           ![w].rows = IF me.does = "gates" THEN firm' ELSE @]
  /\ UNCHANGED <<evaluated, matches, icpDay, edits, tries, hurried, misjudged>>

BackfillNext(w) ==
  /\ Has(w, "backfills") /\ icpWorker[w].asked
  /\ icpWorker' = [icpWorker EXCEPT ![w].on = Unknown, ![w].rows = <<>>]
  /\ UNCHANGED <<firm, evaluated, matches, icpDay, edits, icpGhosts>>

(* The row as the gate has it decides: a company that fails on a real      *)
(* figure goes, with its matches.                                          *)
GateJudges(w) ==
  LET me == icpWorker[w]
      c == me.on
      drops == FailsOnRevenue(me.rows[c])
  IN
  /\ Has(w, "gates") /\ ~Asks(w) /\ Known(me.rows[c])
  /\ IF drops
     THEN /\ firm' = [firm EXCEPT ![c] = Unknown]
          /\ evaluated' = [evaluated EXCEPT ![c] = NotEvaluated]
          /\ matches' = {m \in matches : m[1] # c}
          /\ misjudged' = IF c \in OnFile /\ (~Reported(firm[c]) \/ AnyMatch(firm[c]))
                          THEN misjudged \cup {c} ELSE misjudged
          /\ icpWorker' = [icpWorker EXCEPT ![w].on = Unknown, ![w].rows = firm']
     ELSE /\ icpWorker' = [icpWorker EXCEPT ![w].on = Unknown]
          /\ UNCHANGED <<firm, evaluated, matches, misjudged>>
  /\ UNCHANGED <<icpDay, edits, stale, mixed, tries, hurried>>

(* All is done; or a row that is read anew is gone, or another error, and  *)
(* the request ends where it is.                                           *)
WorkEnds(w) ==
  /\ ~Idle(w) /\ (icpWorker[w].does = "sweeps" => Between(w, "sweeps"))
  /\ icpWorker' = [icpWorker EXCEPT ![w] = NoWork]
  /\ UNCHANGED <<firm, evaluated, matches, icpDay, edits, icpGhosts>>

-----------------------------------------------------------------------------
Edit == edits < MaxEdits /\ edits' = edits + 1

set_company_real_revenue(c, figure) ==
  /\ Edit /\ c \in OnFile
  /\ Changed(c, Unknown, [firm[c] EXCEPT !.lower = figure, !.higher = figure])
  /\ UNCHANGED <<evaluated, matches, icpWorker, icpDay, tries, hurried, misjudged>>

(* What is not on file yet is filled in.                                   *)
enrich_company(c) ==
  /\ Edit /\ c \in OnFile
  /\ \E f \in FirmFacts :
       /\ \A x \in {"employees", "salesShare", "role"} : Known(firm[c][x]) => f[x] = firm[c][x]
       /\ Changed(c, Unknown, [firm[c] EXCEPT !.employees = f.employees, !.salesShare = f.salesShare,
                                              !.role = f.role])
  /\ UNCHANGED <<evaluated, matches, icpWorker, icpDay, tries, hurried, misjudged>>

IcpDayPasses ==
  /\ icpDay < MaxIcpDay /\ icpDay' = icpDay + 1
  /\ UNCHANGED <<firm, evaluated, matches, icpWorker, edits, icpGhosts>>

IcpNext ==
  \/ \E w \in IcpWorkers :
       \/ run_icp_matching_sweep(w) \/ record_icp_match(w) \/ StampEvaluation(w) \/ EvaluationFails(w)
       \/ gate_batch_before_decision_makers(w) \/ run_revenue_backfill_sweep(w)
       \/ estimate_company_revenue(w) \/ BackfillNext(w) \/ GateJudges(w) \/ WorkEnds(w)
       \/ \E c \in Firms : evaluate_icp_matches_for_company(w, c) \/ GateTakes(w, c) \/ BackfillTakes(w, c)
  \/ \E c \in Firms : enrich_company(c) \/ \E figure \in Figures : set_company_real_revenue(c, figure)
  \/ IcpDayPasses

IcpSpec == IcpInit /\ [][IcpNext]_icpVars

-----------------------------------------------------------------------------
(* What stands in icp_matches is what the rules say of the company's row   *)
(* as it is, unless the row changed after its evaluation read it, or two   *)
(* workers had it at once (ICPMatch: a pair that currently matches).       *)
SettledMatchIsTrue ==
  \A c \in OnFile \ (stale \cup mixed) :
    Known(evaluated[c].day) /\ (\A w \in Holders(c) : icpWorker[w].does # "sweeps") =>
      \A i \in Icps : ~Missing(firm[c], i) => (<<c, i>> \in matches <=> Matched(firm[c], i))

(* A company that lacks information is evaluated three times, at least a   *)
(* week apart, and one that lacks none only once.                          *)
RetriesAreBounded ==
  \A c \in Firms \ mixed : tries[c] <= MaxEvaluations /\ c \notin hurried

(* Only a company whose reported figure fails is deleted: never one that   *)
(* has a headcount's proxy only, or that matches.                          *)
DropIsJustified == misjudged \subseteq mixed

(* No match is left of a company that is gone.                             *)
NoOrphanMatch == \A m \in matches : m[1] \in OnFile

(* The rules of the matches: those that stand are true, retries are few    *)
(* and apart, and only a company that fails on a reported figure goes,     *)
(* with its matches; the variables have their types.                       *)
IcpRules == IcpTypeOK /\ SettledMatchIsTrue /\ RetriesAreBounded /\ DropIsJustified /\ NoOrphanMatch
=============================================================================
