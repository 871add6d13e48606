------------------------------- MODULE Sourcing -------------------------------
(***************************************************************************)
(* Firmographic discovery for a partner tenant: run_icp_filters of         *)
(* plays/icp_filters.py, the router of sourcing/planner.py that chooses    *)
(* between Icypeas and Crustdata, the daily quota, the pool of companies   *)
(* shared by all tenants, and the decision-maker lookup.  A run is one     *)
(* request to the route; nothing keeps two of them apart, so each commit   *)
(* and each paid call is an action.  A company is its lead key; a page of  *)
(* a provider's list is a number, and what is on it is open.               *)
(***************************************************************************)
EXTENDS Naturals, FiniteSets, SequencesExt

CONSTANTS
  Firms,          \* companies the providers know
  FirmRuns,       \* requests to the route
  FirmsPushed,    \* companies with a CampaignPush
  FirmsPooled,    \* companies other tenants found before
  NoFirm,
  DailyTarget,    \* daily_account_target
  PagesPerRun,    \* the route's `pages`
  BreakAt,        \* CIRCUIT_BREAK_FAILURES
  MaxPage,        \* bound: pages of a provider's list
  MaxIcpEdits,    \* bound: changes of the filters
  MaxFirmFaults   \* bound: failed commits and crashes

ASSUME SourcingAssumption ==
  /\ IsFiniteSet(Firms) /\ NoFirm \notin Firms /\ FirmsPushed \cup FirmsPooled \subseteq Firms
  /\ {DailyTarget, PagesPerRun, BreakAt, MaxPage} \subseteq Nat \ {0}
  /\ {MaxIcpEdits, MaxFirmFaults} \subseteq Nat

VARIABLES
  firmLead,    \* gtm_leads of the play, by lead_key
  leadToday,   \* leads created today
  named,       \* companies that a lead refers to by company_id
  firmRow,     \* companies of the tenant
  firmContact, \* companies with a decision maker
  strategies,  \* GtmStrategy rows per company
  poolRow,     \* company_pool
  poolGiven,   \* pool_deliveries of the tenant
  listCursor,  \* per provider: the filters it is for, the page to come, exhausted_at
  strikes,     \* per provider: its last attempts this hour that count against it
  icpEdition,
  firmRun,     \* the local state of each run
  bought,      \* history: pages paid for whose list has not begun anew
  again,       \* history: pages paid for twice
  offered,     \* history: times a pooled company was worked on
  firmsMet,    \* history: two runs were once active together
  firmFaults

firmTables == <<firmLead, leadToday, named, firmRow, firmContact, strategies, poolRow>>
routeTables == <<poolGiven, listCursor, strikes, icpEdition>>
firmHistory == <<bought, again, offered, firmsMet, firmFaults>>
sourcingVars == <<firmTables, routeTables, firmRun, firmHistory>>

FirmProviders == {"icypeas", "crustdata"}
FirmSteps == {"idle", "search", "pool", "mark", "judge", "person", "insert", "page", "keep", "industry",
              "rows", "trim", "settle", "turn", "end", "route", "qualify", "promote", "over"}
FirmFilters == [edition : 0..MaxIcpEdits, without : SUBSET Firms]
Blank == [pc |-> "idle", order |-> <<>>, filters |-> [edition |-> 0, without |-> {}], page |-> 1, turns |-> 0,
          known |-> {}, todo |-> {}, pending |-> {}, found |-> {}, at |-> NoFirm, from |-> "page", need |-> 0,
          made |-> 0, rows |-> FALSE, last |-> FALSE, unsaved |-> {}, outcome |-> "none", broken |-> FALSE]

SourcingTypeOK ==
  /\ firmLead \in [Firms -> {"absent", "signal", "rejected", "contact_found"}]
  /\ \A s \in {leadToday, named, firmRow, firmContact, poolRow, poolGiven} : s \subseteq Firms
  /\ named \subseteq firmRow
  /\ \A f \in Firms : firmLead[f] \in {"signal", "contact_found"} => f \in firmContact \cap named
  /\ listCursor \in [FirmProviders -> [filters : FirmFilters, page : 1..MaxPage, exhausted : BOOLEAN]]
  /\ strikes \in [FirmProviders -> 0..BreakAt] /\ icpEdition \in 0..MaxIcpEdits
  /\ \A r \in FirmRuns :
       /\ DOMAIN firmRun[r] = DOMAIN Blank /\ firmRun[r].pc \in FirmSteps
       /\ firmRun[r].at \in Firms \cup {NoFirm} /\ firmRun[r].page \in 1..MaxPage
       /\ firmRun[r].known \cup firmRun[r].todo \cup firmRun[r].pending \cup firmRun[r].found \subseteq Firms
  /\ {strategies, offered} \subseteq [Firms -> Nat]
  /\ firmsMet \in BOOLEAN /\ firmFaults \in 0..MaxFirmFaults

SourcingInit ==
  /\ firmLead = [f \in Firms |-> "absent"] /\ leadToday = {} /\ named = {}
  /\ firmRow = FirmsPushed /\ firmContact = FirmsPushed /\ strategies = [f \in Firms |-> 0]
  /\ poolRow = FirmsPooled /\ poolGiven = {}
  /\ listCursor = [p \in FirmProviders |-> [filters |-> Blank.filters, page |-> 1, exhausted |-> FALSE]]
  /\ strikes \in [FirmProviders -> {0, BreakAt}] /\ icpEdition = 0
  /\ firmRun = [r \in FirmRuns |-> Blank]
  /\ bought = {} /\ again = {} /\ offered = [f \in Firms |-> 0]
  /\ firmsMet = FALSE /\ firmFaults = 0

At(r, step) == firmRun[r].pc = step
Busy(r) == firmRun[r].pc \notin {"idle", "over"}
Provider(r) == Head(firmRun[r].order)
Put(r, run) == firmRun' = [firmRun EXCEPT ![r] = run]
Go(r, step) == Put(r, [firmRun[r] EXCEPT !.pc = step])
Ends(r) == Put(r, [Blank EXCEPT !.pc = "over"])
(* The run leaves the company in hand: one from the pool is marked.        *)
Left(r) == [firmRun[r] EXCEPT !.pc = IF firmRun[r].from = "pool" THEN "mark" ELSE "rows",
                              !.at = IF firmRun[r].from = "pool" THEN @ ELSE NoFirm,
                              !.known = @ \cup {firmRun[r].at}]
Quota == LET n == Cardinality({f \in leadToday : firmLead[f] # "rejected"})
         IN IF n >= DailyTarget THEN 0 ELSE DailyTarget - n
FirmFault == firmFaults < MaxFirmFaults /\ firmFaults' = firmFaults + 1
AddLead(f, s) == firmLead' = [firmLead EXCEPT ![f] = s] /\ leadToday' = leadToday \cup {f}
Signals == {f \in Firms : firmLead[f] = "signal"}
Paid(p, filters, page) == [provider |-> p, filters |-> filters, page |-> page]

-----------------------------------------------------------------------------
(* The ICP is edited, or an industry was rejected often enough to be left  *)
(* out of the filters.  An edit back to former filters counts as a new one: *)
(* the cursor was overwritten, and their list begins anew.                 *)
FiltersChange ==
  /\ icpEdition < MaxIcpEdits
  /\ icpEdition' = icpEdition + 1
  /\ UNCHANGED <<firmTables, poolGiven, listCursor, strikes, firmRun, firmHistory>>

(* A day goes by, and with it the hour that the breaker looks at; the      *)
(* cooldown of seven days may end with it.                                 *)
DayPasses ==
  /\ leadToday # {} \/ \E p \in FirmProviders : strikes[p] > 0 \/ listCursor[p].exhausted
  /\ leadToday' = {} /\ strikes' = [p \in FirmProviders |-> 0]
  /\ \/ UNCHANGED <<listCursor, bought>>
     \/ /\ listCursor["icypeas"].exhausted
        /\ listCursor' = [listCursor EXCEPT !["icypeas"].exhausted = FALSE]
        /\ bought' = {b \in bought : b.provider # "icypeas"}
  /\ UNCHANGED <<firmLead, named, firmRow, firmContact, strategies, poolRow, poolGiven, icpEdition, firmRun,
                 again, offered, firmsMet, firmFaults>>

(* The reconcile routes add a rejected lead of their own for a company.    *)
Reconcile(f) ==
  /\ f \in firmRow \ named
  /\ named' = named \cup {f}
  /\ UNCHANGED <<firmLead, leadToday, firmRow, firmContact, strategies, poolRow, routeTables, firmRun, firmHistory>>

(* rank: the coverage of the ICP decides, after the state of the breaker.  *)
Usable == {p \in FirmProviders : strikes[p] < BreakAt}
StartSourcing(r) ==
  /\ At(r, "idle")
  /\ \E order \in SetToSeqs(Usable) :
       Put(r, IF order = <<>> THEN [Blank EXCEPT !.pc = "qualify", !.todo = Signals]
              ELSE [Blank EXCEPT !.pc = "search", !.order = order])
  /\ firmsMet' = (firmsMet \/ \E q \in FirmRuns : Busy(q))
  /\ UNCHANGED <<firmTables, routeTables, bought, again, offered, firmFaults>>

(* The control plane halts, or there is no ICP.                            *)
SourcingSkipped(r) ==
  /\ At(r, "idle") /\ Ends(r)
  /\ UNCHANGED <<firmTables, routeTables, firmHistory>>

-----------------------------------------------------------------------------
(* search_icypeas and search_crustdata.  Crustdata's filters leave out the *)
(* companies named so far.                                                 *)
FiltersFor(p) == [edition |-> icpEdition, without |-> IF p = "crustdata" THEN named ELSE {}]
Resumes(p) == listCursor[p].filters = FiltersFor(p)
Cooling(p) == p = "icypeas" /\ Resumes(p) /\ listCursor[p].exhausted

BeginSearch(r) ==
  LET p == Provider(r) IN
  /\ At(r, "search")
  /\ IF Cooling(p) \/ Quota = 0
     THEN Put(r, [firmRun[r] EXCEPT !.pc = "route", !.outcome = "empty_suspect"])
     ELSE \E matches \in SUBSET (poolRow \ poolGiven) :
            /\ Cardinality(matches) <= Quota
            /\ Put(r, [Blank EXCEPT !.pc = "pool", !.order = firmRun[r].order,
                         !.filters = FiltersFor(p), !.page = IF Resumes(p) THEN listCursor[p].page ELSE 1,
                         !.known = {f \in Firms : firmLead[f] # "absent"}, !.todo = matches, !.need = Quota])
  /\ UNCHANGED <<firmTables, routeTables, firmHistory>>

WorkOnPooled(r) ==
  /\ At(r, "pool")
  /\ \E f \in firmRun[r].todo :
       /\ Put(r, [firmRun[r] EXCEPT !.pc = "judge", !.from = "pool", !.at = f, !.todo = @ \ {f}])
       /\ offered' = [offered EXCEPT ![f] = @ + 1]
  /\ UNCHANGED <<firmTables, routeTables, bought, again, firmsMet, firmFaults>>

(* A bug: the delivery is not committed.                                   *)
BugMarkDelivered(r) ==
  /\ At(r, "mark")
  /\ Put(r, [firmRun[r] EXCEPT !.pc = "pool", !.at = NoFirm])
  /\ UNCHANGED <<firmTables, routeTables, firmHistory>>

MarkDelivered(r) ==
  /\ At(r, "mark")
  /\ poolGiven' = poolGiven \cup {firmRun[r].at}
  /\ Put(r, [firmRun[r] EXCEPT !.pc = "pool", !.at = NoFirm])
  /\ UNCHANGED <<firmTables, listCursor, strikes, icpEdition, firmHistory>>

(* The quota is planned again if the pool gave something.                  *)
PoolDone(r) ==
  /\ At(r, "pool") /\ firmRun[r].todo = {}
  /\ LET need == IF firmRun[r].made > 0 THEN Quota ELSE firmRun[r].need
         run == [firmRun[r] EXCEPT !.need = need, !.from = "page"]
     IN IF firmRun[r].broken /\ firmRun[r].made > 0 THEN Ends(r)
        ELSE IF need = 0 THEN Put(r, [run EXCEPT !.pc = "route", !.outcome = "empty_suspect"])
        ELSE Put(r, [run EXCEPT !.pc = "page"])
  /\ UNCHANGED <<firmTables, routeTables, firmHistory>>

(* Icypeas counts for free: no company matches.                            *)
CountsNone(r) ==
  /\ At(r, "page") /\ Provider(r) = "icypeas" /\ firmRun[r].page = 1 /\ firmRun[r].turns = 0 /\ ~firmRun[r].broken
  /\ listCursor' = [listCursor EXCEPT !["icypeas"] = [filters |-> firmRun[r].filters, page |-> 1, exhausted |-> TRUE]]
  /\ Put(r, [firmRun[r] EXCEPT !.pc = "route", !.outcome = "empty_validated"])
  /\ UNCHANGED <<firmTables, poolGiven, strikes, icpEdition, firmHistory>>

(* _outcome_of a search that stopped early                                 *)
Stop(r, run, outcome) == Put(r, [run EXCEPT !.pc = "end", !.outcome = outcome])
SearchRefused(r) ==
  /\ At(r, "page") /\ Stop(r, firmRun[r], "budget_blocked")
  /\ UNCHANGED <<firmTables, routeTables, firmHistory>>

SearchFails(r) ==
  /\ At(r, "page")
  /\ Stop(r, firmRun[r], IF firmRun[r].rows THEN "ok" ELSE "empty_suspect")
  /\ UNCHANGED <<firmTables, routeTables, firmHistory>>

PageArrives(r) ==
  LET p == Provider(r)
      page == firmRun[r].page
      paid == Paid(p, firmRun[r].filters, page) IN
  /\ At(r, "page")
  /\ \E hits \in SUBSET Firms :
       Put(r, [firmRun[r] EXCEPT !.pc = "keep", !.todo = hits, !.unsaved = @ \cup {page}, !.rows = @ \/ hits # {},
                                 !.page = IF page < MaxPage THEN page + 1 ELSE 1,
                                 !.last = hits = {} \/ page = MaxPage])
  /\ again' = again \cup (bought \cap {paid})
  /\ bought' = bought \cup {paid}
  /\ UNCHANGED <<firmTables, routeTables, offered, firmsMet, firmFaults>>

SavedAs(r, exhausted) == [filters |-> firmRun[r].filters, page |-> firmRun[r].page, exhausted |-> exhausted]
KeepCursor(r) ==
  /\ At(r, "keep") /\ ~firmRun[r].broken
  /\ LET run == [firmRun[r] EXCEPT !.pc = IF Provider(r) = "crustdata" THEN "industry" ELSE "rows"] IN
     \/ /\ listCursor' = [listCursor EXCEPT ![Provider(r)] = SavedAs(r, FALSE)]
        /\ Put(r, [run EXCEPT !.unsaved = {}]) /\ UNCHANGED firmFaults
     \/ FirmFault /\ Put(r, run) /\ UNCHANGED listCursor
  /\ UNCHANGED <<firmTables, poolGiven, strikes, icpEdition, bought, again, offered, firmsMet>>

(* verify_sample: Icypeas's page is judged before the cursor is saved,     *)
(* Crustdata's after it.                                                   *)
QualityFails(r) ==
  /\ firmRun[r].todo # {}
  /\ (At(r, "keep") /\ Provider(r) = "icypeas") \/ (At(r, "industry") /\ Provider(r) = "crustdata")
  /\ Stop(r, [firmRun[r] EXCEPT !.todo = {}], "quality_fail")
  /\ UNCHANGED <<firmTables, routeTables, firmHistory>>

(* The language model finds a company to be of another industry.           *)
IndustryRejects(r) ==
  /\ At(r, "industry")
  /\ \E f \in firmRun[r].todo :
       /\ Put(r, [firmRun[r] EXCEPT !.todo = @ \ {f}, !.known = @ \cup {f}])
       /\ IF f \in firmRun[r].known \/ firmLead[f] # "absent"
          THEN UNCHANGED firmTables
          ELSE /\ AddLead(f, "rejected")
               /\ firmRow' = firmRow \cup {f} /\ named' = named \cup {f}
               /\ UNCHANGED <<firmContact, strategies, poolRow>>
  /\ UNCHANGED <<routeTables, firmHistory>>

IndustryDone(r) ==
  /\ At(r, "industry") /\ Go(r, "rows")
  /\ UNCHANGED <<firmTables, routeTables, firmHistory>>

-----------------------------------------------------------------------------
(* _process_icypeas_company, for a row of the pool or of a page            *)
WorkOnRow(r) ==
  /\ At(r, "rows")
  /\ \E f \in firmRun[r].todo : Put(r, [firmRun[r] EXCEPT !.pc = "judge", !.at = f, !.todo = @ \ {f}])
  /\ UNCHANGED <<firmTables, routeTables, firmHistory>>

SkipFirm(r) ==
  /\ At(r, "judge")
  /\ firmRun[r].at \in firmRun[r].known \cup FirmsPushed
  /\ Put(r, Left(r))
  /\ UNCHANGED <<firmTables, routeTables, firmHistory>>

(* A vendor, a public body, no data to judge by; or, with the leadership   *)
(* at hand, a department the ICP rules out.                                *)
RejectFirm(r) ==
  LET f == firmRun[r].at IN
  /\ At(r, "judge") \/ At(r, "person")
  /\ At(r, "judge") => f \notin firmRun[r].known
  /\ firmLead[f] = "absent"
  /\ AddLead(f, "rejected") /\ Put(r, Left(r))
  /\ UNCHANGED <<named, firmRow, firmContact, strategies, poolRow, routeTables, firmHistory>>

AcceptFirm(r) ==
  LET f == firmRun[r].at IN
  /\ At(r, "judge") /\ f \notin firmRun[r].known \cup FirmsPushed
  /\ firmRow' = firmRow \cup {f} /\ poolRow' = poolRow \cup {f}
  /\ Go(r, "person")
  /\ UNCHANGED <<firmLead, leadToday, named, firmContact, strategies, routeTables, firmHistory>>

(* Jobo lists a leader with a profile: no paid lookup is needed.           *)
FreeLeader(r) ==
  /\ At(r, "person")
  /\ firmContact' = firmContact \cup {firmRun[r].at}
  /\ Go(r, "insert")
  /\ UNCHANGED <<firmLead, leadToday, named, firmRow, strategies, poolRow, routeTables, firmHistory>>

DeferFirm(r) ==
  /\ At(r, "person")
  /\ Put(r, [Left(r) EXCEPT !.pending = @ \cup {firmRun[r].at}])
  /\ UNCHANGED <<firmTables, routeTables, firmHistory>>

(* A bug: the company's row is left without its name.                      *)
BugCreateLead(r) ==
  LET f == firmRun[r].at IN
  /\ At(r, "insert") /\ firmLead[f] = "absent"
  /\ AddLead(f, "signal") /\ UNCHANGED named
  /\ Put(r, [Left(r) EXCEPT !.made = @ + 1])
  /\ UNCHANGED <<firmRow, firmContact, strategies, poolRow, routeTables, firmHistory>>

CreateLead(r) ==
  LET f == firmRun[r].at IN
  /\ At(r, "insert") /\ firmLead[f] = "absent"
  /\ AddLead(f, "signal") /\ named' = named \cup {f}
  /\ Put(r, [Left(r) EXCEPT !.made = @ + 1])
  /\ UNCHANGED <<firmRow, firmContact, strategies, poolRow, routeTables, firmHistory>>

(* A commit fails and is rolled back: a page goes on with its next row, the *)
(* pool is left.                                                           *)
RowFails(r) ==
  /\ firmRun[r].pc \in {"judge", "person", "insert"} /\ FirmFault
  /\ IF firmRun[r].from = "pool"
     THEN Put(r, [firmRun[r] EXCEPT !.pc = "pool", !.todo = {}, !.at = NoFirm, !.known = @ \cup {firmRun[r].at}])
     ELSE Put(r, Left(r))
  /\ UNCHANGED <<firmTables, routeTables, bought, again, offered, firmsMet>>

(* Another run has taken the key: the index refuses the row.  From a page  *)
(* the exception ends the run; the pool swallows it, and leaves a session  *)
(* that every later commit of the run fails on.                            *)
KeyTaken(r) ==
  /\ firmRun[r].pc \in {"judge", "person", "insert"} /\ firmLead[firmRun[r].at] # "absent"
  /\ At(r, "judge") => firmRun[r].at \notin firmRun[r].known
  /\ IF firmRun[r].from = "pool"
     THEN Put(r, [firmRun[r] EXCEPT !.pc = "pool", !.todo = {}, !.at = NoFirm, !.broken = TRUE])
     ELSE Ends(r)
  /\ UNCHANGED <<firmTables, routeTables, firmHistory>>

-----------------------------------------------------------------------------
(* The companies without a free leader, up to the quota, are looked up     *)
(* together; a refusal is an empty answer.                                 *)
ResolvePending(r) ==
  LET run == firmRun[r]
      room == IF run.made >= run.need THEN 0 ELSE run.need - run.made
      some == IF Cardinality(run.pending) <= room THEN Cardinality(run.pending) ELSE room IN
  /\ At(r, "rows") /\ run.todo = {}
  /\ \E kept \in {s \in SUBSET run.pending : Cardinality(s) = some} : \E found \in SUBSET kept :
       /\ firmContact' = firmContact \cup found
       /\ Put(r, [run EXCEPT !.pc = "settle", !.pending = kept, !.found = found])
  /\ UNCHANGED <<firmLead, leadToday, named, firmRow, strategies, poolRow, routeTables, firmHistory>>

SettlePending(r) ==
  /\ At(r, "settle")
  /\ \E f \in firmRun[r].pending :
       LET run == [firmRun[r] EXCEPT !.pending = @ \ {f}] IN
       \/ /\ firmLead[f] = "absent" /\ f \in run.found
          /\ AddLead(f, "signal") /\ named' = named \cup {f}
          /\ Put(r, [run EXCEPT !.made = @ + 1]) /\ UNCHANGED firmFaults
       \/ /\ firmLead[f] = "absent" /\ f \notin run.found
          /\ AddLead(f, "rejected") /\ Put(r, run) /\ UNCHANGED <<named, firmFaults>>
       \/ /\ firmLead[f] # "absent"
          /\ Put(r, run) /\ UNCHANGED <<firmLead, leadToday, named, firmFaults>>
       \/ /\ FirmFault
          /\ Put(r, run) /\ UNCHANGED <<firmLead, leadToday, named>>
  /\ UNCHANGED <<firmRow, firmContact, strategies, poolRow, routeTables, bought, again, offered, firmsMet>>

(* The next page, unless Crustdata's run has what it needs, the list is    *)
(* over, or the run has had its pages.                                     *)
Enough(r) == Provider(r) = "crustdata" /\ firmRun[r].made >= firmRun[r].need
TurnPage(r) ==
  LET run == [firmRun[r] EXCEPT !.turns = @ + 1]
      outcome == IF run.rows THEN "ok" ELSE IF run.last THEN "empty_validated" ELSE "ok" IN
  /\ At(r, "settle") /\ run.pending = {}
  /\ IF Enough(r) \/ run.last \/ run.turns >= PagesPerRun
     THEN Stop(r, [run EXCEPT !.last = @ /\ ~Enough(r)], outcome)
     ELSE Put(r, [run EXCEPT !.pc = "page", !.found = {}])
  /\ UNCHANGED <<firmTables, routeTables, firmHistory>>

(* A list that is over begins anew: Crustdata's at once, Icypeas's after   *)
(* its cooldown, or at once when the cursor is saved without it.           *)
BeginsAnew(cursor) == cursor.page = 1 /\ ~cursor.exhausted
EndSearch(r) ==
  LET p == Provider(r)
      exhausted == p = "icypeas" /\ firmRun[r].last /\ firmRun[r].outcome \in {"ok", "empty_validated"} IN
  /\ At(r, "end")
  /\ IF firmRun[r].broken
     THEN Ends(r) /\ UNCHANGED <<listCursor, bought>>
     ELSE /\ listCursor' = [listCursor EXCEPT ![p] = SavedAs(r, exhausted)]
          /\ bought' = IF BeginsAnew(SavedAs(r, exhausted)) THEN {b \in bought : b.provider # p} ELSE bought
          /\ Put(r, [firmRun[r] EXCEPT !.pc = "route", !.unsaved = {}])
  /\ UNCHANGED <<firmTables, poolGiven, strikes, icpEdition, again, offered, firmsMet, firmFaults>>

-----------------------------------------------------------------------------
(* execute: the attempt is recorded, and the next provider tried if the    *)
(* outcome's policy says so.                                               *)
SwitchesProvider(outcome) == outcome \in {"empty_validated", "quality_fail"}
Route(r) ==
  LET p == Provider(r)
      outcome == firmRun[r].outcome
      switch == SwitchesProvider(outcome) /\ Len(firmRun[r].order) > 1 IN
  /\ At(r, "route")
  /\ strikes' = [strikes EXCEPT ![p] = IF outcome # "quality_fail" THEN 0 ELSE IF @ < BreakAt THEN @ + 1 ELSE @]
  /\ Put(r, [Blank EXCEPT !.pc = IF switch THEN "search" ELSE "qualify",
                          !.order = IF switch THEN Tail(firmRun[r].order) ELSE firmRun[r].order,
                          !.todo = IF switch THEN {} ELSE Signals])
  /\ UNCHANGED <<firmTables, poolGiven, listCursor, icpEdition, firmHistory>>

(* qualify: rejected, or an opportunity and a strategy, committed before   *)
(* the lead is.                                                            *)
QualifyLead(r) ==
  /\ At(r, "qualify")
  /\ \E f \in firmRun[r].todo :
       LET run == [firmRun[r] EXCEPT !.todo = @ \ {f}] IN
       \/ /\ strategies' = [strategies EXCEPT ![f] = @ + 1]
          /\ Put(r, [run EXCEPT !.pc = "promote", !.at = f]) /\ UNCHANGED firmLead
       \/ /\ firmLead' = [firmLead EXCEPT ![f] = "rejected"] /\ Put(r, run) /\ UNCHANGED strategies
       \/ Put(r, run) /\ UNCHANGED <<firmLead, strategies>>
  /\ UNCHANGED <<leadToday, named, firmRow, firmContact, poolRow, routeTables, firmHistory>>

PromoteLead(r) ==
  /\ At(r, "promote")
  /\ firmLead' = [firmLead EXCEPT ![firmRun[r].at] = "contact_found"]
  /\ Put(r, [firmRun[r] EXCEPT !.pc = "qualify", !.at = NoFirm])
  /\ UNCHANGED <<leadToday, named, firmRow, firmContact, strategies, poolRow, routeTables, firmHistory>>

(* All judged, or the budget is used up.                                   *)
SourcingOver(r) ==
  /\ At(r, "qualify") /\ Ends(r)
  /\ UNCHANGED <<firmTables, routeTables, firmHistory>>

(* The process dies, or a commit that nothing guards fails.  Pages whose   *)
(* cursor was not saved are bought again; and the whole list, if it ended  *)
(* and the cooldown was not saved.                                         *)
Forgotten(r, b) ==
  /\ firmRun[r].order # <<>> /\ b.provider = Provider(r)
  /\ \/ b.filters = firmRun[r].filters /\ b.page \in firmRun[r].unsaved
     \/ BeginsAnew(listCursor[b.provider])
SourcingDies(r) ==
  /\ Busy(r) /\ Ends(r) /\ FirmFault
  /\ bought' = {b \in bought : ~Forgotten(r, b)}
  /\ UNCHANGED <<firmTables, routeTables, again, offered, firmsMet>>

BrokenSession(r) ==
  /\ At(r, "keep") /\ firmRun[r].broken /\ Ends(r)
  /\ UNCHANGED <<firmTables, routeTables, firmHistory>>

SearchStep(r) ==
  \/ BeginSearch(r) \/ WorkOnPooled(r) \/ MarkDelivered(r) \/ PoolDone(r) \/ CountsNone(r)
  \/ SearchRefused(r) \/ SearchFails(r) \/ PageArrives(r) \/ KeepCursor(r) \/ QualityFails(r)
  \/ IndustryRejects(r) \/ IndustryDone(r) \/ ResolvePending(r) \/ SettlePending(r)
  \/ TurnPage(r) \/ EndSearch(r) \/ BrokenSession(r)
FirmStep(r) ==
  \/ WorkOnRow(r) \/ SkipFirm(r) \/ RejectFirm(r) \/ AcceptFirm(r) \/ FreeLeader(r) \/ DeferFirm(r)
  \/ CreateLead(r) \/ RowFails(r) \/ KeyTaken(r)
SourcingNext ==
  \/ FiltersChange \/ DayPasses \/ \E f \in Firms : Reconcile(f)
  \/ \E r \in FirmRuns :
       \/ StartSourcing(r) \/ SourcingSkipped(r) \/ SearchStep(r) \/ FirmStep(r)
       \/ Route(r) \/ QualifyLead(r) \/ PromoteLead(r) \/ SourcingOver(r) \/ SourcingDies(r)
SourcingSpec == SourcingInit /\ [][SourcingNext]_sourcingVars

-----------------------------------------------------------------------------
(* A page of a list is paid for once before the list begins anew, however  *)
(* runs stop, fail or die after its cursor is saved; a pooled company is   *)
(* worked on once, and a lead gets one strategy, but for faults.  Two runs *)
(* at once break all three.                                                *)
NoPageTwice == again = {}
PooledOnce == \A f \in Firms : offered[f] <= 1 + firmFaults
OneStrategy == \A f \in Firms : strategies[f] <= 1 + firmFaults
SourcedOnce == firmsMet \/ (NoPageTwice /\ PooledOnce /\ OneStrategy)

(* The rules of the sourcing route together.                               *)
SourcingRules == SourcingTypeOK /\ SourcedOnce
=============================================================================
