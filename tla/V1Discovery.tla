---------------------------- MODULE V1Discovery ----------------------------
(***************************************************************************)
(* What a V1 run does before its approval window opens: discovery in the   *)
(* source the tenant chose, the filters that drop companies, the search    *)
(* for their decision makers.  phases/discovery.py, apify_discovery.py,    *)
(* jobo_discovery.py, jd_first_discovery.py, partner_pipeline.py,          *)
(* decision_maker.py and the four cycles of autonomous_orchestrator.py.    *)
(*                                                                         *)
(* A run reads once which domains the tenant already has and works on the  *)
(* others one by one, committing as it goes; another run, or a request on  *)
(* a batch, does the same beside it.  A domain has one posting, and a      *)
(* posting that is kept as a signal refers to the company it is linked to. *)
(* What happens to a run from its approval on is in AutonomousCycle.       *)
(***************************************************************************)
EXTENDS Naturals, FiniteSets

CONSTANTS
  Domains,        \* the companies the providers know
  V1Runs,         \* runs of a tenant: each has a batch
  Sources,        \* sources a run may have; subset of AllSources
  Target,         \* companies a run is to keep
  NoDomain,
  MaxV1Faults     \* bound: runs that raise or die, requests that raise

AllSources == {"deepline", "apify", "route", "jobo", "jd_first"}

ASSUME V1Assumption ==
  /\ Sources \subseteq AllSources /\ Target \in Nat \ {0} /\ NoDomain \notin Domains /\ MaxV1Faults \in Nat
  /\ IsFiniteSet(Domains) /\ "nothing" \notin V1Runs

VARIABLES
  row,        \* the company of a domain in a run's batch
  linked,     \* the run whose company the domain's posting refers to
  rejected,   \* the tenant's rejected domains
  v1,         \* what a run holds in memory
  batch,      \* the status of a run's batch
  crossed, \* runs that were under way together
  v1Faults

v1Vars == <<row, linked, rejected, v1, batch, crossed, v1Faults>>

Company == [live : BOOLEAN, dropped : BOOLEAN, hiring : BOOLEAN, contacts : BOOLEAN, stamped : BOOLEAN, lookups : 0..2]
NoCompanyRow == [live |-> FALSE, dropped |-> FALSE, hiring |-> FALSE, contacts |-> FALSE, stamped |-> FALSE, lookups |-> 0]

Idle == [pc |-> "off", source |-> "apify", seen |-> {}, todo |-> {}, at |-> NoDomain, kept |-> 0, copy |-> {}, before |-> {}]

V1Init ==
  /\ row = [r \in V1Runs |-> [d \in Domains |-> NoCompanyRow]]
  /\ linked = [d \in Domains |-> "nothing"]
  /\ rejected = {} /\ v1 = [r \in V1Runs |-> Idle] /\ batch = [r \in V1Runs |-> "none"]
  /\ crossed = {} /\ v1Faults = 0

Going(r) == v1[r].pc \notin {"off", "over", "dead"}
Rows(r) == {d \in Domains : row[r][d].live}

(* As the dedupe of prior days does, without the companies of failed runs.  *)
Bug_existing_domains == rejected \cup UNION {Rows(r) : r \in {q \in V1Runs : batch[q] # "failed"}}

(* Domains of any batch of the tenant, one of a failed run too, and those  *)
(* rejected for good.                                                      *)
_existing_domains == rejected \cup UNION {Rows(r) : r \in V1Runs}

(* A request on a batch may be made again; what the batch already holds it *)
(* does not search.                                                        *)
BeginDiscovery(r, s) ==
  /\ v1[r].pc = "off" \/ (s = "route" /\ v1[r].source = "route" /\ v1[r].pc = "over" /\ v1Faults > 0)
  /\ v1' = [v1 EXCEPT ![r] = [Idle EXCEPT !.pc = "search", !.source = s, !.seen = _existing_domains, !.before = Rows(r)]]
  /\ batch' = [batch EXCEPT ![r] = "in_progress"]
  /\ LET others == {q \in V1Runs \ {r} : Going(q)}
     IN crossed' = IF others = {} THEN crossed ELSE crossed \cup others \cup {r}
  /\ UNCHANGED <<row, linked, rejected, v1Faults>>

(* The search itself, and the checks that cost nothing: what is left is    *)
(* worked on in any order.                                                 *)
Search(r) ==
  /\ v1[r].pc = "search"
  /\ \E found \in SUBSET (Domains \ v1[r].seen) :
       v1' = [v1 EXCEPT ![r].pc = "next", ![r].todo = found]
  /\ UNCHANGED <<row, linked, rejected, batch, crossed, v1Faults>>

TargetMet(r) == v1[r].kept >= Target

(* Crustdata's companies come a page at a time, no more than are wanted.   *)
CommitPage(r) ==
  /\ v1[r].pc = "next" /\ v1[r].source = "deepline" /\ ~TargetMet(r)
  /\ \E page \in SUBSET v1[r].todo \ {{}} :
       /\ Cardinality(page) <= Target - v1[r].kept
       /\ row' = [row EXCEPT ![r] = [d \in Domains |-> IF d \in page THEN [NoCompanyRow EXCEPT !.live = TRUE] ELSE @[d]]]
       /\ v1' = [v1 EXCEPT ![r].todo = @ \ page, ![r].kept = @ + Cardinality(page)]
  /\ UNCHANGED <<linked, rejected, batch, crossed, v1Faults>>

(* The others commit each company before it is looked into further.  Apify *)
(* goes on past the target: the posting has been paid for.                 *)
CommitCompany(r, d) ==
  /\ v1[r].pc = "next" /\ d \in v1[r].todo
  /\ v1[r].source # "deepline" /\ (v1[r].source \in {"jobo", "jd_first"} => ~TargetMet(r))
  /\ row' = [row EXCEPT ![r][d] = [NoCompanyRow EXCEPT !.live = TRUE]]
  /\ v1' = [v1 EXCEPT ![r].todo = @ \ {d}, ![r].at = d,
                      ![r].pc = CASE v1[r].source = "jobo" -> "lead" [] v1[r].source \in {"apify", "route"} /\ TargetMet(r) -> "surplus" [] OTHER -> "assess"]
  /\ UNCHANGED <<linked, rejected, batch, crossed, v1Faults>>

(* Jobo's profile named a leader: score, contact and stamp in one commit.  *)
SaveLeader(r) ==
  /\ v1[r].pc = "lead"
  /\ row' = [row EXCEPT ![r][v1[r].at].contacts = TRUE, ![r][v1[r].at].stamped = TRUE]
  /\ v1' = [v1 EXCEPT ![r].pc = "next", ![r].kept = @ + 1]
  /\ UNCHANGED <<linked, rejected, batch, crossed, v1Faults>>

(* Two paid counts; a failed one counts as a gap.                          *)
assess_team_composition(r) ==
  /\ v1[r].pc = "assess"
  /\ \E full \in BOOLEAN :
       v1' = [v1 EXCEPT ![r].pc = CASE full -> "exclude" [] ~full /\ v1[r].source = "jd_first" -> "next" [] OTHER -> "signal",
                        ![r].kept = IF ~full /\ v1[r].source = "jd_first" THEN @ + 1 ELSE @]
  /\ UNCHANGED <<row, linked, rejected, batch, crossed, v1Faults>>

(* The posting of a company deleted here is not yet linked to it.          *)
ExcludeFullTeam(r) ==
  /\ v1[r].pc = "exclude"
  /\ row' = [row EXCEPT ![r][v1[r].at] = NoCompanyRow]
  /\ v1' = [v1 EXCEPT ![r].pc = "next"]
  /\ UNCHANGED <<linked, rejected, batch, crossed, v1Faults>>

(* A failure here is swallowed: the company stays without its signal.      *)
_persist_posting_as_signal(r) ==
  /\ v1[r].pc \in {"signal", "surplus"}
  /\ \/ linked' = [linked EXCEPT ![v1[r].at] = IF @ \in V1Runs THEN @ ELSE r]
     \/ UNCHANGED linked
  /\ v1' = [v1 EXCEPT ![r].pc = "next", ![r].kept = IF v1[r].pc = "signal" THEN @ + 1 ELSE @]
  /\ UNCHANGED <<row, rejected, batch, crossed, v1Faults>>

(* Nothing is left, the target is met, the provider has no page more or    *)
(* the budget is spent.                                                    *)
EndDiscovery(r) ==
  /\ v1[r].pc = "next"
  /\ v1[r].source \in {"apify", "route"} => v1[r].todo = {}
  /\ \E ownIcps \in BOOLEAN :
       v1' = [v1 EXCEPT ![r].pc = CASE v1[r].source = "deepline" -> "dedupe"
                                    [] v1[r].source = "apify" -> "enforce"
                                    [] v1[r].source = "jobo" -> "end"
                                    [] v1[r].source = "jd_first" /\ ~ownIcps -> "people"
                                    [] OTHER -> "gate",
                        ![r].todo = IF v1[r].source \in {"route", "jd_first"} THEN Rows(r) ELSE {},
                        ![r].at = NoDomain, ![r].seen = {}]
  /\ UNCHANGED <<row, linked, rejected, batch, crossed, v1Faults>>

HeldElsewhere(r, d) == \E q \in V1Runs \ {r} : row[q][d].live /\ batch[q] # "failed"

(* Only the Deepline cycle looks again at what other batches hold by now.  *)
_dedupe_against_prior_days(r) ==
  /\ v1[r].pc = "dedupe"
  /\ row' = [row EXCEPT ![r] = [d \in Domains |-> IF @[d].live /\ HeldElsewhere(r, d) THEN NoCompanyRow ELSE @[d]]]
  /\ v1' = [v1 EXCEPT ![r].pc = "hiring", ![r].todo = {d \in Rows(r) : ~HeldElsewhere(r, d)}]
  /\ UNCHANGED <<linked, rejected, batch, crossed, v1Faults>>

(* Each company's postings and tools are bought once, stamped also when    *)
(* the provider failed, and it is scored; the companies beyond the cap are *)
(* deleted, the ones with the lowest scores.                               *)
CheckSignals(r) ==
  /\ v1[r].pc = "hiring"
  /\ \E hiring \in SUBSET Rows(r), keep \in SUBSET Rows(r) :
       /\ Cardinality(keep) = (IF Cardinality(Rows(r)) < Target THEN Cardinality(Rows(r)) ELSE Target)
       /\ row' = [row EXCEPT ![r] = [d \in Domains |->
                    CASE d \in keep -> [@[d] EXCEPT !.hiring = d \in hiring]
                      [] d \in Rows(r) \ keep -> NoCompanyRow
                      [] OTHER -> @[d]]]
       /\ v1' = [v1 EXCEPT ![r].pc = "people", ![r].todo = keep]
  /\ UNCHANGED <<linked, rejected, batch, crossed, v1Faults>>

(* A partner's revenue band, once the revenue was looked up.  A dropped    *)
(* company keeps its row, and its domain is added to those rejected: read, *)
(* then written whole.                                                     *)
enforce_icp_on_companies(r) ==
  /\ v1[r].pc = "enforce"
  /\ \E drop \in SUBSET Rows(r) :
       v1' = [v1 EXCEPT ![r].todo = IF drop = {} THEN Rows(r) ELSE drop, ![r].pc = IF drop = {} THEN "people" ELSE "drop"]
  /\ UNCHANGED <<row, linked, rejected, batch, crossed, v1Faults>>

ReadRejected(r, d) ==
  /\ v1[r].pc = "drop" /\ d \in v1[r].todo
  /\ v1' = [v1 EXCEPT ![r].pc = "reject", ![r].at = d, ![r].copy = rejected]
  /\ UNCHANGED <<row, linked, rejected, batch, crossed, v1Faults>>

add_rejected_domain(r) ==
  /\ v1[r].pc = "reject"
  /\ rejected' = v1[r].copy \cup {v1[r].at}
  /\ row' = [row EXCEPT ![r][v1[r].at].dropped = TRUE]
  /\ LET left == v1[r].todo \ {v1[r].at}
     IN v1' = [v1 EXCEPT ![r].at = NoDomain, ![r].copy = {},
                         ![r].todo = IF left = {} THEN Rows(r) ELSE left, ![r].pc = IF left = {} THEN "people" ELSE "drop"]
  /\ UNCHANGED <<linked, batch, crossed, v1Faults>>

(* Elephant Edge's own ICPs: a company whose real revenue fits none is     *)
(* deleted, one that matches none waits for a review, and only the others  *)
(* are searched: `hiring` says here that it matched.  A signal that refers to the company forbids the deletion *)
(* (GateRaises).                                                           *)
gate_batch_before_decision_makers(r, d) ==
  /\ v1[r].pc = "gate" /\ d \in v1[r].todo
  /\ \/ /\ linked[d] # r
        /\ row' = [row EXCEPT ![r][d] = NoCompanyRow]
     \/ \E matched \in BOOLEAN : row' = [row EXCEPT ![r][d].hiring = matched]
  /\ v1' = [v1 EXCEPT ![r].todo = @ \ {d}]
  /\ UNCHANGED <<linked, rejected, batch, crossed, v1Faults>>

GateEnds(r) ==
  /\ v1[r].pc = "gate" /\ v1[r].todo = {}
  /\ v1' = [v1 EXCEPT ![r].pc = "people", ![r].todo = {d \in Rows(r) \ v1[r].before : row[r][d].hiring}]
  /\ UNCHANGED <<row, linked, rejected, batch, crossed, v1Faults>>

(* The search for decision makers.  Deepline's companies are passed over   *)
(* when one is on record, when they were searched, when they do not hire   *)
(* or when their team turns out to be full; the other cycles search every  *)
(* company they still have, those dropped for their revenue too.           *)
PassOver(r, d) ==
  /\ v1[r].pc = "people" /\ d \in v1[r].todo /\ v1[r].source = "deepline"
  /\ v1' = [v1 EXCEPT ![r].todo = @ \ {d}]
  /\ UNCHANGED <<row, linked, rejected, batch, crossed, v1Faults>>

find_decision_makers(r, d) ==
  /\ v1[r].pc = "people" /\ d \in v1[r].todo
  /\ v1[r].source = "deepline" => row[r][d].hiring /\ ~row[r][d].contacts /\ ~row[r][d].stamped
  /\ \E found \in BOOLEAN :
       row' = [row EXCEPT ![r][d].contacts = @ \/ found, ![r][d].lookups = IF @ = 2 THEN 2 ELSE @ + 1]
  /\ v1' = [v1 EXCEPT ![r].pc = "stamp", ![r].at = d]
  /\ UNCHANGED <<linked, rejected, batch, crossed, v1Faults>>

StampSearched(r) ==
  /\ v1[r].pc = "stamp"
  /\ row' = [row EXCEPT ![r][v1[r].at].stamped = TRUE]
  /\ v1' = [v1 EXCEPT ![r].pc = "people", ![r].todo = @ \ {v1[r].at}, ![r].at = NoDomain]
  /\ UNCHANGED <<linked, rejected, batch, crossed, v1Faults>>

(* The budget is spent, or every company is done with.                     *)
EndPeople(r) ==
  /\ v1[r].pc \in {"people", "end"}
  /\ v1[r].source # "deepline" => v1[r].todo = {}
  /\ v1' = [v1 EXCEPT ![r].pc = "over", ![r].todo = {}]
  /\ batch' = [batch EXCEPT ![r] = "complete"]
  /\ UNCHANGED <<row, linked, rejected, crossed, v1Faults>>

(* A cycle that raises marks its run and its batch failed; a request that  *)
(* raises leaves the batch as it was.                                      *)
Fails(r) ==
  /\ v1' = [v1 EXCEPT ![r] = [Idle EXCEPT !.pc = "over", !.source = v1[r].source]]
  /\ batch' = [batch EXCEPT ![r] = IF v1[r].source = "route" THEN @ ELSE "failed"]

V1Raises(r) ==
  /\ Going(r) /\ v1Faults < MaxV1Faults /\ v1Faults' = v1Faults + 1
  /\ Fails(r)
  /\ UNCHANGED <<row, linked, rejected, crossed>>

(* The database refuses the deletion of a company its posting refers to.   *)
GateRaises(r) ==
  /\ v1[r].pc = "gate" /\ \E d \in v1[r].todo : linked[d] = r
  /\ Fails(r)
  /\ UNCHANGED <<row, linked, rejected, crossed, v1Faults>>

(* What works on a company that a request deleted raises.                  *)
AtWorkOn(r) ==
  CASE v1[r].pc \in {"lead", "assess", "exclude", "signal", "surplus", "reject", "stamp"} -> {v1[r].at}
    [] v1[r].pc \in {"people", "gate", "drop"} -> v1[r].todo
    [] OTHER -> {}
Vanished(r) == ~(AtWorkOn(r) \subseteq Rows(r))

VanishedRaises(r) ==
  /\ Vanished(r) /\ Fails(r)
  /\ UNCHANGED <<row, linked, rejected, crossed, v1Faults>>

V1Dies(r) ==
  /\ Going(r) /\ v1Faults < MaxV1Faults /\ v1Faults' = v1Faults + 1
  /\ v1' = [v1 EXCEPT ![r] = [Idle EXCEPT !.pc = "dead", !.source = v1[r].source]]
  /\ UNCHANGED <<row, linked, rejected, batch, crossed>>

(* A request searches the decision makers of a batch that is over.         *)
execute_decision_maker_id(r) ==
  /\ v1[r].pc \in {"over", "dead"} /\ v1[r].source = "deepline"
  /\ \E d \in Rows(r) : row[r][d].hiring /\ ~row[r][d].contacts /\ ~row[r][d].stamped
  /\ v1' = [v1 EXCEPT ![r].pc = "people", ![r].todo = Rows(r)]
  /\ UNCHANGED <<row, linked, rejected, batch, crossed, v1Faults>>

(* A request deletes a batch's companies, unless a posting refers to one,  *)
(* and asks of no run whether it still works on them.                      *)
delete_batch_companies(r) ==
  /\ Rows(r) # {} /\ \A d \in Rows(r) : linked[d] # r
  /\ v1Faults < MaxV1Faults /\ v1Faults' = v1Faults + 1
  /\ row' = [row EXCEPT ![r] = [d \in Domains |-> IF @[d].live THEN NoCompanyRow ELSE @[d]]]
  /\ UNCHANGED <<linked, rejected, v1, batch, crossed>>

Working(r) ==
  \/ Search(r) \/ CommitPage(r) \/ (\E d \in Domains : CommitCompany(r, d)) \/ SaveLeader(r)
  \/ assess_team_composition(r) \/ ExcludeFullTeam(r) \/ _persist_posting_as_signal(r) \/ EndDiscovery(r)
  \/ _dedupe_against_prior_days(r) \/ CheckSignals(r)
  \/ enforce_icp_on_companies(r) \/ (\E d \in Domains : ReadRejected(r, d)) \/ add_rejected_domain(r)
  \/ (\E d \in Domains : gate_batch_before_decision_makers(r, d)) \/ GateEnds(r) \/ GateRaises(r)
  \/ (\E d \in Domains : PassOver(r, d) \/ find_decision_makers(r, d)) \/ StampSearched(r) \/ EndPeople(r)

V1Step(r) ==
  \/ \E s \in Sources : BeginDiscovery(r, s)
  \/ ~Vanished(r) /\ Working(r)
  \/ VanishedRaises(r) \/ V1Raises(r) \/ V1Dies(r)
  \/ execute_decision_maker_id(r) \/ delete_batch_companies(r)

V1Next == \E r \in V1Runs : V1Step(r)
V1Spec == V1Init /\ [][V1Next]_v1Vars

----------------------------------------------------------------------------
V1TypeOK ==
  /\ row \in [V1Runs -> [Domains -> Company]]
  /\ linked \in [Domains -> V1Runs \cup {"nothing"}] /\ rejected \subseteq Domains
  /\ \A r \in V1Runs : v1[r].kept \in 0..Cardinality(Domains) /\ v1[r].at \in Domains \cup {NoDomain} /\ v1[r].todo \subseteq Domains
  /\ batch \in [V1Runs -> {"none", "in_progress", "complete", "failed"}]
  /\ crossed \subseteq V1Runs /\ v1Faults \in 0..MaxV1Faults

(* A tenant has one company per domain, over all its batches and those of  *)
(* failed runs: two come only of runs that were under way together.        *)
OneRowPerDomain ==
  \A q, r \in V1Runs : \A d \in Domains : q # r /\ row[q][d].live /\ row[r][d].live => {q, r} \subseteq crossed

(* The company a posting refers to is still there: every step that deletes *)
(* companies comes before the posting is linked, or gives way to it.       *)
LinkedIsKept == \A d \in Domains : linked[d] \in V1Runs => row[linked[d]][d].live

(* A company dropped for its revenue is in the tenant's rejected domains,  *)
(* if no other run rewrote them at the same time.                          *)
DropIsRemembered ==
  \A r \in V1Runs : \A d \in Domains : row[r][d].dropped /\ r \notin crossed => d \in rejected

(* A company is searched for its decision makers a second time only after  *)
(* a fault between the search and its stamp.                               *)
StampedOnce == v1Faults = 0 => \A r \in V1Runs : \A d \in Domains : row[r][d].lookups < 2

(* A batch that is complete left no company behind that it was to search:  *)
(* Deepline's may stop for the budget, and a request leaves those that an  *)
(* earlier one of its batch had found.                                     *)
CompleteIsSearched ==
  \A r \in V1Runs : \A d \in Rows(r) \ v1[r].before :
    batch[r] = "complete" /\ v1[r].source # "deepline" =>
      row[r][d].stamped \/ (v1[r].source \in {"route", "jd_first"} /\ ~row[r][d].hiring)

(* The rules of V1's discovery: one company per domain, none deleted that  *)
(* a posting refers to, drops remembered, each company searched, once.     *)
V1Rules == V1TypeOK /\ OneRowPerDomain /\ LinkedIsKept /\ DropIsRemembered /\ StampedOnce /\ CompleteIsSearched
=============================================================================
