----------------------------- MODULE SchemaBoot -----------------------------
(***************************************************************************)
(* The schema that each boot makes converge, db/session.py.  on_startup    *)
(* calls ensure_indexes, which runs its statements in order, each in a     *)
(* transaction of its own; one that fails, on a lock or for want of what   *)
(* it needs, is logged and skipped, and the next boot runs it again.       *)
(* While a process boots, the one it is to replace still serves.           *)
(* A step runs one statement on the drafts and the leads, whose uniqueness *)
(* is replaced, and one section of the rest, where a statement of a boot   *)
(* and a row written beside it do not meet.                                *)
(*                                                                         *)
(* An object of the schema is a sequence of names: <<table>>,              *)
(* <<table, column>> or <<table, "ix", index>>.                            *)
(***************************************************************************)
EXTENDS Naturals, FiniteSets, SequencesExt

CONSTANTS
  MaxLocks,   \* bound: statements that time out on a lock, and boots that die
  MaxBoots,   \* bound: boots
  MaxTwins    \* bound: unique indexes whose want lets a second row in

ASSUME SchemaAssumption == MaxLocks \in Nat /\ MaxBoots \in Nat /\ MaxTwins \in Nat

VARIABLES
  schema,      \* the objects of the schema that exist
  twins,       \* unique indexes over whose columns two rows agree
  keyless,     \* a row of gtm_leads has no lead_key
  oldTasks,    \* a row of partner_tasks has a status of before the redesign
  serving,     \* the process that serves requests: none, one of the release before, or of this one
  statement,   \* the group of statements the boot runs next; 0: no process boots
  skipped,     \* objects that this boot left unmade on a time-out, or found another owner had not made
  boots, locks

schemaVars == <<schema, twins, keyless, oldTasks, serving, statement, skipped, boots, locks>>

Make(obj, needs) == <<[do |-> "make", obj |-> obj, needs |-> needs]>>
Table(t, refs) == Make(<<t>>, {<<r>> : r \in refs})
Columns(t, cs) == [i \in DOMAIN cs |-> [do |-> "make", obj |-> <<t, cs[i]>>, needs |-> {<<t>>}]]
Indexes(t, xs) == [i \in DOMAIN xs |-> [do |-> "make", obj |-> <<t, "ix", xs[i]>>, needs |-> {<<t>>}]]
On(t, x, cs) == Make(<<t, "ix", x>>, {<<t>>} \cup {<<t, c>> : c \in cs})
Unique(t, x, cs) == <<[do |-> "unique", obj |-> <<t, "ix", x>>, needs |-> {<<t>>} \cup {<<t, c>> : c \in cs}]>>
Drop(t, xs) == [i \in DOMAIN xs |-> [do |-> "drop", obj |-> <<t, "ix", xs[i]>>, needs |-> {}]]
Alter(what, t, c) == <<[do |-> what, obj |-> <<t, what>>, needs |-> {<<t, c>>}]>>

(* Tables that Synefi's backend owns, with the columns it made.            *)
Shared == {<<t>> : t \in {"companies", "contacts", "batches", "campaign_pushes", "campaign_events", "personalized_messages", "autonomous_runs"}}

AccountSchema ==
  Indexes("campaign_events", <<"contact_id">>) \o Columns("companies", <<"icp_evaluation_attempts">>)
  \o Indexes("slack_community_messages", <<"channel">>) \o Unique("slack_community_messages", "ts", {})
  \o Columns("batches", <<"offering_name", "campaign_label">>) \o Columns("campaign_pushes", <<"offering_name", "campaign_label">>)
  \o Table("calendar_bookings", {})
  \o Table("notifications", {}) \o Indexes("notifications", <<"tenant_created">>)
  \o Table("chat_conversations", {}) \o Table("chat_messages", {"chat_conversations"}) \o Columns("chat_conversations", <<"scope">>)
  \o Indexes("chat_conversations", <<"tenant_updated">>) \o Indexes("chat_messages", <<"conversation_created">>)
  \o Table("daily_reviews", {}) \o Table("review_comments", {})
  \o Unique("daily_reviews", "tenant_date", {}) \o Indexes("review_comments", <<"tenant_date">>)
  \o Columns("contacts", <<"email", "email_source">>) \o Columns("personalized_messages", <<"email_subject", "email_body">>)

MonitorSchema ==
  Table("linkedin_monitor_profiles", {}) \o Unique("linkedin_monitor_profiles", "tenant_url", {})
  \o Columns("linkedin_monitor_profiles", <<"industry", "sells_to", "classification_status", "classification_confidence",
       "classification_reasoning", "classification_evidence_excerpt", "classified_at">>)
  \o Table("linkedin_monitor_signals", {"linkedin_monitor_profiles"}) \o Unique("linkedin_monitor_signals", "profile_urn", {})
  \o Columns("linkedin_monitor_signals", <<"relevance_score", "recommended_action", "classifier_reason">>)
  \o Table("own_linkedin_posts", {}) \o Unique("own_linkedin_posts", "tenant_urn", {})
  \o Table("job_dismissals", {}) \o Unique("job_dismissals", "identity", {})
  \o Columns("companies", <<"hiring_signal_posting_count", "tofu_keyword_found", "hot_lead", "hot_lead_reasoning",
       "resolved_offering_name", "icp_last_evaluated_at", "icp_last_evaluation_had_missing_information">>)

SignalSchema ==
  Table("reverse_discovery_candidates", {}) \o Unique("reverse_discovery_candidates", "tenant_urn", {})
  \o Table("gtm_signals", {"companies", "contacts"})
  \o Table("meeting_notes", {"calendar_bookings"}) \o Unique("meeting_notes", "tenant_note", {}) \o Indexes("meeting_notes", <<"booking">>)
  \o Indexes("gtm_signals", <<"dedup_key", "tenant_source">>)
  \o Columns("gtm_signals", <<"company_resolution_status", "company_resolution_method", "company_resolution_reason",
       "company_resolved_at", "company_resolution_paid_attempted">>)
  \o Make(<<"companies", "revenue_lower_bigint">>, {<<"companies">>}) \o Make(<<"companies", "revenue_higher_bigint">>, {<<"companies">>})

HypothesisSchema ==
  Table("interpreted_signals", {"gtm_signals", "companies", "contacts"}) \o Indexes("interpreted_signals", <<"source_signal", "tenant">>)
  \o Table("problem_hypotheses", {"companies"}) \o Indexes("problem_hypotheses", <<"company_function">>)
  \o Table("problem_hypothesis_evidence", {"problem_hypotheses", "interpreted_signals"})
  \o Indexes("problem_hypothesis_evidence", <<"hypothesis", "interpreted_signal">>)
  \o Table("demand_hypotheses", {"companies", "problem_hypotheses"}) \o Indexes("demand_hypotheses", <<"problem_hypothesis", "company">>)
  \o Table("demand_hypothesis_evidence", {"demand_hypotheses", "interpreted_signals"})
  \o Indexes("demand_hypothesis_evidence", <<"hypothesis", "interpreted_signal">>)

ContentSchema ==
  Table("content_topics", {}) \o Indexes("content_topics", <<"tenant">>)
  \o Table("content_topic_evidence", {"content_topics", "gtm_signals"})
  \o Unique("content_topic_evidence", "topic_signal", {}) \o Indexes("content_topic_evidence", <<"signal">>)
  \o Table("topic_candidates", {"gtm_signals"}) \o Indexes("topic_candidates", <<"signal", "tenant_normalized">>)
  \o Columns("topic_candidates", <<"cluster_key", "normalization_method", "normalization_reason">>)
  \o On("topic_candidates", "tenant_cluster", {"cluster_key"})
  \o Table("content_opportunities", {"content_topics"}) \o Indexes("content_opportunities", <<"tenant_topic">>)
  \o <<[do |-> "drop", obj |-> <<"content_opportunities", "draft_text">>, needs |-> {<<"content_opportunities">>}]>>
  \o Columns("content_opportunities", <<"drafts", "headline">>)

OpportunitySchema ==
  Table("opportunities", {"companies", "demand_hypotheses", "problem_hypotheses"}) \o Unique("opportunities", "demand_hypothesis", {})
  \o Indexes("opportunities", <<"tenant_company", "tenant_status">>) \o Columns("opportunities", <<"icp_context">>)
  \o Table("gtm_strategies", {"opportunities"}) \o Indexes("gtm_strategies", <<"tenant_opportunity">>)
  \o Columns("gtm_strategies", <<"decision_maker_known">>)
  \o Table("sales_outcomes", {"interpreted_signals", "gtm_signals", "opportunities", "contacts"})
  \o Unique("sales_outcomes", "interpreted_signal", {}) \o Indexes("sales_outcomes", <<"tenant_opportunity">>)

(* The index before the column it is made of.                              *)
BugDraftSchema ==
  Table("message_drafts", {"opportunities", "gtm_strategies", "contacts"})
  \o Drop("message_drafts", <<"strategy", "no_contact", "contact", "channel_no_contact", "contact_channel">>)
  \o Unique("message_drafts", "role_no_contact", {"message_role"}) \o Unique("message_drafts", "role_contact", {"message_role"})
  \o Columns("message_drafts", <<"message_role">>)

(* A draft's uniqueness was widened three times.  The index is dropped     *)
(* before the wider one is made, and that one needs a column added between. *)
DraftSchema ==
  Table("message_drafts", {"opportunities", "gtm_strategies", "contacts"})
  \o Drop("message_drafts", <<"strategy", "no_contact", "contact", "channel_no_contact", "contact_channel">>)
  \o Columns("message_drafts", <<"message_role">>)
  \o Unique("message_drafts", "role_no_contact", {"message_role"}) \o Unique("message_drafts", "role_contact", {"message_role"})
  \o Indexes("message_drafts", <<"tenant_status">>) \o Columns("message_drafts", <<"reviewed_at", "reviewed_by", "review_note", "subject">>)
  \o Table("message_send_attempts", {"message_drafts", "contacts"}) \o Indexes("message_send_attempts", <<"draft", "contact", "tenant_status">>)

OutcomeSchema ==
  Table("icp_matches", {"companies"}) \o Unique("icp_matches", "tenant_company_icp", {}) \o Indexes("icp_matches", <<"tenant_icp">>)
  \o Columns("calendar_bookings", <<"outcome_status">>)
  \o Make(<<"calendar_bookings", "outcome_company_id">>, {<<"calendar_bookings">>, <<"companies">>})
  \o Columns("calendar_bookings", <<"outcome_offering_name", "outcome_amount_usd", "outcome_reason", "outcome_notes",
       "outcome_icp_snapshot", "outcome_channel", "outcome_recorded_at", "outcome_recorded_by">>)
  \o Make(<<"calendar_bookings", "outcome_opportunity_id">>, {<<"calendar_bookings">>, <<"opportunities">>})
  \o Columns("autonomous_runs", <<"duplicates_removed">>)

RunSchema ==
  Table("efficiency_activity_events", {"autonomous_runs"}) \o Indexes("efficiency_activity_events", <<"type_date">>)
  \o Table("confirmed_patterns", {}) \o Indexes("confirmed_patterns", <<"category">>)
  \o Table("human_knowledge", {}) \o Indexes("human_knowledge", <<"status">>)
  \o Table("gtm_intelligence_runs", {})
  \o Columns("problem_hypotheses", <<"person_name_raw">>)
  \o Unique("problem_hypotheses", "company_unique", {}) \o Unique("problem_hypotheses", "person_unique", {"person_name_raw"})
  \o Unique("problem_hypothesis_evidence", "signal_unique", {})
  \o Table("gtm_governance_snapshots", {}) \o Indexes("gtm_governance_snapshots", <<"computed">>)
  \o Indexes("gtm_intelligence_runs", <<"started">>)
  \o Table("investigation_objectives", {"companies"}) \o Indexes("investigation_objectives", <<"icp_company", "status">>)

GuardSchema ==
  Columns("batches", <<"discovery_result", "discovery_error">>)
  \o Table("scheduler_leases", {}) \o Unique("scheduler_leases", "tenant_job", {})
  \o Table("llm_daily_usage", {}) \o Unique("llm_daily_usage", "tenant_date_model", {})
  \o Table("content_pillars", {}) \o Table("content_clusters", {"content_pillars"}) \o Indexes("content_clusters", <<"pillar">>)
  \o Table("provider_spend_ledger", {}) \o Indexes("provider_spend_ledger", <<"provider_date">>)

(* A lead's key replaced its person: filled in, made NOT NULL, and then    *)
(* the index over the person gives way to one over the key.                *)
LeadSchema ==
  Table("crm_leads", {}) \o Indexes("crm_leads", <<"event_stage">>) \o Unique("crm_leads", "dedup", {})
  \o Columns("crm_leads", <<"industry", "estimated_revenue", "employee_count", "outreach_channel">>)
  \o Table("gtm_leads", {"gtm_signals", "companies", "contacts", "opportunities", "message_drafts"})
  \o Columns("gtm_leads", <<"lead_key">>) \o Alter("fill_key", "gtm_leads", "lead_key") \o Alter("key_not_null", "gtm_leads", "lead_key")
  \o Make(<<"gtm_leads", "person_nullable">>, {<<"gtm_leads">>})
  \o Drop("gtm_leads", <<"person">>) \o Unique("gtm_leads", "key", {"lead_key"}) \o Indexes("gtm_leads", <<"state">>)

RouteSchema ==
  Table("webinar_link_clicks", {}) \o Table("webinars", {})
  \o Table("provider_taxonomy_values", {}) \o Indexes("provider_taxonomy_values", <<"provider_atom">>)
  \o Table("icp_term_resolutions", {}) \o Indexes("icp_term_resolutions", <<"tenant">>) \o Table("icp_exclusions", {})
  \o Table("route_attempts", {}) \o Indexes("route_attempts", <<"provider_time">>)
  \o Columns("route_attempts", <<"icp_fingerprint">>) \o On("route_attempts", "fingerprint", {"icp_fingerprint"})
  \o Table("company_pool", {}) \o Indexes("company_pool", <<"domain", "linkedin_id">>)
  \o Table("pool_deliveries", {"company_pool"}) \o Indexes("pool_deliveries", <<"tenant">>)

TaskSchema ==
  Columns("content_opportunities", <<"evidence_strength">>)
  \o Table("partner_tasks", {}) \o Indexes("partner_tasks", <<"tenant">>) \o Columns("partner_tasks", <<"notes">>)
  \o <<[do |-> "rename_tasks", obj |-> <<"partner_tasks", "rename_tasks">>, needs |-> {<<"partner_tasks">>}]>>
  \o Table("self_serve_submissions", {}) \o Unique("self_serve_submissions", "token", {})

Singly(ss) == [i \in DOMAIN ss |-> <<ss[i]>>]

ensure_indexes ==
  <<AccountSchema, MonitorSchema, SignalSchema, HypothesisSchema, ContentSchema, OpportunitySchema>> \o Singly(DraftSchema)
  \o <<OutcomeSchema, RunSchema, GuardSchema>> \o Singly(LeadSchema) \o <<RouteSchema, TaskSchema>>

Statements == ToSet(FlattenSeq(ensure_indexes))
Objects == Shared \cup {s.obj : s \in Statements}
Wanted == Shared \cup {s.obj : s \in {t \in Statements : t.do \in {"make", "unique", "key_not_null"}}}
UniqueIndexes == {s.obj : s \in {t \in Statements : t.do = "unique"}}

(* Older indexes that refuse what the index of today refuses, and more.    *)
Guards(x) ==
  {x} \cup CASE x = <<"message_drafts", "ix", "role_contact">> -> {<<"message_drafts", "ix", y>> : y \in {"strategy", "contact", "contact_channel"}}
             [] x = <<"message_drafts", "ix", "role_no_contact">> -> {<<"message_drafts", "ix", y>> : y \in {"strategy", "no_contact", "channel_no_contact"}}
             [] x = <<"gtm_leads", "ix", "key">> -> {<<"gtm_leads", "ix", "person">>}
             [] OTHER -> {}
Guarded(x) == Guards(x) \cap schema # {}

Unmade == {<<"message_drafts", "message_role">>, <<"message_drafts", "ix", "role_no_contact">>, <<"message_drafts", "ix", "role_contact">>,
           <<"gtm_leads", "lead_key">>, <<"gtm_leads", "key_not_null">>, <<"gtm_leads", "ix", "key">>, <<"gtm_leads", "person_nullable">>}
Slack == {x \in Wanted : x[1] = "slack_community_messages"}

(* An empty database, or one whose drafts and leads are of an older release.  *)
SchemaInit ==
  /\ \/ schema = {} /\ keyless = FALSE /\ oldTasks = FALSE /\ serving = "none"
     \/ /\ \E before \in {{"strategy"}, {"no_contact", "contact"}, {"channel_no_contact", "contact_channel"}} :
             schema = (Wanted \ (Unmade \cup Slack)) \cup {<<"message_drafts", "ix", y>> : y \in before} \cup {<<"gtm_leads", "ix", "person">>}
        /\ keyless = TRUE /\ oldTasks = TRUE /\ serving = "old"
  /\ twins = {} /\ statement = 0 /\ skipped = {} /\ boots = 0 /\ locks = 0

(* Synefi's backend makes its own tables, before this one boots or after.  *)
SynefiBoots ==
  /\ statement = 0 /\ ~(Shared \subseteq schema)
  /\ schema' = schema \cup Shared
  /\ UNCHANGED <<twins, keyless, oldTasks, serving, statement, skipped, boots, locks>>

Boot ==
  /\ statement = 0 /\ boots < MaxBoots
  /\ statement' = 1 /\ skipped' = Shared \ schema /\ boots' = boots + 1
  /\ UNCHANGED <<schema, twins, keyless, oldTasks, serving, locks>>

(* A statement that can run changes the database; one that cannot leaves   *)
(* it as it is and the boot goes on with the next.                         *)
CanRun(db, s) ==
  /\ s.needs \subseteq db.schema
  /\ s.do = "unique" => s.obj \in db.schema \/ s.obj \notin twins
  /\ s.do = "key_not_null" => ~db.keyless

_ResilientDDL(db, s) ==
  IF ~CanRun(db, s) THEN db
  ELSE [schema |-> CASE s.do \in {"make", "unique", "key_not_null"} -> db.schema \cup {s.obj}
                     [] s.do = "drop" -> db.schema \ {s.obj}
                     [] OTHER -> db.schema,
        keyless |-> db.keyless /\ s.do # "fill_key",
        oldTasks |-> db.oldTasks /\ s.do # "rename_tasks"]

Execute ==
  /\ statement \in DOMAIN ensure_indexes
  /\ statement' = statement + 1
  /\ \E locked \in 0..Len(ensure_indexes[statement]) :
       /\ locked # 0 => locks < MaxLocks
       /\ locks' = IF locked = 0 THEN locks ELSE locks + 1
       /\ skipped' = IF locked = 0 THEN skipped ELSE skipped \cup ({ensure_indexes[statement][locked].obj} \ schema)
       /\ LET group == ensure_indexes[statement]
              after == FoldLeftDomain(LAMBDA db, i : IF i = locked THEN db ELSE _ResilientDDL(db, group[i]),
                                      [schema |-> schema, keyless |-> keyless, oldTasks |-> oldTasks], group)
          IN schema' = after.schema /\ keyless' = after.keyless /\ oldTasks' = after.oldTasks
  /\ UNCHANGED <<twins, serving, boots>>

(* The process takes over, or dies before it does.                         *)
BootEnds ==
  /\ statement = Len(ensure_indexes) + 1
  /\ statement' = 0 /\ serving' = "new"
  /\ UNCHANGED <<schema, twins, keyless, oldTasks, skipped, boots, locks>>

BootDies ==
  /\ statement \in DOMAIN ensure_indexes /\ locks < MaxLocks /\ locks' = locks + 1
  /\ skipped' = skipped \cup ({s.obj : s \in UNION {ToSet(ensure_indexes[i]) : i \in statement..Len(ensure_indexes)}} \ schema)
  /\ statement' = 0
  /\ UNCHANGED <<schema, twins, keyless, oldTasks, serving, boots>>

(* Two sessions that each looked before they inserted: a second row over   *)
(* the same columns.  A row of the release before has no key, or an old    *)
(* status.                                                                 *)
Twin(x) ==
  /\ serving # "none" /\ <<x[1]>> \in schema /\ ~Guarded(x) /\ Cardinality(twins) < MaxTwins
  /\ twins' = twins \cup {x}
  /\ UNCHANGED <<schema, keyless, oldTasks, serving, statement, skipped, boots, locks>>

OldRow ==
  /\ serving = "old"
  /\ \/ <<"gtm_leads", "key_not_null">> \notin schema /\ keyless' = TRUE /\ UNCHANGED oldTasks
     \/ oldTasks' = TRUE /\ UNCHANGED keyless
  /\ UNCHANGED <<schema, twins, serving, statement, skipped, boots, locks>>

WriteTwin == \E x \in UniqueIndexes : Twin(x)

SchemaNext == SynefiBoots \/ Boot \/ Execute \/ BootEnds \/ BootDies \/ WriteTwin \/ OldRow
SchemaSpec == SchemaInit /\ [][SchemaNext]_schemaVars

----------------------------------------------------------------------------
SchemaTypeOK ==
  /\ schema \subseteq Objects /\ twins \subseteq UniqueIndexes
  /\ keyless \in BOOLEAN /\ oldTasks \in BOOLEAN /\ serving \in {"none", "old", "new"}
  /\ statement \in 0..(Len(ensure_indexes) + 1) /\ skipped \subseteq Objects
  /\ boots \in 0..MaxBoots /\ locks \in 0..MaxLocks

(* What may be missing after a boot: what it skipped, what another table   *)
(* owner has to make, an index that rows already there contradict, and     *)
(* whatever needs one of those, through one statement or two.              *)
Excused ==
  LET hurt == skipped \cup Slack \cup twins \cup (IF keyless THEN {<<"gtm_leads", "key_not_null">>} ELSE {})
      Needing(h) == {s.obj : s \in {t \in Statements : t.needs \cap h # {}}}
      Upto[n \in 0..6] == IF n = 0 THEN hurt ELSE Upto[n - 1] \cup Needing(Upto[n - 1])
  IN Upto[6]

(* A boot leaves nothing out that it could have made: the statements are   *)
(* in an order in which each finds what it needs, in a new database and in *)
(* an older one (session.py: "every statement here is idempotent", and a   *)
(* skipped one is left to the next boot).                                  *)
BootCompletes == boots > 0 /\ statement = 0 => Wanted \ schema \subseteq Excused

(* Rows that the process of the release before wrote while this one booted *)
(* are put right by the next boot: every lead has its key, the column      *)
(* refuses a lead without, and no task has an old status.                  *)
SecondBootHeals ==
  boots = 2 /\ statement = 0 /\ locks = 0 /\ <<"gtm_leads">> \in schema =>
    ~keyless /\ ~oldTasks /\ <<"gtm_leads", "key_not_null">> \in schema

(* Uniqueness, once an index keeps it, is never given up, other than that  *)
(* of drafts and leads while their index is replaced.                      *)
GuardsStay ==
  [][schema' # schema =>
       \A x \in UniqueIndexes : x[1] \notin {"message_drafts", "gtm_leads"} /\ Guarded(x) => Guards(x) \cap schema' # {}]_schemaVars
=============================================================================
