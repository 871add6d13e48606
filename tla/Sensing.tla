------------------------------- MODULE Sensing -------------------------------
(***************************************************************************)
(* gtm_os/intelligence/sensing.py: fifteen sensors ask a provider, look    *)
(* each item up among the tenant's signals and add a row for it.  The      *)
(* session does not flush by itself, so a look sees committed rows only;   *)
(* nothing in the database makes a signal unique; and the counters a       *)
(* search passes on its way (the free quota of Google, the spend ledger)   *)
(* commit, or roll back, the same session.                                 *)
(* The last part is linkedin_search_config.py: which phrases are due, and  *)
(* the stamp that is written back with the whole configuration.            *)
(*                                                                         *)
(* A sensor is the record of what it does differently; an item is a        *)
(* reference that has an identifier and matches a topic, where the sensor  *)
(* asks for one.  What a signal says is left out.                          *)
(***************************************************************************)
EXTENDS Naturals, Sequences, FiniteSets

CONSTANTS
  SenseTenants,
  SenseRuns,      \* runs of a sensor, in turn or overlapping
  Items,          \* references that providers may answer with
  SenseParts,     \* bound: topics, feeds, competitors or pages of a run
  QueryLimit,     \* the competitor sensor's limit of queries per run
  FreeQuota,      \* FREE_DAILY_QUOTA
  Phrases,
  PhraseLimit,    \* max_phrases_per_cycle
  MaxSenseMishaps \* bound: failures, crashes, overlapping starts, edits, deployments

ASSUME SensingAssumption ==
  /\ IsFiniteSet(SenseTenants) /\ IsFiniteSet(SenseRuns) /\ IsFiniteSet(Items) /\ IsFiniteSet(Phrases)
  /\ SenseParts \in Nat \ {0} /\ QueryLimit \in Nat \ {0} /\ FreeQuota \in Nat
  /\ PhraseLimit \in Nat \ {0} /\ MaxSenseMishaps \in Nat

(* looks : whose signals an item is looked up in                           *)
(* parts : how many questions one run asks                                 *)
(* fails : a failed question ends the run, or that part is left out        *)
(* search: the question goes through the free quota, then the paid search  *)
(* capped: the run returns at its limit of queries                         *)
(* saves : a commit after each part, or one at the end                     *)
Sensor == [looks : {"tenant", "everyone", "never"}, parts : 1..SenseParts, fails : {"end", "part"}, search : BOOLEAN, capped : BOOLEAN, saves : {"part", "end"}]

Plain == [looks |-> "tenant", parts |-> 1, fails |-> "end", search |-> FALSE, capped |-> FALSE, saves |-> "end"]
Feeds == [Plain EXCEPT !.parts = SenseParts, !.fails = "part"]
Searches == [Feeds EXCEPT !.search = TRUE]

LinkedinJobs == Plain
LinkedinPosts == Plain
PostEngagement == Plain
WebSearch == [Plain EXCEPT !.looks = "never"]
CompanyWebsite == WebSearch
TheirstackJobs == WebSearch
LinkedinReplies == [Feeds EXCEPT !.looks = "everyone", !.saves = "part"]
HackernewsStories == Feeds
RssArticles == Feeds
WebsiteVisitors == Plain
WebSearchTrends == Searches
CompetitorContent == [Searches EXCEPT !.capped = TRUE]
CompetitorPosts == Feeds
GoogleNews == Feeds

Sensors == {LinkedinJobs, LinkedinPosts, PostEngagement, WebSearch, CompanyWebsite, TheirstackJobs, LinkedinReplies,
            HackernewsStories, RssArticles, WebsiteVisitors, WebSearchTrends, CompetitorContent, CompetitorPosts, GoogleNews}

(* An answer: nothing, some items, or one item twice.                      *)
Answers == {<<>>} \cup {<<i>> : i \in Items} \cup {<<i, i>> : i \in Items}
                  \cup {x \in Items \X Items : x[1] # x[2]}

VARIABLES
  sensor,       \* the sensor this behaviour is about; phraseScene is about the phrases instead
  phraseScene,
  rows,         \* committed signals: how many rows per tenant and item
  senseRun,     \* the runs in flight
  quotaUsed,    \* the counter in the Parameter row
  queries,      \* history: calls made to the free search
  raced,        \* history: the counter was written by a run that had not seen its value
  doubled,      \* history: <<tenant, item>> looked up while a row for it was not committed yet
  undone,       \* history: <<tenant, item>> rolled back under the run that had added it
  phraseBook,   \* the Parameter row, or NoBook
  searching,    \* per run: the configuration it holds, and the phrases it asks
  catalog,      \* which catalog the deployed code has
  meant,        \* history: the operator's latest list, 0 for the catalog's
  reverted,     \* history: an edit was made while a search held an older configuration
  asked,        \* history: how often each phrase was searched within the gap
  forgiven,     \* history: phrases that may be searched again within the gap
  senseMishaps

fetchVars == <<rows, senseRun, quotaUsed, queries, raced, doubled, undone>>
phraseVars == <<phraseBook, searching, catalog, meant, reverted, asked, forgiven>>
sensingVars == <<sensor, phraseScene, fetchVars, phraseVars, senseMishaps>>

Resting == [at |-> "rest"]
Closed == [at |-> "closed"]
NoPending == [i \in Items |-> 0]
SenseRun == {Resting, Closed} \cup
  [at : {"ask", "count", "fall", "look", "short", "over", "lost"}, tenant : SenseTenants, part : 1..SenseParts + 1, answer : Answers,
   added : [Items -> 0..2 * SenseParts], heard : SUBSET Items, late : SUBSET Items, seenUsed : Nat]

NoBook == [list |-> 0, marks |-> {}, stored |-> FALSE]
Book == [list : Nat, marks : SUBSET Phrases, stored : BOOLEAN]

SensingTypeOK ==
  /\ sensor \in Sensors /\ phraseScene \in BOOLEAN
  /\ rows \in [SenseTenants -> [Items -> Nat]]
  /\ senseRun \in [SenseRuns -> SenseRun]
  /\ quotaUsed \in 0..FreeQuota /\ queries \in Nat /\ raced \in BOOLEAN
  /\ doubled \subseteq SenseTenants \X Items /\ undone \subseteq SenseTenants \X Items
  /\ phraseBook \in Book /\ searching \in [SenseRuns -> {Resting} \cup [at : {"ask", "mark"}, book : Book, due : SUBSET Phrases]]
  /\ catalog \in Nat /\ meant \in Nat /\ reverted \in BOOLEAN
  /\ asked \in [Phrases -> Nat] /\ forgiven \subseteq Phrases
  /\ senseMishaps \in 0..MaxSenseMishaps

SensingInit ==
  /\ sensor \in Sensors /\ phraseScene \in BOOLEAN
  /\ phraseScene => sensor = LinkedinPosts
  /\ rows = [t \in SenseTenants |-> NoPending]
  /\ senseRun = [r \in SenseRuns |-> Resting]
  /\ quotaUsed = 0 /\ queries = 0 /\ raced = FALSE /\ doubled = {} /\ undone = {}
  /\ phraseBook = NoBook /\ searching = [r \in SenseRuns |-> Resting]
  /\ catalog = 0 /\ meant = 0 /\ reverted = FALSE
  /\ asked = [p \in Phrases |-> 0] /\ forgiven = {}
  /\ senseMishaps = 0

Mishap == senseMishaps < MaxSenseMishaps /\ senseMishaps' = senseMishaps + 1
NoMishap == UNCHANGED senseMishaps
Become(r, rec) == senseRun' = [senseRun EXCEPT ![r] = rec]

Ongoing(r) == senseRun[r] \notin {Resting, Closed}

(* A run begins; beside another one it counts as a mishap.                 *)
StartSensing(r) ==
  /\ senseRun[r] = Resting
  /\ IF \E q \in SenseRuns : Ongoing(q) THEN Mishap ELSE NoMishap
  /\ \E t \in SenseTenants :
       Become(r, [at |-> IF sensor.search THEN "count" ELSE "ask", tenant |-> t, part |-> 1, answer |-> <<>>,
                  added |-> NoPending, heard |-> {}, late |-> {}, seenUsed |-> quotaUsed])
  /\ UNCHANGED <<rows, quotaUsed, queries, raced, doubled, undone>>

(* What a session has added becomes rows, whoever calls commit.            *)
Stored(r) == [rows EXCEPT ![senseRun[r].tenant] = [i \in Items |-> @[i] + senseRun[r].added[i]]]
Saved(rec) == [rec EXCEPT !.added = NoPending, !.late = {}]

(* _check_and_increment_daily_quota: the counter is read before it is      *)
(* written, and its commit takes the session's additions along.            *)
CountQuery(r) ==
  LET rec == senseRun[r] IN
  /\ rec.at = "count"
  /\ IF rec.seenUsed >= FreeQuota
     THEN /\ Become(r, [rec EXCEPT !.at = "fall"]) /\ UNCHANGED <<rows, quotaUsed, queries, raced>>
     ELSE /\ quotaUsed' = rec.seenUsed + 1 /\ queries' = queries + 1 /\ raced' = (raced \/ quotaUsed # rec.seenUsed)
          /\ rows' = Stored(r) /\ Become(r, [Saved(rec) EXCEPT !.at = "ask"])
  /\ NoMishap /\ UNCHANGED <<doubled, undone>>

(* The paid search instead: the budget guard commits or, when the database *)
(* fails it, rolls back; then the query is answered, or yields nothing.    *)
FallBack(r) ==
  LET rec == senseRun[r] IN
  /\ rec.at = "fall"
  /\ \/ /\ rows' = Stored(r)
        /\ \E a \in Answers : Become(r, [Saved(rec) EXCEPT !.at = "look", !.answer = a])
        /\ NoMishap /\ UNCHANGED undone
     \/ /\ Become(r, [rec EXCEPT !.at = "look", !.answer = <<>>])
        /\ NoMishap /\ UNCHANGED <<rows, undone>>
     \/ /\ Become(r, [Saved(rec) EXCEPT !.at = "look", !.answer = <<>>])
        /\ undone' = undone \cup {<<rec.tenant, i>> : i \in {j \in Items : rec.added[j] > 0}}
        /\ Mishap /\ UNCHANGED rows
  /\ UNCHANGED <<quotaUsed, queries, raced, doubled>>

(* The provider answers, or does not.                                      *)
Answered(r) ==
  LET rec == senseRun[r] IN
  /\ rec.at = "ask"
  /\ \/ \E a \in Answers : Become(r, [rec EXCEPT !.at = "look", !.answer = a]) /\ NoMishap
     \/ /\ Mishap
        /\ CASE sensor.search -> Become(r, [rec EXCEPT !.at = "fall"])
             [] ~sensor.search /\ sensor.fails = "part" -> Become(r, [rec EXCEPT !.at = "look", !.answer = <<>>])
             [] OTHER -> Become(r, Closed)
  /\ UNCHANGED <<rows, quotaUsed, queries, raced, doubled, undone>>

(* One item of the answer: looked up among the committed rows, and added.  *)
BugKnown(t, i) == sensor.looks # "never" /\ \E u \in SenseTenants : rows[u][i] > 0
Known(t, i) ==
  CASE sensor.looks = "tenant" -> rows[t][i] > 0
    [] sensor.looks = "everyone" -> \E u \in SenseTenants : rows[u][i] > 0
    [] OTHER -> FALSE
InFlight(t, i) == \E q \in SenseRuns : Ongoing(q) /\ senseRun[q].tenant = t /\ senseRun[q].added[i] > 0

LookItem(r) ==
  LET rec == senseRun[r] IN LET i == Head(rec.answer) IN
  /\ rec.at = "look" /\ rec.answer # <<>>
  /\ IF Known(rec.tenant, i)
     THEN Become(r, [rec EXCEPT !.answer = Tail(@), !.heard = @ \cup {i}]) /\ UNCHANGED doubled
     ELSE /\ Become(r, [rec EXCEPT !.answer = Tail(@), !.heard = @ \cup {i}, !.late = @ \cup {i}, !.added[i] = @ + 1])
          /\ doubled' = IF InFlight(rec.tenant, i) THEN doubled \cup {<<rec.tenant, i>>} ELSE doubled
  /\ NoMishap /\ UNCHANGED <<rows, quotaUsed, queries, raced, undone>>

(* The next topic, feed, competitor or page; the end, with its commit; or  *)
(* the return at the limit of queries, without one.                        *)
NextPart(r) ==
  LET rec == senseRun[r] IN
  /\ rec.at = "look" /\ rec.answer = <<>>
  /\ CASE rec.part >= sensor.parts ->
            rows' = Stored(r) /\ Become(r, [Saved(rec) EXCEPT !.at = "over"])
       [] rec.part < sensor.parts /\ sensor.capped /\ rec.part >= QueryLimit ->
            Become(r, [rec EXCEPT !.at = "short"]) /\ UNCHANGED rows
       [] OTHER ->
            /\ LET next == [rec EXCEPT !.at = IF sensor.search THEN "count" ELSE "ask", !.part = @ + 1, !.seenUsed = quotaUsed] IN
               IF sensor.saves = "part" THEN rows' = Stored(r) /\ Become(r, Saved(next)) ELSE Become(r, next) /\ UNCHANGED rows
  /\ NoMishap /\ UNCHANGED <<quotaUsed, queries, raced, doubled, undone>>

(* The caller of a run that returned early: a later step of it commits the *)
(* same session, or the worker of the sweep closes it.                     *)
CallerEnds(r) ==
  LET rec == senseRun[r] IN
  /\ rec.at = "short"
  /\ \/ rows' = Stored(r) /\ Become(r, [Saved(rec) EXCEPT !.at = "over"])
     \/ Become(r, [rec EXCEPT !.at = "lost"]) /\ UNCHANGED rows
  /\ NoMishap /\ UNCHANGED <<quotaUsed, queries, raced, doubled, undone>>

CloseSensing(r) ==
  /\ senseRun[r].at \in {"over", "lost"}
  /\ Become(r, Closed)
  /\ NoMishap /\ UNCHANGED <<rows, quotaUsed, queries, raced, doubled, undone>>

(* The process ends: what was not committed is gone.                       *)
SensingCrash ==
  /\ \E r \in SenseRuns : Ongoing(r)
  /\ senseRun' = [r \in SenseRuns |-> IF Ongoing(r) THEN Closed ELSE senseRun[r]]
  /\ Mishap /\ UNCHANGED <<rows, quotaUsed, queries, raced, doubled, undone>>

Fetch ==
  /\ ~phraseScene /\ UNCHANGED <<sensor, phraseScene, phraseVars>>
  /\ \/ SensingCrash
     \/ \E r \in SenseRuns : StartSensing(r) \/ CountQuery(r) \/ FallBack(r) \/ Answered(r)
                             \/ LookItem(r) \/ NextPart(r) \/ CallerEnds(r) \/ CloseSensing(r)

(* get_linkedin_search_config: the stored value, or the code's catalog.    *)
InForce == IF phraseBook.stored THEN phraseBook ELSE [NoBook EXCEPT !.list = catalog]

(* select_due_phrases: those without a fresh stamp, at most the limit.     *)
BugDueOf(book) == {d \in SUBSET Phrases : Cardinality(d) = PhraseLimit}
DueOf(book) ==
  LET due == Phrases \ book.marks IN
  IF Cardinality(due) <= PhraseLimit THEN {due} ELSE {d \in SUBSET due : Cardinality(d) = PhraseLimit}

Search(r, rec) == searching' = [searching EXCEPT ![r] = rec]

StartSearch(r) ==
  /\ searching[r] = Resting
  /\ \E due \in DueOf(InForce) \ {{}} : Search(r, [at |-> "ask", book |-> InForce, due |-> due])
  /\ IF \E q \in SenseRuns : searching[q] # Resting
     THEN Mishap /\ forgiven' = Phrases
     ELSE NoMishap /\ UNCHANGED forgiven
  /\ UNCHANGED <<phraseBook, catalog, meant, reverted, asked>>

(* The posts are found and stored; or the search, or the process, fails:   *)
(* afterwards, before the stamp, the phrases were searched for nothing.    *)
PostsFound(r) ==
  /\ searching[r] # Resting /\ searching[r].at = "ask"
  /\ asked' = [p \in Phrases |-> asked[p] + IF p \in searching[r].due THEN 1 ELSE 0]
  /\ Search(r, [searching[r] EXCEPT !.at = "mark"])
  /\ NoMishap /\ UNCHANGED <<phraseBook, catalog, meant, reverted, forgiven>>

SearchFails(r) ==
  /\ searching[r] # Resting
  /\ Search(r, Resting)
  /\ forgiven' = IF searching[r].at = "mark" THEN forgiven \cup searching[r].due ELSE forgiven
  /\ Mishap /\ UNCHANGED <<phraseBook, catalog, meant, reverted, asked>>

(* record_phrases_searched writes the configuration it was given.          *)
RecordPhrases(r) ==
  /\ searching[r] # Resting /\ searching[r].at = "mark"
  /\ LET book == searching[r].book IN
       phraseBook' = [list |-> book.list, marks |-> book.marks \cup searching[r].due, stored |-> TRUE]
  /\ Search(r, Resting)
  /\ NoMishap /\ UNCHANGED <<catalog, meant, reverted, asked, forgiven>>

(* An operator saves the parameter: a list of his own, with the stamps his *)
(* page had, or none.                                                      *)
EditPhrases ==
  /\ meant' = 10 + senseMishaps /\ Mishap
  /\ \E kept \in {InForce.marks, {}} :
       /\ phraseBook' = [list |-> meant', marks |-> kept, stored |-> TRUE]
       /\ forgiven' = forgiven \cup (InForce.marks \ kept)
  /\ reverted' = (\E r \in SenseRuns : searching[r] # Resting)
  /\ UNCHANGED <<searching, catalog, asked>>

DeployCatalog ==
  /\ catalog' = catalog + 1 /\ Mishap
  /\ UNCHANGED <<phraseBook, searching, meant, reverted, asked, forgiven>>

(* min_hours_between_searches pass; a search takes minutes.                *)
GapPasses ==
  /\ asked # [p \in Phrases |-> 0] /\ \A r \in SenseRuns : searching[r] = Resting
  /\ phraseBook' = [phraseBook EXCEPT !.marks = {}]
  /\ asked' = [p \in Phrases |-> 0] /\ forgiven' = {}
  /\ NoMishap /\ UNCHANGED <<searching, catalog, meant, reverted>>

Keywords ==
  /\ phraseScene /\ UNCHANGED <<sensor, phraseScene, fetchVars>>
  /\ \/ EditPhrases \/ DeployCatalog \/ GapPasses
     \/ \E r \in SenseRuns : StartSearch(r) \/ PostsFound(r) \/ SearchFails(r) \/ RecordPhrases(r)

SensingNext == Fetch \/ Keywords
SensingSpec == SensingInit /\ [][SensingNext]_sensingVars

(* An item has two rows only if the sensor never looks, or the item was    *)
(* looked up while another row for it was added and not committed: by an   *)
(* overlapping run, by an earlier part of the run, or by the same answer   *)
(* (GtmSignal.dedup_key is no constraint).                                 *)
SensedOnce ==
  sensor.looks # "never" =>
    \A t \in SenseTenants, i \in Items : rows[t][i] > 1 => <<t, i>> \in doubled

(* What a run heard is stored when it ends, for its tenant, or for some    *)
(* tenant where the sensor looks at everyone's; except what a rollback of  *)
(* the spend ledger took, and, of a run that returned at its limit into a  *)
(* closing session, what its last query found.                             *)
HeardIsKept ==
  \A r \in SenseRuns : senseRun[r].at \in {"over", "lost"} =>
    LET rec == senseRun[r] IN
    \A i \in rec.heard :
      \/ rows[rec.tenant][i] > 0
      \/ sensor.looks = "everyone" /\ \E u \in SenseTenants : rows[u][i] > 0
      \/ <<rec.tenant, i>> \in undone
      \/ rec.at = "lost" /\ i \in rec.late

(* The free searches of a day stay within the quota, unless a run wrote    *)
(* the counter without having seen it: then it may start from below again. *)
QuotaBounded == ~raced => queries = quotaUsed

(* A phrase is searched, and paid for, once within the gap unless its      *)
(* stamp was lost: to a failure before it, an overlap, or an edit.         *)
SearchedOncePerGap == \A p \in Phrases : asked[p] > 1 => p \in forgiven

(* The list an operator saved stays in force, unless a search was under    *)
(* way with the former one.                                                *)
EditStands == meant # 0 /\ ~reverted => InForce.list = meant

(* The rules of the sensors together.                                      *)
SensingRules == SensingTypeOK /\ SensedOnce /\ HeardIsKept /\ QuotaBounded /\ SearchedOncePerGap /\ EditStands
=============================================================================
