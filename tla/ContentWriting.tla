--------------------------- MODULE ContentWriting --------------------------
(***************************************************************************)
(* What is written about a content topic: the ideas that a sweep, a read   *)
(* of the suggestions, or the content chat generates, their review, the    *)
(* drafts written for an approved idea and the post on WordPress; and the  *)
(* pillar with its linked pieces.  content_opportunity.py,                 *)
(* account_intelligence_topics.py, partner_pipeline_topics.py,             *)
(* authentic_voice.py, content_pillar.py, wordpress_publish.py and their   *)
(* routes.                                                                 *)
(*                                                                         *)
(* No index keeps an idea single: every generator looks, asks a model and  *)
(* inserts.  A model's call commits, so what follows it reads the rows     *)
(* anew.                                                                   *)
(***************************************************************************)
EXTENDS Naturals, Sequences, FiniteSets

CONSTANTS
  Desks,          \* requests and runs under way
  TrendTopics,    \* topics of the trend sweep: an initial segment of the positive naturals
  SweepLimit,     \* bound of the code: topics a generation sweep looks at
  Platforms,
  ClusterSize,    \* linked pieces of a pillar
  MaxIdeas,       \* bound: rows of content_opportunities
  MaxWritingFaults

(* Topics the other generators look up by their name and make if missing.  *)
Pipeline == 0

ASSUME WritingAssumption ==
  /\ TrendTopics \subseteq Nat \ {0} /\ SweepLimit \in Nat /\ ClusterSize \in Nat \ {0}
  /\ MaxIdeas \in Nat /\ MaxWritingFaults \in Nat

VARIABLES
  named,      \* rows of the pipeline topic; ghost: how many there were when each was looked up
  ideas,      \* content_opportunities
  pillar,     \* one content pillar and its clusters
  desk,       \* what a request or run is at
  posts,      \* ghost: the ideas that were posted
  part,       \* what a behaviour is about: ideas, the drafts of one, or a pillar
  writingFaults

writingVars == <<named, ideas, pillar, desk, posts, part, writingFaults>>

Status == {"candidate", "approved", "rejected", "changes_requested"}

(* A topic is a number, and the row of a named topic one more: a topic     *)
(* made twice is two topics.  `seen` is how many ideas there were when the *)
(* generator looked; `drafts` holds which writing of a platform's draft is *)
(* kept.                                                                   *)
ContentOpportunity == [topic : Nat \X Nat, origin : {"trend", "pipeline_signal"}, status : Status,
                       drafts : SUBSET Platforms, seen : Nat]
ContentPillar == [status : Status \cup {"none"}, draft : BOOLEAN, clusters : Seq([status : Status, draft : BOOLEAN]), cut : BOOLEAN]

AtRest == [pc |-> "off", todo |-> {}, topic |-> <<0, 0>>, seen |-> 0, idea |-> 0, platform |-> "none", had |-> {}]
NoPillar == [status |-> "none", draft |-> FALSE, clusters |-> <<>>, cut |-> FALSE]

WritingInit ==
  /\ part \in {"ideas", "drafts", "pillar"}
  /\ ideas = IF part = "drafts" THEN <<[topic |-> <<Pipeline, 1>>, origin |-> "pipeline_signal", status |-> "candidate", drafts |-> {}, seen |-> 0]>> ELSE <<>>
  /\ named = IF part = "drafts" THEN <<0>> ELSE <<>>
  /\ pillar = NoPillar /\ posts = {}
  /\ desk = [d \in Desks |-> AtRest] /\ writingFaults = 0

Open(t) == {i \in DOMAIN ideas : ideas[i].topic = t /\ ideas[i].status # "rejected"}
Fault == writingFaults < MaxWritingFaults /\ writingFaults' = writingFaults + 1

-----------------------------------------------------------------------------
(* The trend sweep: topics in the order of their ids, a bounded number of  *)
(* them.  Topics that have an idea count: those behind them are not looked *)
(* at, however often it runs.                                              *)
StartSweep(d) ==
  /\ desk[d].pc = "off"
  /\ desk' = [desk EXCEPT ![d] = [AtRest EXCEPT !.pc = "sweep", !.todo = {t \in TrendTopics : t <= SweepLimit}]]
  /\ UNCHANGED <<named, ideas, pillar, posts, writingFaults>>

(* As generate_content_opportunity would without its look at the ideas.    *)
BugLook(t) == TRUE

(* An idea of the topic that was not rejected, one whose changes were      *)
(* requested too, keeps the topic from another.                            *)
Look(t) == Open(t) = {}

(* Trend and citable evidence are judged here: either may be too thin.     *)
SweepTopic(d, t) ==
  /\ desk[d].pc = "sweep" /\ t \in desk[d].todo
  /\ \A u \in desk[d].todo : t <= u
  /\ \/ desk' = [desk EXCEPT ![d].todo = @ \ {t}]
     \/ /\ Look(<<t, 1>>) /\ Len(ideas) < MaxIdeas
        /\ desk' = [desk EXCEPT ![d].todo = @ \ {t}, ![d].pc = "sweep_ask", ![d].topic = <<t, 1>>, ![d].seen = Len(ideas)]
  /\ UNCHANGED <<named, ideas, pillar, posts, writingFaults>>

EndSweep(d) ==
  /\ desk[d].pc = "sweep" /\ desk[d].todo = {}
  /\ desk' = [desk EXCEPT ![d] = AtRest]
  /\ UNCHANGED <<named, ideas, pillar, posts, writingFaults>>

(* The chat asks for one topic.                                            *)
generate_content_opportunity(d, t) ==
  /\ desk[d].pc = "off" /\ Look(<<t, 1>>) /\ Len(ideas) < MaxIdeas
  /\ desk' = [desk EXCEPT ![d] = [AtRest EXCEPT !.pc = "ask", !.topic = <<t, 1>>, !.seen = Len(ideas)]]
  /\ UNCHANGED <<named, ideas, pillar, posts, writingFaults>>

(* A read of the suggestions asks for the first idea of the pipeline only  *)
(* when there never was one, the chat always.                              *)
StartPipelineIdea(d, byRead) ==
  /\ desk[d].pc = "off"
  /\ byRead => \A i \in DOMAIN ideas : ideas[i].origin # "pipeline_signal"
  /\ desk' = [desk EXCEPT ![d] = [AtRest EXCEPT !.pc = IF named = <<>> THEN "make_topic" ELSE "pick_topic", !.seen = Len(named)]]
  /\ UNCHANGED <<named, ideas, pillar, posts, writingFaults>>

_get_or_create_pipeline_signal_topic(d) ==
  /\ desk[d].pc = "make_topic"
  /\ named' = Append(named, desk[d].seen)
  /\ desk' = [desk EXCEPT ![d].pc = "pick_topic"]
  /\ UNCHANGED <<ideas, pillar, posts, writingFaults>>

(* The row it made, or any of that name.                                   *)
generate_pipeline_signal_opportunity(d) ==
  /\ desk[d].pc = "pick_topic"
  /\ \E n \in DOMAIN named :
       LET t == <<Pipeline, n>> IN
       desk' = [desk EXCEPT ![d] = IF Look(t) /\ Len(ideas) < MaxIdeas
                                   THEN [AtRest EXCEPT !.pc = "ask", !.topic = t, !.seen = Len(ideas)] ELSE AtRest]
  /\ UNCHANGED <<named, ideas, pillar, posts, writingFaults>>

(* The model answers with an idea, or with nothing that can be used.       *)
InsertIdea(d) ==
  /\ desk[d].pc \in {"ask", "sweep_ask"}
  /\ \/ /\ Len(ideas) < MaxIdeas
        /\ ideas' = Append(ideas, [topic |-> desk[d].topic, status |-> "candidate", drafts |-> {}, seen |-> desk[d].seen,
                                   origin |-> IF desk[d].topic[1] = Pipeline THEN "pipeline_signal" ELSE "trend"])
        /\ UNCHANGED writingFaults
     \/ Fault /\ UNCHANGED ideas
  /\ desk' = [desk EXCEPT ![d] = IF desk[d].pc = "ask" THEN AtRest ELSE [AtRest EXCEPT !.pc = "sweep", !.todo = desk[d].todo]]
  /\ UNCHANGED <<named, pillar, posts>>

(* As if a changed idea could be approved after all.                       *)
Bug_review(i, status) == ideas[i].status \in {"candidate", "changes_requested"} /\ status \in Status \ {"candidate"}

(* Approve, reject or ask for changes: of a candidate only.                *)
_review(i, status) == ideas[i].status = "candidate" /\ status \in Status \ {"candidate"}

ReviewIdea(i, status) ==
  /\ _review(i, status)
  /\ ideas' = [ideas EXCEPT ![i].status = status]
  /\ UNCHANGED <<named, pillar, desk, posts, writingFaults>>

-----------------------------------------------------------------------------
generate_content_draft(d, i, p) ==
  /\ desk[d].pc = "off" /\ ideas[i].status = "approved"
  /\ desk' = [desk EXCEPT ![d] = [AtRest EXCEPT !.pc = "draft", !.idea = i, !.platform = p]]
  /\ UNCHANGED <<named, ideas, pillar, posts, writingFaults>>

(* The editor's reading and the revision are further calls; any but the    *)
(* first may fail.  Then the drafts are read, after the last commit.       *)
ReadDrafts(d) ==
  /\ desk[d].pc = "draft"
  /\ \/ desk' = [desk EXCEPT ![d].pc = "store", ![d].had = ideas[desk[d].idea].drafts] /\ UNCHANGED writingFaults
     \/ Fault /\ desk' = [desk EXCEPT ![d] = AtRest]
  /\ UNCHANGED <<named, ideas, pillar, posts>>

(* As if the platforms' drafts were a single text.                         *)
BugMerged(d) == {desk[d].platform}

(* The whole dictionary is written back.                                   *)
Merged(d) == desk[d].had \cup {desk[d].platform}

StoreDraft(d) ==
  /\ desk[d].pc = "store"
  /\ ideas' = [ideas EXCEPT ![desk[d].idea].drafts = Merged(d)]
  /\ desk' = [desk EXCEPT ![d] = AtRest]
  /\ UNCHANGED <<named, pillar, posts, writingFaults>>

(* The route posts whatever blog draft the idea has and keeps no record: a *)
(* post whose answer is late is made, and the operator told it failed.     *)
publish_blog_to_wordpress(i) ==
  /\ "blog" \in ideas[i].drafts
  /\ posts' = posts \cup {i}
  /\ UNCHANGED <<named, ideas, pillar, desk, writingFaults>>

-----------------------------------------------------------------------------
(* The structure is asked for and the pillar committed by itself.          *)
generate_content_pillar(d) ==
  /\ desk[d].pc = "off" /\ pillar = NoPillar /\ \A e \in Desks : desk[e].pc # "pillar"
  /\ pillar' = [NoPillar EXCEPT !.status = "candidate"]
  /\ desk' = [desk EXCEPT ![d] = [AtRest EXCEPT !.pc = "pillar"]]
  /\ UNCHANGED <<named, ideas, posts, writingFaults>>

(* Each piece in a commit of its own.  Of the model's answer the count and *)
(* the offerings were checked: a piece without title or angle raises here. *)
CommitCluster(d) ==
  /\ desk[d].pc = "pillar" /\ Len(pillar.clusters) < ClusterSize
  /\ \/ /\ pillar' = [pillar EXCEPT !.clusters = Append(@, [status |-> "candidate", draft |-> FALSE])]
        /\ UNCHANGED <<desk, writingFaults>>
     \/ Fault /\ pillar' = [pillar EXCEPT !.cut = TRUE] /\ desk' = [desk EXCEPT ![d] = AtRest]
  /\ UNCHANGED <<named, ideas, posts>>

EndPillar(d) ==
  /\ desk[d].pc = "pillar" /\ Len(pillar.clusters) = ClusterSize
  /\ desk' = [desk EXCEPT ![d] = AtRest]
  /\ UNCHANGED <<named, ideas, pillar, posts, writingFaults>>

(* A pillar may be reviewed while its pieces are still being written.      *)
review_content_pillar(status) ==
  /\ pillar.status = "candidate" /\ status \in Status \ {"candidate"}
  /\ pillar' = [pillar EXCEPT !.status = status]
  /\ UNCHANGED <<named, ideas, desk, posts, writingFaults>>

review_content_cluster(k, status) ==
  /\ pillar.clusters[k].status = "candidate" /\ status \in Status \ {"candidate"}
  /\ pillar' = [pillar EXCEPT !.clusters[k].status = status]
  /\ UNCHANGED <<named, ideas, desk, posts, writingFaults>>

generate_pillar_draft ==
  /\ pillar.status = "approved"
  /\ pillar' = [pillar EXCEPT !.draft = TRUE]
  /\ UNCHANGED <<named, ideas, desk, posts, writingFaults>>

(* Whatever became of its pillar.                                          *)
generate_cluster_draft(k) ==
  /\ pillar.clusters[k].status = "approved"
  /\ pillar' = [pillar EXCEPT !.clusters[k].draft = TRUE]
  /\ UNCHANGED <<named, ideas, desk, posts, writingFaults>>

Stop(d) ==
  /\ desk[d].pc # "off" /\ Fault
  /\ pillar' = IF desk[d].pc = "pillar" THEN [pillar EXCEPT !.cut = TRUE] ELSE pillar
  /\ desk' = [desk EXCEPT ![d] = AtRest]
  /\ UNCHANGED <<named, ideas, posts>>

IdeaStep ==
  \/ \E d \in Desks :
       \/ StartSweep(d) \/ (\E t \in TrendTopics : SweepTopic(d, t) \/ generate_content_opportunity(d, t)) \/ EndSweep(d)
       \/ (\E byRead \in BOOLEAN : StartPipelineIdea(d, byRead)) \/ _get_or_create_pipeline_signal_topic(d)
       \/ generate_pipeline_signal_opportunity(d) \/ InsertIdea(d)

DraftsStep ==
  \E i \in DOMAIN ideas :
    \/ publish_blog_to_wordpress(i)
    \/ \E d \in Desks : (\E p \in Platforms : generate_content_draft(d, i, p)) \/ ReadDrafts(d) \/ StoreDraft(d)

PillarStep ==
  \/ \E d \in Desks : generate_content_pillar(d) \/ CommitCluster(d) \/ EndPillar(d)
  \/ \E s \in Status : review_content_pillar(s) \/ \E k \in DOMAIN pillar.clusters : review_content_cluster(k, s)
  \/ generate_pillar_draft \/ \E k \in DOMAIN pillar.clusters : generate_cluster_draft(k)

ReviewStep == \E i \in DOMAIN ideas, s \in Status : ReviewIdea(i, s)

WritingNext ==
  /\ UNCHANGED part
  /\ \/ part = "ideas" /\ IdeaStep
     \/ part = "drafts" /\ DraftsStep
     \/ part = "pillar" /\ PillarStep
     \/ ReviewStep \/ \E d \in Desks : Stop(d)

WritingSpec == WritingInit /\ [][WritingNext]_writingVars

-----------------------------------------------------------------------------
WritingTypeOK ==
  /\ named \in Seq(Nat) /\ ideas \in Seq(ContentOpportunity) /\ pillar \in ContentPillar /\ posts \subseteq DOMAIN ideas

(* A topic has two ideas at once, none rejected, only when the later one's *)
(* generator had looked before the earlier one was there.                  *)
OneIdeaPerTopic ==
  \A i, j \in DOMAIN ideas :
    (i < j /\ ideas[i].topic = ideas[j].topic /\ ideas[i].status # "rejected" /\ ideas[j].status # "rejected") => ideas[j].seen < i

(* The same of the rows of a topic that is looked up by its name.          *)
NamedOnce == \A m, n \in DOMAIN named : m < n => named[n] < m

(* What is drafted, and what is posted, an operator approved, and it is    *)
(* still approved: the drafting reads the status before its calls.         *)
DraftsWereApproved ==
  /\ \A i \in DOMAIN ideas : (ideas[i].drafts # {} \/ i \in posts) => ideas[i].status = "approved"
  /\ pillar.draft => pillar.status = "approved"
  /\ \A k \in DOMAIN pillar.clusters : pillar.clusters[k].draft => pillar.clusters[k].status = "approved"

(* A pillar has all its pieces, or its request is at work or was cut short *)
(* in between; nothing tells the two apart afterwards.                     *)
PillarWhole ==
  (pillar.status # "none" /\ Len(pillar.clusters) < ClusterSize) => (pillar.cut \/ \E d \in Desks : desk[d].pc = "pillar")

(* A review is final, and a platform's draft is dropped only by a writer   *)
(* that had read the idea's drafts before that one was stored.             *)
WritingKept ==
  [][\A i \in DOMAIN ideas :
       /\ ideas'[i].status # ideas[i].status => ideas[i].status = "candidate"
       /\ \A p \in ideas[i].drafts \ ideas'[i].drafts :
            \E d \in Desks : desk[d].pc = "store" /\ desk[d].idea = i /\ p \notin desk[d].had]_ideas
=============================================================================
