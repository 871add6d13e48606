--------------------------- MODULE ContentTopics ---------------------------
(***************************************************************************)
(* How signals become content topics.  topic_linking.py ties signals to    *)
(* the configured topic, candidate_extraction.py asks a model to name what *)
(* the others are about, candidate_normalization.py brings the names of    *)
(* one concept together and promotion.py makes a topic of a cluster that   *)
(* enough independent entities speak of.                                   *)
(*                                                                         *)
(* Nothing but the pair of topic and signal is unique in the database: the *)
(* stages look before they insert.  The stage chain of sweep.py and the    *)
(* shorter chain of the partner's daily run, of two admin routes and of    *)
(* the content chat may be under way for one tenant at once.               *)
(***************************************************************************)
EXTENDS Naturals, FiniteSets, SequencesExt

CONSTANTS
  Sweeps,         \* chains with extraction and normalization
  Relinks,        \* chains that only link and promote
  Signals,        \* an initial segment of the positive naturals: ids, in the order of arrival
  Entity,         \* who speaks in a signal
  Concept,        \* the name a model would give it
  Alike,          \* pairs of names that share a significant word
  Matching,       \* signals that hold the configured topic's words
  Backlog,        \* signals there are at the start
  LinkWindow,     \* bound of the code: signals a linking sweep looks at
  MinEntities,    \* min_independent_entities
  MaxTopicFaults  \* bound: model calls that fail, chains that die

Chains == Sweeps \cup Relinks
Names == {Concept[s] : s \in Signals}

ASSUME TopicsAssumption ==
  /\ Sweeps \cap Relinks = {} /\ Backlog \in Nat /\ LinkWindow \in Nat /\ MinEntities \in Nat \ {0} /\ MaxTopicFaults \in Nat
  /\ Signals \subseteq Nat \ {0} /\ "none" \notin Names /\ Matching \subseteq Signals /\ Alike \subseteq SUBSET Names

VARIABLES
  arrived,      \* signals sensed so far
  topics,       \* content_topics
  evidence,     \* content_topic_evidence
  candidates,   \* topic_candidates
  judged,       \* ghost: pairs of candidates a model was to compare, and its answer
  crossed,      \* ghost: a sweep began to compare while another was at it
  chain,        \* the chains under way
  topicFaults

topicVars == <<arrived, topics, evidence, candidates, judged, crossed, chain, topicFaults>>

(* `seen` is how many rows there were when the writer looked.              *)
ContentTopic == [origin : {"configured", "discovered"}, seen : Nat]
Evidence == [topic : Nat, signal : Signals, seen : Nat]
TopicCandidate == [signal : Signals, name : Names, cluster_key : Names \cup {"none"}, seen : Nat]

Resting == [pc |-> "off", todo |-> {}, at |-> 0, seen |-> 0, keys |-> <<"none", "none">>, found |-> {}]

TopicInit ==
  /\ arrived = Backlog /\ topics = <<>> /\ evidence = <<>> /\ candidates = <<>> /\ judged = {} /\ crossed = FALSE
  /\ chain = [c \in Chains |-> Resting] /\ topicFaults = 0

Known == {s \in Signals : s <= arrived}
Cluster(k) == {i \in DOMAIN candidates : candidates[i].cluster_key = k}
Keys == {candidates[i].cluster_key : i \in DOMAIN candidates} \ {"none"}
Least(S) == CHOOSE i \in S : \A j \in S : i <= j

Sense ==
  /\ arrived + 1 \in Signals
  /\ arrived' = arrived + 1
  /\ UNCHANGED <<topics, evidence, candidates, judged, crossed, chain, topicFaults>>

(* The configured topic's row is looked up by name and made when missing;  *)
(* of two rows of one name either may be used.                             *)
StartLinking(c) ==
  /\ chain[c].pc = "off"
  /\ LET rows == {i \in DOMAIN topics : topics[i].origin = "configured"} IN
     \/ /\ rows = {}
        /\ chain' = [chain EXCEPT ![c] = [Resting EXCEPT !.pc = "topic", !.seen = Len(topics)]]
     \/ \E i \in rows : chain' = [chain EXCEPT ![c] = [Resting EXCEPT !.pc = "link", !.at = i]]
  /\ UNCHANGED <<arrived, topics, evidence, candidates, judged, crossed, topicFaults>>

_get_or_create_content_topic(c) ==
  /\ chain[c].pc = "topic"
  /\ topics' = Append(topics, [origin |-> "configured", seen |-> chain[c].seen])
  /\ chain' = [chain EXCEPT ![c].pc = "link", ![c].at = Len(topics')]
  /\ UNCHANGED <<arrived, evidence, candidates, judged, crossed, topicFaults>>

Linked(t) == {evidence[i].signal : i \in {j \in DOMAIN evidence : evidence[j].topic = t}}

(* The oldest signals first, the linked ones among them: what lies behind  *)
(* the window is never looked at.                                          *)
LinkRead(c) ==
  /\ chain[c].pc = "link"
  /\ chain' = [chain EXCEPT ![c].pc = "link_commit", ![c].seen = Len(evidence),
                            ![c].todo = {s \in Known \cap Matching : s <= LinkWindow} \ Linked(chain[c].at)]
  /\ UNCHANGED <<arrived, topics, evidence, candidates, judged, crossed, topicFaults>>

AfterLinking(c) == IF c \in Sweeps THEN "extract" ELSE "clusters"

(* One commit for all.  A pair another chain wrote meanwhile violates the  *)
(* unique index: nothing is written and the chain ends, its session being  *)
(* unusable.                                                               *)
LinkCommit(c) ==
  /\ chain[c].pc = "link_commit"
  /\ IF chain[c].todo \cap Linked(chain[c].at) # {}
     THEN chain' = [chain EXCEPT ![c] = Resting] /\ UNCHANGED evidence
     ELSE /\ evidence' = evidence \o SetToSeq([topic : {chain[c].at}, signal : chain[c].todo, seen : {chain[c].seen}])
          /\ chain' = [chain EXCEPT ![c] = [Resting EXCEPT !.pc = AfterLinking(c)]]
  /\ UNCHANGED <<arrived, topics, candidates, judged, crossed, topicFaults>>

is_candidate_worthy(s) ==
  /\ \A i \in DOMAIN evidence : evidence[i].signal # s
  /\ \A i \in DOMAIN candidates : candidates[i].signal # s

(* Signal by signal; what a model declined or failed to name is asked for  *)
(* again by every sweep.                                                   *)
ExtractNext(c) ==
  /\ chain[c].pc = "extract"
  /\ LET s == chain[c].at + 1 IN
     IF s \notin Known THEN chain' = [chain EXCEPT ![c] = [Resting EXCEPT !.pc = "assign"]]
     ELSE chain' = [chain EXCEPT ![c].at = s, ![c].seen = Len(candidates),
                                 ![c].pc = IF is_candidate_worthy(s) THEN "name" ELSE "extract"]
  /\ UNCHANGED <<arrived, topics, evidence, candidates, judged, crossed, topicFaults>>

extract_topic_candidate(c) ==
  /\ chain[c].pc = "name"
  /\ LET s == chain[c].at IN
     \/ /\ candidates' = Append(candidates, [signal |-> s, name |-> Concept[s], cluster_key |-> "none", seen |-> chain[c].seen])
        /\ UNCHANGED topicFaults
     \/ topicFaults < MaxTopicFaults /\ topicFaults' = topicFaults + 1 /\ UNCHANGED candidates
  /\ chain' = [chain EXCEPT ![c].pc = "extract"]
  /\ UNCHANGED <<arrived, topics, evidence, judged, crossed>>

(* As if the keys of before were read when the new ones are assigned.      *)
BugNewKeys(before) == Keys' \ Keys'

(* What no earlier run has clustered.                                      *)
NewKeys(before) == Keys' \ before

Words(k) == {candidates'[i].name : i \in {j \in DOMAIN candidates : candidates'[j].cluster_key = k}}

(* Pairs of the new keys with any key some word of which they share; a     *)
(* key's first row stands for it.                                          *)
_plausible_pairs(new) ==
  LET rep(k) == Least({i \in DOMAIN candidates' : candidates'[i].cluster_key = k})
  IN {{rep(pair[1]), rep(pair[2])} : pair \in {p \in new \X Keys' : p[1] # p[2] /\ \E a \in Words(p[1]), b \in Words(p[2]) : {a, b} \in Alike}}

Compares(c) == chain[c].pc \in {"compare", "merge"}

(* Every unclustered row gets its own name for a key, in one commit.       *)
AssignKeys(c) ==
  /\ chain[c].pc = "assign"
  /\ candidates' = [i \in DOMAIN candidates |-> [candidates[i] EXCEPT !.cluster_key = IF @ = "none" THEN candidates[i].name ELSE @]]
  /\ chain' = [chain EXCEPT ![c] = [Resting EXCEPT !.pc = "compare", !.todo = _plausible_pairs(NewKeys(Keys))]]
  /\ crossed' = (crossed \/ \E d \in Chains \ {c} : Compares(d))
  /\ UNCHANGED <<arrived, topics, evidence, judged, topicFaults>>

KeyOf(i) == candidates[i].cluster_key

(* A pair that came together meanwhile is not asked about.                 *)
SkipPair(c, p) ==
  /\ chain[c].pc = "compare" /\ p \in chain[c].todo
  /\ \A i, j \in p : KeyOf(i) = KeyOf(j)
  /\ chain' = [chain EXCEPT ![c].todo = @ \ {p}]
  /\ UNCHANGED <<arrived, topics, evidence, candidates, judged, crossed, topicFaults>>

(* "uncertain" and "false" keep two clusters apart for good: only a new    *)
(* key is compared.  A failed call does too.                               *)
_compare_clusters(c, p) ==
  /\ chain[c].pc = "compare" /\ p \in chain[c].todo
  /\ \E i, j \in p : KeyOf(i) # KeyOf(j)
  /\ \E answer \in {"merge", "apart", "failed"} :
       /\ answer = "failed" => topicFaults < MaxTopicFaults
       /\ topicFaults' = IF answer = "failed" THEN topicFaults + 1 ELSE topicFaults
       /\ judged' = judged \cup {[rows |-> p, answer |-> answer]}
       /\ chain' = [chain EXCEPT ![c].todo = @ \ {p}, ![c].pc = IF answer = "merge" THEN "merge" ELSE "compare",
                                 ![c].keys = IF answer = "merge" THEN <<KeyOf(Least(p)), KeyOf(CHOOSE i \in p : i # Least(p))>> ELSE @]
  /\ UNCHANGED <<arrived, topics, evidence, candidates, crossed>>

(* The older row's key wins: the rows of the other key, as they are now.   *)
_merge_clusters(c) ==
  /\ chain[c].pc = "merge"
  /\ candidates' = [i \in DOMAIN candidates |->
       [candidates[i] EXCEPT !.cluster_key = IF @ = chain[c].keys[2] THEN chain[c].keys[1] ELSE @]]
  /\ chain' = [chain EXCEPT ![c].pc = "compare", ![c].keys = Resting.keys]
  /\ UNCHANGED <<arrived, topics, evidence, judged, crossed, topicFaults>>

EndNormalization(c) ==
  /\ chain[c].pc = "compare" /\ chain[c].todo = {}
  /\ chain' = [chain EXCEPT ![c] = [Resting EXCEPT !.pc = "clusters"]]
  /\ UNCHANGED <<arrived, topics, evidence, candidates, judged, crossed, topicFaults>>

StartPromotion(c) ==
  /\ chain[c].pc = "clusters"
  /\ chain' = [chain EXCEPT ![c].pc = "promote", ![c].todo = Keys]
  /\ UNCHANGED <<arrived, topics, evidence, candidates, judged, crossed, topicFaults>>

SignalsOf(k) == {candidates[i].signal : i \in Cluster(k)}

(* By any signal of the cluster: clusters may have merged since.           *)
_already_promoted(found) ==
  \E i \in DOMAIN evidence : topics[evidence[i].topic].origin = "discovered" /\ evidence[i].signal \in found

evaluate_eligibility(found) == Cardinality({Entity[s] : s \in found}) >= MinEntities

(* A cluster whose key was merged away meanwhile has no row left.          *)
EvaluateCluster(c, k) ==
  /\ chain[c].pc = "promote" /\ k \in chain[c].todo
  /\ LET found == SignalsOf(k) IN
     IF evaluate_eligibility(found) /\ ~_already_promoted(found)
     THEN chain' = [chain EXCEPT ![c].todo = @ \ {k}, ![c].pc = "save", ![c].found = found, ![c].seen = Len(topics)]
     ELSE chain' = [chain EXCEPT ![c].todo = @ \ {k}]
  /\ UNCHANGED <<arrived, topics, evidence, candidates, judged, crossed, topicFaults>>

(* The topic and its evidence in one commit.  No later sweep adds to the   *)
(* evidence of a discovered topic.                                         *)
promote_cluster(c) ==
  /\ chain[c].pc = "save"
  /\ topics' = Append(topics, [origin |-> "discovered", seen |-> chain[c].seen])
  /\ evidence' = evidence \o SetToSeq([topic : {Len(topics')}, signal : chain[c].found, seen : {Len(evidence)}])
  /\ chain' = [chain EXCEPT ![c].pc = "promote", ![c].found = {}, ![c].seen = 0]
  /\ UNCHANGED <<arrived, candidates, judged, crossed, topicFaults>>

EndChain(c) ==
  /\ chain[c].pc = "promote" /\ chain[c].todo = {}
  /\ chain' = [chain EXCEPT ![c] = Resting]
  /\ UNCHANGED <<arrived, topics, evidence, candidates, judged, crossed, topicFaults>>

(* A restart, or a stage the caller abandoned.  Pairs that were still to   *)
(* be compared are counted as failed: their keys are new no more.          *)
DieTopics(c) ==
  /\ chain[c].pc # "off" /\ topicFaults < MaxTopicFaults
  /\ topicFaults' = topicFaults + 1
  /\ judged' = IF chain[c].pc \in {"compare", "merge"} THEN judged \cup [rows : chain[c].todo, answer : {"failed"}] ELSE judged
  /\ chain' = [chain EXCEPT ![c] = Resting]
  /\ UNCHANGED <<arrived, topics, evidence, candidates, crossed>>

TopicStep(c) ==
  \/ StartLinking(c) \/ _get_or_create_content_topic(c) \/ LinkRead(c) \/ LinkCommit(c)
  \/ ExtractNext(c) \/ extract_topic_candidate(c) \/ AssignKeys(c) \/ _merge_clusters(c) \/ EndNormalization(c)
  \/ \E p \in chain[c].todo : chain[c].pc = "compare" /\ (SkipPair(c, p) \/ _compare_clusters(c, p))
  \/ StartPromotion(c) \/ (\E k \in Keys : EvaluateCluster(c, k)) \/ promote_cluster(c) \/ EndChain(c)
  \/ DieTopics(c)

TopicNext == Sense \/ \E c \in Chains : TopicStep(c)

TopicSpec == TopicInit /\ [][TopicNext]_topicVars

-----------------------------------------------------------------------------
TopicTypeOK ==
  /\ arrived \in Nat /\ topics \in Seq(ContentTopic) /\ evidence \in Seq(Evidence) /\ candidates \in Seq(TopicCandidate)
  /\ \A i \in DOMAIN evidence : evidence[i].topic \in DOMAIN topics

(* No stage makes a row again: two rows of the configured topic, two       *)
(* candidates of a signal, two topics of one signal come only from chains  *)
(* of which the later had looked before the earlier wrote.                 *)
MadeOnce ==
  /\ \A i, j \in DOMAIN topics : (i < j /\ topics[i].origin = "configured" /\ topics[j].origin = "configured") => topics[j].seen < i
  /\ \A i, j \in DOMAIN topics :
       (i < j /\ topics[i].origin = "discovered" /\ topics[j].origin = "discovered" /\ Linked(i) \cap Linked(j) # {}) => topics[j].seen < i
  /\ \A i, j \in DOMAIN candidates : (i < j /\ candidates[i].signal = candidates[j].signal) => candidates[j].seen < i

(* The database keeps a pair of topic and signal single whatever the       *)
(* chains do, and a discovered topic rests on enough independent entities. *)
EvidenceSound ==
  /\ \A i, j \in DOMAIN evidence : (evidence[i].topic = evidence[j].topic /\ evidence[i].signal = evidence[j].signal) => i = j
  /\ \A t \in DOMAIN topics : topics[t].origin = "discovered" => Cardinality({Entity[s] : s \in Linked(t)}) >= MinEntities

(* Candidates share a cluster only through equal names and verdicts that   *)
(* merge: a wrong merge is a model's, never the sweep's.  A set of them    *)
(* that is closed under both shares no key with the rest.                  *)
Same(i, j) == candidates[i].name = candidates[j].name \/ [rows |-> {i, j}, answer |-> "merge"] \in judged
Closed(S) == \A i \in S, j \in DOMAIN candidates : Same(i, j) => j \in S
ClustersWereJudged ==
  \A S \in SUBSET DOMAIN candidates :
    Closed(S) => \A i \in S, j \in DOMAIN candidates \ S : KeyOf(i) = KeyOf(j) => KeyOf(i) = "none"

(* When no sweep is at it, clusters that share a word have been compared,  *)
(* or the call failed or the sweep died: nothing else loses a pair, while  *)
(* one sweep compares at a time.  Of two, one may move a cluster onto a    *)
(* key that the other has just merged away; what joins it later is no new  *)
(* key, and is compared with nothing.                                      *)
PairsWereJudged ==
  (~crossed /\ \A c \in Chains : ~Compares(c)) =>
    \A k, q \in Keys : (k # q /\ \E i \in Cluster(k), j \in Cluster(q) : {candidates[i].name, candidates[j].name} \in Alike) =>
      \E v \in judged : \E i \in Cluster(k), j \in Cluster(q) : {i, j} = v.rows

(* The rules of the topics.                                                *)
TopicRules == MadeOnce /\ EvidenceSound /\ ClustersWereJudged /\ PairsWereJudged
=============================================================================
