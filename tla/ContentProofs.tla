---------------------------- MODULE ContentProofs ----------------------------
(***************************************************************************)
(* Proofs about the content topics and what is written about them, for     *)
(* every number of chains, signals, names and desks.                       *)
(***************************************************************************)
EXTENDS Content, FiniteSetTheorems, WellFoundedInduction, TLAPS

-----------------------------------------------------------------------------
(* What is written.                                                        *)
DeskShape ==
  [pc : {"off", "sweep", "sweep_ask", "ask", "make_topic", "pick_topic", "draft", "store", "pillar"},
   todo : SUBSET TrendTopics, topic : Nat \X Nat, seen : Nat, idea : Nat,
   platform : Platforms \cup {"none"}, had : SUBSET Platforms]

DesksTyped == WritingTypeOK /\ desk \in [Desks -> DeskShape]

(* Who asks for an idea saw none that stands, and a rejection is final;    *)
(* who makes the row of a named topic saw none; who writes a draft has an  *)
(* approved idea, and an approval is final too.                            *)
Rightly(r) ==
  /\ r.pc \in {"ask", "sweep_ask"} =>
       /\ r.seen <= Len(ideas)
       /\ \A i \in 1..r.seen : ideas[i].topic = r.topic => ideas[i].status = "rejected"
  /\ r.pc = "make_topic" => r.seen = 0
  /\ r.pc \in {"draft", "store"} =>
       r.idea \in DOMAIN ideas /\ ideas[r.idea].status = "approved" /\ r.platform \in Platforms
DesksInv == \A d \in Desks : Rightly(desk[d])

(* Nobody had seen a row of the named topic who made one.                  *)
NamesInv == \A n \in DOMAIN named : named[n] = 0

WritingInv == DesksTyped /\ DesksInv /\ NamesInv /\ OneIdeaPerTopic /\ DraftsWereApproved /\ PillarWhole

(* What a row and a desk at rest look like.                                *)
LEMMA DeskFields ==
  ASSUME NEW r \in DeskShape
  PROVE  /\ r.todo \subseteq TrendTopics /\ r.topic \in Nat \X Nat /\ r.seen \in Nat /\ r.idea \in Nat
         /\ r.platform \in Platforms \cup {"none"} /\ r.had \subseteq Platforms
BY DEF DeskShape

(* A desk at rest.                                                         *)
LEMMA RestIsDesk == AtRest \in DeskShape /\ AtRest.pc = "off"
BY DEF AtRest, DeskShape

(* The fields of an idea.                                                  *)
LEMMA IdeaFields ==
  ASSUME WritingTypeOK, NEW i \in DOMAIN ideas
  PROVE  /\ ideas[i] \in ContentOpportunity /\ ideas[i].status \in Status /\ ideas[i].drafts \subseteq Platforms
         /\ ideas[i].seen \in Nat /\ i \in 1..Len(ideas) /\ Len(ideas) \in Nat /\ ideas[i].topic \in Nat \X Nat
<1>1. ideas \in Seq(ContentOpportunity)
  BY DEF WritingTypeOK
<1>2. DOMAIN ideas = 1..Len(ideas) /\ Len(ideas) \in Nat /\ ideas[i] \in ContentOpportunity
  BY <1>1
<1>3. \A r \in ContentOpportunity :
        r.status \in Status /\ r.drafts \subseteq Platforms /\ r.seen \in Nat /\ r.topic \in Nat \X Nat
  BY DEF ContentOpportunity
<1> QED
  BY <1>2, <1>3

(* It holds at the start.                                                  *)
LEMMA WritingStarts == WritingInit => WritingInv
<1> SUFFICES ASSUME WritingInit PROVE WritingInv
  OBVIOUS
<1>1. ideas \in Seq(ContentOpportunity) /\ named \in Seq(Nat) /\ \A n \in DOMAIN named : named[n] = 0
  <2>1. CASE part = "drafts"
    <3> DEFINE idea == [topic |-> <<Pipeline, 1>>, origin |-> "pipeline_signal", status |-> "candidate", drafts |-> {}, seen |-> 0]
    <3>1. idea \in ContentOpportunity
      BY DEF ContentOpportunity, Status, Pipeline
    <3>2. ideas = <<idea>> /\ named = <<0>>
      BY <2>1 DEF WritingInit
    <3> QED
      BY <3>1, <3>2
  <2>2. CASE part # "drafts"
    BY <2>2 DEF WritingInit
  <2> QED
    BY <2>1, <2>2
<1>2. Len(ideas) <= 1 /\ Len(ideas) \in Nat /\ \A i \in DOMAIN ideas : ideas[i].status = "candidate" /\ ideas[i].drafts = {}
  BY DEF WritingInit
<1>3. pillar \in ContentPillar /\ ~pillar.draft /\ pillar.status = "none" /\ pillar.clusters = <<>>
  BY DEF WritingInit, NoPillar, ContentPillar, Status
<1>4. desk \in [Desks -> DeskShape] /\ \A d \in Desks : desk[d].pc = "off"
  BY RestIsDesk DEF WritingInit
<1>5. posts = {}
  BY DEF WritingInit
<1>6. DesksTyped
  BY <1>1, <1>3, <1>4, <1>5 DEF DesksTyped, WritingTypeOK
<1>7. DesksInv /\ NamesInv
  BY <1>1, <1>4 DEF DesksInv, Rightly, NamesInv
<1>8. OneIdeaPerTopic
  BY <1>2 DEF OneIdeaPerTopic
<1>9. DraftsWereApproved /\ PillarWhole
  BY <1>2, <1>3, <1>5 DEF DraftsWereApproved, PillarWhole
<1> QED
  BY <1>6, <1>7, <1>8, <1>9 DEF WritingInv

(* A step of one desk that leaves all rows alone.                          *)
LEMMA DeskMoves ==
  ASSUME WritingInv, NEW d \in Desks, NEW r \in DeskShape, Rightly(r),
         desk[d].pc = "pillar" => (r.pc = "pillar" \/ Len(pillar.clusters) >= ClusterSize),
         desk' = [desk EXCEPT ![d] = r], UNCHANGED <<named, ideas, pillar, posts>>
  PROVE  WritingInv'
<1>1. DesksTyped'
  BY DEF WritingInv, DesksTyped, WritingTypeOK
<1>2. DesksInv'
  BY DEF WritingInv, DesksTyped, DesksInv, Rightly
<1>3. NamesInv' /\ OneIdeaPerTopic' /\ DraftsWereApproved'
  BY DEF WritingInv, NamesInv, OneIdeaPerTopic, DraftsWereApproved
<1>4. PillarWhole'
  <2> SUFFICES ASSUME pillar.status # "none", Len(pillar.clusters) < ClusterSize, ~pillar.cut
               PROVE  \E e \in Desks : desk'[e].pc = "pillar"
    BY DEF PillarWhole
  <2>1. PICK e \in Desks : desk[e].pc = "pillar"
    BY DEF WritingInv, PillarWhole
  <2>2. CASE e = d
    <3>1. ~(Len(pillar.clusters) >= ClusterSize)
      <4>1. Len(pillar.clusters) \in Nat
        BY DEF WritingInv, DesksTyped, WritingTypeOK, ContentPillar
      <4> QED
        BY <4>1, WritingAssumption
    <3>2. desk'[d].pc = "pillar"
      BY <2>1, <2>2, <3>1 DEF WritingInv, DesksTyped
    <3> QED
      BY <3>2
  <2>3. CASE e # d
    BY <2>1, <2>3 DEF WritingInv, DesksTyped
  <2> QED
    BY <2>2, <2>3
<1> QED
  BY <1>1, <1>2, <1>3, <1>4 DEF WritingInv

(* A desk that comes to rest, and one that looks for a topic with no idea  *)
(* that stands.                                                            *)
LEMMA RestIsRight == Rightly(AtRest) /\ AtRest \in DeskShape
BY RestIsDesk DEF Rightly

(* Who has just looked for ideas and found none that stands may ask.       *)
LEMMA LookIsRight ==
  ASSUME WritingInv, NEW r \in DeskShape, r.pc \in {"ask", "sweep_ask"}, Look(r.topic), r.seen = Len(ideas)
  PROVE  Rightly(r)
<1>1. Len(ideas) \in Nat /\ DOMAIN ideas = 1..Len(ideas)
  BY DEF WritingInv, DesksTyped, WritingTypeOK
<1>2. \A i \in DOMAIN ideas : ideas[i].topic = r.topic => ideas[i].status = "rejected"
  BY DEF Look, Open
<1> QED
  BY <1>1, <1>2 DEF Rightly

(* The sweep for ideas begins.                                             *)
LEMMA StartSweepKeeps == ASSUME WritingInv, NEW d \in Desks, StartSweep(d) PROVE WritingInv'
<1> DEFINE r == [AtRest EXCEPT !.pc = "sweep", !.todo = {t \in TrendTopics : t <= SweepLimit}]
<1>1. r \in DeskShape /\ r.pc = "sweep"
  BY DEF AtRest, DeskShape
<1>2. Rightly(r)
  BY <1>1 DEF Rightly
<1>3. desk' = [desk EXCEPT ![d] = r] /\ desk[d].pc = "off"
  BY DEF StartSweep
<1>4. UNCHANGED <<named, ideas, pillar, posts>>
  BY DEF StartSweep
<1> QED
  BY <1>1, <1>2, <1>3, <1>4, DeskMoves

(* It turns to a topic, and looks what ideas there are.                    *)
LEMMA SweepTopicKeeps == ASSUME WritingInv, NEW d \in Desks, NEW t \in TrendTopics, SweepTopic(d, t) PROVE WritingInv'
<1>1. desk[d] \in DeskShape /\ desk[d].pc = "sweep" /\ UNCHANGED <<named, ideas, pillar, posts>>
  BY DEF SweepTopic, WritingInv, DesksTyped
<1>2. CASE desk' = [desk EXCEPT ![d].todo = @ \ {t}]
  <2> DEFINE r == [desk[d] EXCEPT !.todo = @ \ {t}]
  <2>1. r \in DeskShape /\ r.pc = "sweep"
    BY <1>1 DEF DeskShape
  <2>2. Rightly(r)
    BY <2>1 DEF Rightly
  <2>3. desk' = [desk EXCEPT ![d] = r]
    BY <1>2
  <2> HIDE DEF r
  <2> QED
    BY <1>1, <2>1, <2>2, <2>3, DeskMoves
<1>3. CASE /\ Look(<<t, 1>>)
           /\ desk' = [desk EXCEPT ![d].todo = @ \ {t}, ![d].pc = "sweep_ask", ![d].topic = <<t, 1>>, ![d].seen = Len(ideas)]
  <2> DEFINE r == [desk[d] EXCEPT !.todo = @ \ {t}, !.pc = "sweep_ask", !.topic = <<t, 1>>, !.seen = Len(ideas)]
  <2>0. Len(ideas) \in Nat /\ t \in Nat
    BY WritingAssumption DEF WritingInv, DesksTyped, WritingTypeOK
  <2>1. r \in DeskShape /\ r.pc = "sweep_ask" /\ r.topic = <<t, 1>> /\ r.seen = Len(ideas)
    BY <1>1, <2>0 DEF DeskShape
  <2>3. desk' = [desk EXCEPT ![d] = r]
    BY <1>3
  <2> HIDE DEF r
  <2>2. Rightly(r)
    BY <2>1, <1>3, LookIsRight
  <2> QED
    BY <1>1, <2>1, <2>2, <2>3, DeskMoves
<1> QED
  BY <1>2, <1>3 DEF SweepTopic

(* It ends.                                                                *)
LEMMA EndSweepKeeps == ASSUME WritingInv, NEW d \in Desks, EndSweep(d) PROVE WritingInv'
<1>1. desk' = [desk EXCEPT ![d] = AtRest] /\ desk[d].pc = "sweep" /\ UNCHANGED <<named, ideas, pillar, posts>>
  BY DEF EndSweep
<1> QED
  BY <1>1, RestIsRight, DeskMoves

(* The chat asks for an idea on a topic.                                   *)
LEMMA ChatAsksKeeps ==
  ASSUME WritingInv, NEW d \in Desks, NEW t \in TrendTopics, generate_content_opportunity(d, t)
  PROVE  WritingInv'
<1> DEFINE r == [AtRest EXCEPT !.pc = "ask", !.topic = <<t, 1>>, !.seen = Len(ideas)]
<1>0. Len(ideas) \in Nat /\ t \in Nat
  BY WritingAssumption DEF WritingInv, DesksTyped, WritingTypeOK
<1>1. r \in DeskShape /\ r.pc = "ask" /\ r.topic = <<t, 1>> /\ r.seen = Len(ideas)
  BY <1>0 DEF AtRest, DeskShape
<1>3. desk' = [desk EXCEPT ![d] = r] /\ desk[d].pc = "off" /\ Look(<<t, 1>>) /\ UNCHANGED <<named, ideas, pillar, posts>>
  BY DEF generate_content_opportunity
<1> HIDE DEF r
<1>2. Rightly(r)
  BY <1>1, <1>3, LookIsRight
<1> QED
  BY <1>1, <1>2, <1>3, DeskMoves

(* The pipeline looks for its topic.                                       *)
LEMMA PipelineStartKeeps ==
  ASSUME WritingInv, NEW d \in Desks, NEW byRead \in BOOLEAN, StartPipelineIdea(d, byRead)
  PROVE  WritingInv'
<1> DEFINE r == [AtRest EXCEPT !.pc = IF named = <<>> THEN "make_topic" ELSE "pick_topic", !.seen = Len(named)]
<1>0. Len(named) \in Nat /\ (named = <<>> => Len(named) = 0)
  BY DEF WritingInv, DesksTyped, WritingTypeOK
<1>1. r \in DeskShape /\ r.pc \in {"make_topic", "pick_topic"} /\ (r.pc = "make_topic" => r.seen = 0)
  BY <1>0 DEF AtRest, DeskShape
<1>3. desk' = [desk EXCEPT ![d] = r] /\ desk[d].pc = "off" /\ UNCHANGED <<named, ideas, pillar, posts>>
  BY DEF StartPipelineIdea
<1> HIDE DEF r
<1>2. Rightly(r)
  BY <1>1 DEF Rightly
<1> QED
  BY <1>1, <1>2, <1>3, DeskMoves

(* The pipeline asks for an idea on it.                                    *)
LEMMA PipelineAsksKeeps == ASSUME WritingInv, NEW d \in Desks, generate_pipeline_signal_opportunity(d) PROVE WritingInv'
<1>0. Len(ideas) \in Nat /\ DOMAIN named \subseteq Nat
  BY DEF WritingInv, DesksTyped, WritingTypeOK
<1>1. PICK n \in DOMAIN named :
        desk' = [desk EXCEPT ![d] = IF Look(<<Pipeline, n>>) /\ Len(ideas) < MaxIdeas
                                    THEN [AtRest EXCEPT !.pc = "ask", !.topic = <<Pipeline, n>>, !.seen = Len(ideas)] ELSE AtRest]
  BY DEF generate_pipeline_signal_opportunity
<1>2. desk[d].pc = "pick_topic" /\ UNCHANGED <<named, ideas, pillar, posts>>
  BY DEF generate_pipeline_signal_opportunity
<1>3. CASE Look(<<Pipeline, n>>) /\ Len(ideas) < MaxIdeas
  <2> DEFINE r == [AtRest EXCEPT !.pc = "ask", !.topic = <<Pipeline, n>>, !.seen = Len(ideas)]
  <2>1. r \in DeskShape /\ r.pc = "ask" /\ r.topic = <<Pipeline, n>> /\ r.seen = Len(ideas)
    BY <1>0 DEF AtRest, DeskShape, Pipeline
  <2>3. desk' = [desk EXCEPT ![d] = r]
    BY <1>1, <1>3
  <2> HIDE DEF r
  <2>2. Rightly(r)
    BY <2>1, <1>3, LookIsRight
  <2> QED
    BY <1>2, <2>1, <2>2, <2>3, DeskMoves
<1>4. CASE ~(Look(<<Pipeline, n>>) /\ Len(ideas) < MaxIdeas)
  <2>1. desk' = [desk EXCEPT ![d] = AtRest]
    BY <1>1, <1>4
  <2> QED
    BY <1>2, <2>1, RestIsRight, DeskMoves
<1> QED
  BY <1>3, <1>4

(* A draft of an approved idea begins.                                     *)
LEMMA DraftStartKeeps ==
  ASSUME WritingInv, NEW d \in Desks, NEW i \in DOMAIN ideas, NEW p \in Platforms, generate_content_draft(d, i, p)
  PROVE  WritingInv'
<1> DEFINE r == [AtRest EXCEPT !.pc = "draft", !.idea = i, !.platform = p]
<1>0. i \in Nat
  BY DEF WritingInv, DesksTyped, WritingTypeOK
<1>1. r \in DeskShape /\ r.pc = "draft" /\ r.idea = i /\ r.platform = p
  BY <1>0 DEF AtRest, DeskShape
<1>3. /\ desk' = [desk EXCEPT ![d] = r] /\ desk[d].pc = "off" /\ ideas[i].status = "approved"
      /\ UNCHANGED <<named, ideas, pillar, posts>>
  BY DEF generate_content_draft
<1> HIDE DEF r
<1>2. Rightly(r)
  BY <1>1, <1>3 DEF Rightly
<1> QED
  BY <1>1, <1>2, <1>3, DeskMoves

(* The drafts there are already are read before the call.                  *)
LEMMA ReadDraftsKeeps == ASSUME WritingInv, NEW d \in Desks, ReadDrafts(d) PROVE WritingInv'
<1>1. /\ desk[d] \in DeskShape /\ desk[d].pc = "draft" /\ UNCHANGED <<named, ideas, pillar, posts>>
      /\ Rightly(desk[d])
  BY DEF ReadDrafts, WritingInv, DesksTyped, DesksInv
<1>2. CASE desk' = [desk EXCEPT ![d].pc = "store", ![d].had = ideas[desk[d].idea].drafts]
  <2> DEFINE r == [desk[d] EXCEPT !.pc = "store", !.had = ideas[desk[d].idea].drafts]
  <2>0. ideas[desk[d].idea].drafts \subseteq Platforms
    BY <1>1, IdeaFields DEF Rightly, WritingInv, DesksTyped
  <2>1. r \in DeskShape /\ r.pc = "store" /\ r.idea = desk[d].idea /\ r.platform = desk[d].platform
    BY <1>1, <2>0 DEF DeskShape
  <2>2. desk' = [desk EXCEPT ![d] = r]
    BY <1>2
  <2> HIDE DEF r
  <2>3. Rightly(r)
    BY <1>1, <2>1 DEF Rightly
  <2> QED
    BY <1>1, <2>1, <2>2, <2>3, DeskMoves
<1>3. CASE desk' = [desk EXCEPT ![d] = AtRest]
  BY <1>1, <1>3, RestIsRight, DeskMoves
<1> QED
  BY <1>2, <1>3 DEF ReadDrafts

(* A pillar is done.                                                       *)
LEMMA EndPillarKeeps == ASSUME WritingInv, NEW d \in Desks, EndPillar(d) PROVE WritingInv'
<1>1. /\ desk' = [desk EXCEPT ![d] = AtRest] /\ Len(pillar.clusters) >= ClusterSize
      /\ UNCHANGED <<named, ideas, pillar, posts>>
  BY WritingAssumption DEF EndPillar
<1> QED
  BY <1>1, RestIsRight, DeskMoves

(* A step that changes the pillar, its ideas and topics apart.             *)
LEMMA PillarMoves ==
  ASSUME WritingInv, NEW q \in ContentPillar, pillar' = q, UNCHANGED <<named, ideas, posts>>,
         desk' \in [Desks -> DeskShape], \A d \in Desks : desk'[d] = desk[d] \/ Rightly(desk'[d]),
         q.draft => q.status = "approved",
         \A k \in DOMAIN q.clusters : q.clusters[k].draft => q.clusters[k].status = "approved",
         (q.status # "none" /\ Len(q.clusters) < ClusterSize) => (q.cut \/ \E d \in Desks : desk'[d].pc = "pillar")
  PROVE  WritingInv'
<1>1. DesksTyped'
  BY DEF WritingInv, DesksTyped, WritingTypeOK
<1>2. DesksInv'
  BY DEF WritingInv, DesksTyped, DesksInv, Rightly
<1>3. NamesInv' /\ OneIdeaPerTopic'
  BY DEF WritingInv, NamesInv, OneIdeaPerTopic
<1>4. DraftsWereApproved'
  BY DEF WritingInv, DraftsWereApproved
<1>5. PillarWhole'
  BY DEF PillarWhole
<1> QED
  BY <1>1, <1>2, <1>3, <1>4, <1>5 DEF WritingInv

(* What a pillar's row is.                                                 *)
LEMMA PillarFields ==
  ASSUME WritingInv
  PROVE  /\ pillar \in ContentPillar /\ pillar.status \in Status \cup {"none"} /\ pillar.draft \in BOOLEAN /\ pillar.cut \in BOOLEAN
         /\ pillar.clusters \in Seq([status : Status, draft : BOOLEAN]) /\ Len(pillar.clusters) \in Nat
         /\ pillar.draft => pillar.status = "approved"
         /\ \A k \in DOMAIN pillar.clusters : pillar.clusters[k].draft => pillar.clusters[k].status = "approved"
         /\ (pillar.status # "none" /\ Len(pillar.clusters) < ClusterSize) => (pillar.cut \/ \E d \in Desks : desk[d].pc = "pillar")
         /\ desk \in [Desks -> DeskShape]
<1>1. pillar \in ContentPillar /\ desk \in [Desks -> DeskShape]
  BY DEF WritingInv, DesksTyped, WritingTypeOK
<1>2. /\ pillar.status \in Status \cup {"none"} /\ pillar.draft \in BOOLEAN /\ pillar.cut \in BOOLEAN
      /\ pillar.clusters \in Seq([status : Status, draft : BOOLEAN])
  BY <1>1 DEF ContentPillar
<1> QED
  BY <1>1, <1>2 DEF WritingInv, DraftsWereApproved, PillarWhole

(* A pillar is made, its clusters planned.                                 *)
LEMMA PillarMadeKeeps == ASSUME WritingInv, NEW d \in Desks, generate_content_pillar(d) PROVE WritingInv'
<1> DEFINE q == [NoPillar EXCEPT !.status = "candidate"]
<1> DEFINE r == [AtRest EXCEPT !.pc = "pillar"]
<1>1. q \in ContentPillar /\ ~q.draft /\ q.clusters = <<>>
  <2>1. NoPillar \in ContentPillar /\ ~NoPillar.draft /\ NoPillar.clusters = <<>>
    BY DEF NoPillar, ContentPillar
  <2>2. "candidate" \in Status \cup {"none"}
    BY DEF Status
  <2> QED
    BY <2>1, <2>2 DEF ContentPillar
<1>2. r \in DeskShape /\ r.pc = "pillar" /\ Rightly(r)
  BY DEF AtRest, DeskShape, Rightly
<1>3. pillar' = q /\ desk' = [desk EXCEPT ![d] = r] /\ UNCHANGED <<named, ideas, posts>>
  BY DEF generate_content_pillar
<1> HIDE DEF q, r
<1>4. desk' \in [Desks -> DeskShape] /\ (\A e \in Desks : desk'[e] = desk[e] \/ Rightly(desk'[e])) /\ desk'[d].pc = "pillar"
  BY <1>2, <1>3, PillarFields
<1> QED
  BY <1>1, <1>3, <1>4, PillarMoves

(* One cluster of it is written.                                           *)
LEMMA CommitClusterKeeps == ASSUME WritingInv, NEW d \in Desks, CommitCluster(d) PROVE WritingInv'
<1>1. desk[d].pc = "pillar" /\ UNCHANGED <<named, ideas, posts>>
  BY DEF CommitCluster
<1>2. CASE pillar' = [pillar EXCEPT !.clusters = Append(@, [status |-> "candidate", draft |-> FALSE])] /\ UNCHANGED desk
  <2> DEFINE q == [pillar EXCEPT !.clusters = Append(@, [status |-> "candidate", draft |-> FALSE])]
  <2>0. [status |-> "candidate", draft |-> FALSE] \in [status : Status, draft : BOOLEAN]
    BY DEF Status
  <2>1. q.clusters = Append(pillar.clusters, [status |-> "candidate", draft |-> FALSE]) /\ q \in ContentPillar
    <3>1. Append(pillar.clusters, [status |-> "candidate", draft |-> FALSE]) \in Seq([status : Status, draft : BOOLEAN])
      BY <2>0, PillarFields
    <3>2. pillar \in ContentPillar
      BY PillarFields
    <3> QED
      BY <3>1, <3>2 DEF ContentPillar
  <2>2. q.draft = pillar.draft /\ q.status = pillar.status
    BY PillarFields DEF ContentPillar
  <2>3. pillar' = q
    BY <1>2
  <2> HIDE DEF q
  <2>4. \A k \in DOMAIN q.clusters : q.clusters[k].draft => q.clusters[k].status = "approved"
    <3> SUFFICES ASSUME NEW k \in DOMAIN q.clusters, q.clusters[k].draft PROVE q.clusters[k].status = "approved"
      OBVIOUS
    <3>1. CASE k = Len(pillar.clusters) + 1
      BY <2>1, <3>1, PillarFields
    <3>2. CASE k # Len(pillar.clusters) + 1
      <4>1. k \in DOMAIN pillar.clusters /\ q.clusters[k] = pillar.clusters[k]
        BY <2>1, <3>2, PillarFields
      <4> QED
        BY <4>1, PillarFields
    <3> QED
      BY <3>1, <3>2
  <2> QED
    BY <1>1, <1>2, <2>1, <2>2, <2>3, <2>4, PillarFields, PillarMoves
<1>3. CASE pillar' = [pillar EXCEPT !.cut = TRUE] /\ desk' = [desk EXCEPT ![d] = AtRest]
  <2> DEFINE q == [pillar EXCEPT !.cut = TRUE]
  <2>1. q \in ContentPillar /\ q.cut /\ q.draft = pillar.draft /\ q.status = pillar.status /\ q.clusters = pillar.clusters
    BY PillarFields DEF ContentPillar
  <2>2. desk' \in [Desks -> DeskShape] /\ (\A e \in Desks : desk'[e] = desk[e] \/ Rightly(desk'[e]))
    BY <1>3, PillarFields, RestIsRight
  <2>3. pillar' = q
    BY <1>3
  <2> HIDE DEF q
  <2> QED
    BY <1>1, <2>1, <2>2, <2>3, PillarFields, PillarMoves
<1> QED
  BY <1>2, <1>3 DEF CommitCluster

(* An operator reviews the pillar.                                         *)
LEMMA ReviewPillarKeeps == ASSUME WritingInv, NEW s \in Status, review_content_pillar(s) PROVE WritingInv'
<1> DEFINE q == [pillar EXCEPT !.status = s]
<1>1. q \in ContentPillar /\ q.cut = pillar.cut /\ q.draft = pillar.draft /\ q.status = s /\ q.clusters = pillar.clusters
  BY PillarFields DEF ContentPillar
<1>2. pillar' = q /\ pillar.status = "candidate" /\ UNCHANGED <<named, ideas, posts, desk>>
  BY DEF review_content_pillar
<1> HIDE DEF q
<1>3. ~pillar.draft /\ pillar.status # "none"
  BY <1>2, PillarFields
<1> QED
  BY <1>1, <1>2, <1>3, PillarFields, PillarMoves

(* The pillar is drafted when it was approved.                             *)
LEMMA PillarDraftKeeps == ASSUME WritingInv, generate_pillar_draft PROVE WritingInv'
<1> DEFINE q == [pillar EXCEPT !.draft = TRUE]
<1>1. q \in ContentPillar /\ q.cut = pillar.cut /\ q.status = pillar.status /\ q.clusters = pillar.clusters
  BY PillarFields DEF ContentPillar
<1>2. pillar' = q /\ pillar.status = "approved" /\ UNCHANGED <<named, ideas, posts, desk>>
  BY DEF generate_pillar_draft
<1> HIDE DEF q
<1> QED
  BY <1>1, <1>2, PillarFields, PillarMoves

(* A piece's review and draft: one row of the pillar's pieces changes.     *)
LEMMA PieceMoves ==
  ASSUME WritingInv, NEW k \in DOMAIN pillar.clusters, NEW piece \in [status : Status, draft : BOOLEAN],
         piece.draft => piece.status = "approved",
         pillar' = [pillar EXCEPT !.clusters = [@ EXCEPT ![k] = piece]], UNCHANGED <<named, ideas, posts, desk>>
  PROVE  WritingInv'
<1> DEFINE cs == [pillar.clusters EXCEPT ![k] = piece]
<1> DEFINE q == [pillar EXCEPT !.clusters = cs]
<1>1. /\ cs \in Seq([status : Status, draft : BOOLEAN]) /\ Len(cs) = Len(pillar.clusters) /\ DOMAIN cs = DOMAIN pillar.clusters
      /\ \A l \in DOMAIN cs : cs[l] = IF l = k THEN piece ELSE pillar.clusters[l]
  BY PillarFields
<1> HIDE DEF cs
<1>2. q \in ContentPillar /\ q.cut = pillar.cut /\ q.status = pillar.status /\ q.draft = pillar.draft /\ q.clusters = cs
  BY <1>1, PillarFields DEF ContentPillar
<1>3. pillar' = q
  BY DEF cs
<1> HIDE DEF q
<1>4. \A l \in DOMAIN q.clusters : q.clusters[l].draft => q.clusters[l].status = "approved"
  BY <1>1, <1>2, PillarFields
<1> QED
  BY <1>1, <1>2, <1>3, <1>4, PillarFields, PillarMoves

(* A cluster of the pillar has a status, and a draft or none.              *)
LEMMA PieceFields ==
  ASSUME WritingInv, NEW k \in DOMAIN pillar.clusters
  PROVE  pillar.clusters[k] \in [status : Status, draft : BOOLEAN]
<1> DEFINE Piece == [status : Status, draft : BOOLEAN]
<1>1. pillar.clusters \in Seq(Piece)
  BY PillarFields
<1> HIDE DEF Piece
<1>2. pillar.clusters[k] \in Piece
  BY <1>1
<1> QED
  BY <1>2 DEF Piece

(* An operator reviews a cluster of the pillar.                            *)
LEMMA ReviewPieceKeeps ==
  ASSUME WritingInv, NEW k \in DOMAIN pillar.clusters, NEW s \in Status, review_content_cluster(k, s)
  PROVE  WritingInv'
<1> DEFINE piece == [pillar.clusters[k] EXCEPT !.status = s]
<1>1. pillar.clusters[k] \in [status : Status, draft : BOOLEAN] /\ pillar.clusters[k].status = "candidate"
  <2>1. pillar.clusters[k] \in [status : Status, draft : BOOLEAN]
    BY PieceFields
  <2> QED
    BY <2>1 DEF review_content_cluster
<1>2. piece \in [status : Status, draft : BOOLEAN] /\ piece.draft = pillar.clusters[k].draft
  BY <1>1
<1>3. ~pillar.clusters[k].draft
  BY <1>1, PillarFields
<1>4. pillar' = [pillar EXCEPT !.clusters = [@ EXCEPT ![k] = piece]] /\ UNCHANGED <<named, ideas, posts, desk>>
  BY DEF review_content_cluster
<1> HIDE DEF piece
<1> QED
  BY <1>2, <1>3, <1>4, PieceMoves

(* A cluster is drafted when it was approved.                              *)
LEMMA PieceDraftKeeps ==
  ASSUME WritingInv, NEW k \in DOMAIN pillar.clusters, generate_cluster_draft(k)
  PROVE  WritingInv'
<1> DEFINE piece == [pillar.clusters[k] EXCEPT !.draft = TRUE]
<1>1. pillar.clusters[k] \in [status : Status, draft : BOOLEAN] /\ pillar.clusters[k].status = "approved"
  <2>1. pillar.clusters[k] \in [status : Status, draft : BOOLEAN]
    BY PieceFields
  <2> QED
    BY <2>1 DEF generate_cluster_draft
<1>2. piece \in [status : Status, draft : BOOLEAN] /\ piece.status = "approved"
  BY <1>1
<1>4. pillar' = [pillar EXCEPT !.clusters = [@ EXCEPT ![k] = piece]] /\ UNCHANGED <<named, ideas, posts, desk>>
  BY DEF generate_cluster_draft
<1> HIDE DEF piece
<1> QED
  BY <1>2, <1>4, PieceMoves

(* A desk stops halfway.                                                   *)
LEMMA StopKeeps == ASSUME WritingInv, NEW d \in Desks, Stop(d) PROVE WritingInv'
<1>1. desk' = [desk EXCEPT ![d] = AtRest] /\ UNCHANGED <<named, ideas, posts>>
  BY DEF Stop
<1>2. CASE desk[d].pc = "pillar"
  <2> DEFINE q == [pillar EXCEPT !.cut = TRUE]
  <2>1. q \in ContentPillar /\ q.cut /\ q.draft = pillar.draft /\ q.status = pillar.status /\ q.clusters = pillar.clusters
    BY PillarFields DEF ContentPillar
  <2>2. desk' \in [Desks -> DeskShape] /\ (\A e \in Desks : desk'[e] = desk[e] \/ Rightly(desk'[e]))
    BY <1>1, PillarFields, RestIsRight
  <2>3. pillar' = q
    BY <1>2 DEF Stop
  <2> HIDE DEF q
  <2> QED
    BY <1>1, <2>1, <2>2, <2>3, PillarFields, PillarMoves
<1>3. CASE desk[d].pc # "pillar"
  <2>1. UNCHANGED <<named, ideas, pillar, posts>>
    BY <1>1, <1>3 DEF Stop
  <2> QED
    BY <1>1, <1>3, <2>1, RestIsRight, DeskMoves
<1> QED
  BY <1>2, <1>3

(* The row of the named topic is made.                                     *)
LEMMA TopicRowKeeps == ASSUME WritingInv, NEW d \in Desks, _get_or_create_pipeline_signal_topic(d) PROVE WritingInv'
<1> DEFINE r == [desk[d] EXCEPT !.pc = "pick_topic"]
<1>1. /\ desk[d] \in DeskShape /\ desk[d].seen = 0 /\ named \in Seq(Nat) /\ \A n \in DOMAIN named : named[n] = 0
  BY DEF WritingInv, DesksTyped, WritingTypeOK, DesksInv, Rightly, NamesInv, _get_or_create_pipeline_signal_topic
<1>2. r \in DeskShape /\ r.pc = "pick_topic"
  BY <1>1 DEF DeskShape
<1>3. named' = Append(named, 0) /\ desk' = [desk EXCEPT ![d] = r] /\ desk[d].pc = "make_topic" /\ UNCHANGED <<ideas, pillar, posts>>
  BY <1>1 DEF _get_or_create_pipeline_signal_topic
<1> HIDE DEF r
<1>4. named' \in Seq(Nat) /\ \A n \in DOMAIN named' : named'[n] = 0
  <2>1. named' \in Seq(Nat) /\ DOMAIN named' = 1..(Len(named) + 1) /\ Len(named) \in Nat
    BY <1>1, <1>3
  <2>2. \A n \in 1..Len(named) : named'[n] = named[n] /\ n \in DOMAIN named
    BY <1>1, <1>3
  <2>3. named'[Len(named) + 1] = 0
    BY <1>1, <1>3
  <2> QED
    BY <1>1, <2>1, <2>2, <2>3
<1>5. DesksTyped'
  BY <1>2, <1>3, <1>4 DEF WritingInv, DesksTyped, WritingTypeOK
<1>6. DesksInv'
  BY <1>2, <1>3 DEF WritingInv, DesksTyped, DesksInv, Rightly
<1>7. NamesInv'
  BY <1>4 DEF NamesInv
<1>8. OneIdeaPerTopic' /\ DraftsWereApproved'
  BY <1>3 DEF WritingInv, OneIdeaPerTopic, DraftsWereApproved
<1>9. PillarWhole'
  BY <1>2, <1>3 DEF WritingInv, DesksTyped, PillarWhole
<1> QED
  BY <1>5, <1>6, <1>7, <1>8, <1>9 DEF WritingInv

(* One idea more, of a topic of which its maker saw no idea that stands.   *)
LEMMA IdeaMade ==
  ASSUME WritingInv, NEW d \in Desks, desk[d].pc \in {"ask", "sweep_ask"}, NEW o \in {"trend", "pipeline_signal"},
         ideas' = Append(ideas, [topic |-> desk[d].topic, status |-> "candidate", drafts |-> {}, seen |-> desk[d].seen, origin |-> o]),
         NEW r \in DeskShape, r.pc \in {"off", "sweep"}, desk' = [desk EXCEPT ![d] = r], UNCHANGED <<named, pillar, posts>>
  PROVE  WritingInv'
<1> DEFINE idea == [topic |-> desk[d].topic, status |-> "candidate", drafts |-> {}, seen |-> desk[d].seen, origin |-> o]
<1>1. desk[d] \in DeskShape /\ ideas \in Seq(ContentOpportunity) /\ Len(ideas) \in Nat /\ DOMAIN ideas = 1..Len(ideas)
  BY DEF WritingInv, DesksTyped, WritingTypeOK
<1>2. idea \in ContentOpportunity
  BY <1>1 DEF DeskShape, ContentOpportunity, Status
<1>3. /\ idea.topic = desk[d].topic /\ idea.seen = desk[d].seen /\ idea.drafts = {}
      /\ desk[d].seen \in Nat /\ desk[d].seen <= Len(ideas)
      /\ \A i \in 1..desk[d].seen : ideas[i].topic = desk[d].topic => ideas[i].status = "rejected"
  BY <1>1 DEF WritingInv, DesksInv, Rightly, DeskShape
<1>4. ideas' = Append(ideas, idea)
  OBVIOUS
<1> HIDE DEF idea
<1>5. /\ ideas' \in Seq(ContentOpportunity) /\ Len(ideas') = Len(ideas) + 1 /\ DOMAIN ideas' = 1..(Len(ideas) + 1)
      /\ \A i \in DOMAIN ideas : ideas'[i] = ideas[i]
      /\ ideas'[Len(ideas) + 1] = idea
  BY <1>1, <1>2, <1>4
<1>6. DesksTyped'
  BY <1>1, <1>5 DEF WritingInv, DesksTyped, WritingTypeOK
<1>7. DesksInv'
  <2> SUFFICES ASSUME NEW e \in Desks PROVE Rightly(desk[e])'
    BY DEF DesksInv
  <2>1. CASE e = d
    <3>1. desk'[e] = r
      BY <2>1 DEF WritingInv, DesksTyped
    <3> QED
      BY <3>1 DEF Rightly
  <2>2. CASE e # d
    <3>1. desk'[e] = desk[e] /\ Rightly(desk[e]) /\ desk[e].seen \in Nat
      BY <2>2 DEF WritingInv, DesksTyped, DesksInv, DeskShape
    <3>2. desk[e].seen <= Len(ideas) => (desk[e].seen <= Len(ideas') /\ \A i \in 1..desk[e].seen : i \in DOMAIN ideas)
      BY <1>1, <1>5, <3>1
    <3>3. \A i \in DOMAIN ideas : i \in DOMAIN ideas'
      BY <1>1, <1>5
    <3> QED
      BY <1>5, <3>1, <3>2, <3>3 DEF Rightly
  <2> QED
    BY <2>1, <2>2
<1>8. NamesInv'
  BY DEF WritingInv, NamesInv
<1>9. OneIdeaPerTopic'
  <2> SUFFICES ASSUME NEW i \in DOMAIN ideas', NEW j \in DOMAIN ideas', i < j, ideas'[i].topic = ideas'[j].topic,
                      ideas'[i].status # "rejected", ideas'[j].status # "rejected"
               PROVE  ideas'[j].seen < i
    BY DEF OneIdeaPerTopic
  <2>1. i \in DOMAIN ideas /\ ideas'[i] = ideas[i] /\ i \in Nat
    BY <1>1, <1>5
  <2>2. CASE j \in DOMAIN ideas
    BY <1>5, <2>1, <2>2 DEF WritingInv, OneIdeaPerTopic
  <2>3. CASE j \notin DOMAIN ideas
    <3>1. ideas'[j] = idea
      BY <1>1, <1>5, <2>3
    <3>2. i \notin 1..desk[d].seen
      BY <1>3, <2>1, <3>1
    <3> QED
      BY <1>1, <1>3, <2>1, <3>1, <3>2
  <2> QED
    BY <2>2, <2>3
<1>10. DraftsWereApproved'
  <2>1. ASSUME NEW i \in DOMAIN ideas', ideas'[i].drafts # {} \/ i \in posts' PROVE ideas'[i].status = "approved"
    <3>1. posts \subseteq DOMAIN ideas
      BY DEF WritingInv, DesksTyped, WritingTypeOK
    <3>2. Len(ideas) + 1 \notin DOMAIN ideas
      BY <1>1
    <3>3. i \in DOMAIN ideas
      BY <1>1, <1>3, <1>5, <2>1, <3>1, <3>2
    <3> QED
      BY <1>5, <2>1, <3>3 DEF WritingInv, DraftsWereApproved
  <2> QED
    BY <2>1 DEF WritingInv, DraftsWereApproved
<1>11. PillarWhole'
  BY DEF WritingInv, DesksTyped, PillarWhole
<1> QED
  BY <1>6, <1>7, <1>8, <1>9, <1>10, <1>11 DEF WritingInv

(* An idea is written by who asked for it.                                 *)
LEMMA InsertIdeaKeeps == ASSUME WritingInv, NEW d \in Desks, InsertIdea(d) PROVE WritingInv'
<1> DEFINE r == IF desk[d].pc = "ask" THEN AtRest ELSE [AtRest EXCEPT !.pc = "sweep", !.todo = desk[d].todo]
<1>1. desk[d] \in DeskShape /\ desk[d].pc \in {"ask", "sweep_ask"} /\ desk' = [desk EXCEPT ![d] = r] /\ UNCHANGED <<named, pillar, posts>>
  BY DEF InsertIdea, WritingInv, DesksTyped
<1>2. r \in DeskShape /\ r.pc \in {"off", "sweep"}
  BY <1>1, DeskFields DEF AtRest, DeskShape
<1> HIDE DEF r
<1>3. CASE UNCHANGED ideas
  <2>1. Rightly(r)
    BY <1>2 DEF Rightly
  <2> QED
    BY <1>1, <1>2, <1>3, <2>1, DeskMoves
<1>4. CASE ideas' = Append(ideas, [topic |-> desk[d].topic, status |-> "candidate", drafts |-> {}, seen |-> desk[d].seen,
                                   origin |-> IF desk[d].topic[1] = Pipeline THEN "pipeline_signal" ELSE "trend"])
  <2> DEFINE o == IF desk[d].topic[1] = Pipeline THEN "pipeline_signal" ELSE "trend"
  <2>1. o \in {"trend", "pipeline_signal"}
    OBVIOUS
  <2>2. ideas' = Append(ideas, [topic |-> desk[d].topic, status |-> "candidate", drafts |-> {}, seen |-> desk[d].seen, origin |-> o])
    BY <1>4
  <2> HIDE DEF o
  <2> QED
    BY <1>1, <1>2, <2>1, <2>2, IdeaMade
<1> QED
  BY <1>3, <1>4 DEF InsertIdea

(* One idea is reviewed, or gets a draft.                                  *)
LEMMA IdeaMoves ==
  ASSUME WritingInv, NEW i \in DOMAIN ideas, NEW row \in ContentOpportunity, ideas' = [ideas EXCEPT ![i] = row],
         row.topic = ideas[i].topic, row.seen = ideas[i].seen,
         ideas[i].status \in {"approved", "rejected"} => row.status = ideas[i].status,
         row.drafts # {} => row.status = "approved",
         desk' \in [Desks -> DeskShape],
         \A e \in Desks : desk'[e] = desk[e] \/ (desk'[e].pc = "off" /\ desk[e].pc # "pillar"),
         UNCHANGED <<named, pillar, posts>>
  PROVE  WritingInv'
<1>1. /\ ideas \in Seq(ContentOpportunity) /\ Len(ideas) \in Nat /\ DOMAIN ideas = 1..Len(ideas)
      /\ desk \in [Desks -> DeskShape] /\ desk' \in [Desks -> DeskShape]
  BY DEF WritingInv, DesksTyped, WritingTypeOK
<1>2. /\ ideas' \in Seq(ContentOpportunity) /\ Len(ideas') = Len(ideas) /\ DOMAIN ideas' = DOMAIN ideas
      /\ \A j \in DOMAIN ideas : ideas'[j] = IF j = i THEN row ELSE ideas[j]
  BY <1>1
<1>3. /\ \A j \in DOMAIN ideas : ideas'[j].topic = ideas[j].topic /\ ideas'[j].seen = ideas[j].seen
      /\ \A j \in DOMAIN ideas : ideas[j].status \in {"approved", "rejected"} => ideas'[j].status = ideas[j].status
  BY <1>2
<1>5. DesksTyped'
  BY <1>1, <1>2 DEF WritingInv, DesksTyped, WritingTypeOK
<1>6. DesksInv'
  <2> SUFFICES ASSUME NEW e \in Desks PROVE Rightly(desk[e])'
    BY DEF DesksInv
  <2>1. CASE desk'[e] = desk[e]
    <3>1. Rightly(desk[e]) /\ desk[e].seen \in Nat
      BY <1>1 DEF WritingInv, DesksInv, DeskShape
    <3>2. desk[e].seen <= Len(ideas) => \A j \in 1..desk[e].seen : j \in DOMAIN ideas
      BY <1>1, <3>1
    <3> QED
      BY <1>2, <1>3, <2>1, <3>1, <3>2 DEF Rightly
  <2>2. CASE desk'[e].pc = "off"
    BY <2>2 DEF Rightly
  <2> QED
    BY <2>1, <2>2
<1>7. NamesInv'
  BY DEF WritingInv, NamesInv
<1>8. OneIdeaPerTopic'
  <2>1. \A j \in DOMAIN ideas : ideas'[j].status # "rejected" => ideas[j].status # "rejected"
    BY <1>3
  <2> QED
    BY <1>2, <1>3, <2>1 DEF WritingInv, OneIdeaPerTopic
<1>9. DraftsWereApproved'
  <2>1. \A j \in DOMAIN ideas : (ideas'[j].drafts # {} \/ j \in posts) => ideas'[j].status = "approved"
    BY <1>2, <1>3 DEF WritingInv, DraftsWereApproved
  <2> QED
    BY <1>2, <2>1 DEF WritingInv, DraftsWereApproved
<1>10. PillarWhole'
  BY <1>1 DEF WritingInv, PillarWhole
<1> QED
  BY <1>5, <1>6, <1>7, <1>8, <1>9, <1>10 DEF WritingInv

(* An operator reviews an idea.                                            *)
LEMMA ReviewKeeps == ASSUME WritingInv, NEW i \in DOMAIN ideas, NEW s \in Status, ReviewIdea(i, s) PROVE WritingInv'
<1> DEFINE row == [ideas[i] EXCEPT !.status = s]
<1>1. ideas[i] \in ContentOpportunity /\ ideas[i].status = "candidate" /\ UNCHANGED <<named, desk, pillar, posts>>
  BY IdeaFields DEF ReviewIdea, _review, WritingInv, DesksTyped
<1>2. /\ row \in ContentOpportunity /\ row.topic = ideas[i].topic /\ row.seen = ideas[i].seen /\ row.drafts = ideas[i].drafts
  BY <1>1 DEF ContentOpportunity
<1>3. ideas' = [ideas EXCEPT ![i] = row]
  BY DEF ReviewIdea
<1>4. ideas[i].drafts = {}
  BY <1>1 DEF WritingInv, DraftsWereApproved
<1> HIDE DEF row
<1> QED
  BY <1>1, <1>2, <1>3, <1>4, IdeaMoves DEF WritingInv, DesksTyped

(* A draft is stored.                                                      *)
LEMMA StoreDraftKeeps == ASSUME WritingInv, NEW d \in Desks, StoreDraft(d) PROVE WritingInv'
<1> DEFINE i == desk[d].idea
<1> DEFINE row == [ideas[i] EXCEPT !.drafts = Merged(d)]
<1>1. /\ desk[d] \in DeskShape /\ desk[d].pc = "store" /\ i \in DOMAIN ideas /\ ideas[i].status = "approved"
      /\ desk[d].platform \in Platforms /\ UNCHANGED <<named, pillar, posts>>
  BY DEF StoreDraft, WritingInv, DesksTyped, DesksInv, Rightly
<1>2. ideas[i] \in ContentOpportunity /\ Merged(d) \subseteq Platforms
  BY <1>1, IdeaFields, DeskFields DEF WritingInv, DesksTyped, Merged
<1>3. row \in ContentOpportunity /\ row.topic = ideas[i].topic /\ row.seen = ideas[i].seen /\ row.status = ideas[i].status
  BY <1>2 DEF ContentOpportunity
<1>4. ideas' = [ideas EXCEPT ![i] = row] /\ desk' = [desk EXCEPT ![d] = AtRest]
  BY DEF StoreDraft
<1>5. desk' \in [Desks -> DeskShape] /\ \A e \in Desks : desk'[e] = desk[e] \/ (desk'[e].pc = "off" /\ desk[e].pc # "pillar")
  BY <1>1, <1>4, RestIsDesk DEF WritingInv, DesksTyped
<1>6. row.drafts # {} => row.status = "approved"
  BY <1>1, <1>3
<1> HIDE DEF row, i
<1> QED
  BY <1>1, <1>3, <1>4, <1>5, <1>6, IdeaMoves

(* A draft is posted.                                                      *)
LEMMA PostKeeps == ASSUME WritingInv, NEW i \in DOMAIN ideas, publish_blog_to_wordpress(i) PROVE WritingInv'
<1>1. ideas[i].status = "approved" /\ posts' = posts \cup {i} /\ UNCHANGED <<named, ideas, pillar, desk>>
  BY DEF publish_blog_to_wordpress, WritingInv, DraftsWereApproved
<1>2. DesksTyped'
  BY <1>1 DEF WritingInv, DesksTyped, WritingTypeOK
<1>3. DesksInv' /\ NamesInv' /\ OneIdeaPerTopic' /\ PillarWhole'
  BY <1>1 DEF WritingInv, DesksInv, Rightly, NamesInv, OneIdeaPerTopic, PillarWhole
<1>4. DraftsWereApproved'
  BY <1>1 DEF WritingInv, DraftsWereApproved
<1> QED
  BY <1>2, <1>3, <1>4 DEF WritingInv

(* Nothing is written while the topics move.                               *)
LEMMA WritingRests == WritingInv /\ UNCHANGED writingVars => WritingInv'
<1> SUFFICES ASSUME WritingInv, UNCHANGED writingVars PROVE WritingInv'
  OBVIOUS
<1>1. UNCHANGED <<named, ideas, pillar, desk, posts>>
  BY DEF writingVars
<1>2. DesksTyped' /\ DesksInv' /\ NamesInv'
  BY <1>1 DEF WritingInv, DesksTyped, WritingTypeOK, DesksInv, Rightly, NamesInv
<1>3. OneIdeaPerTopic' /\ DraftsWereApproved' /\ PillarWhole'
  BY <1>1 DEF WritingInv, OneIdeaPerTopic, DraftsWereApproved, PillarWhole
<1> QED
  BY <1>2, <1>3 DEF WritingInv

(* Every step keeps it.                                                    *)
LEMMA WritingKeeps == WritingInv /\ [WritingNext]_writingVars => WritingInv'
<1> SUFFICES ASSUME WritingInv, WritingNext PROVE WritingInv'
  BY WritingRests
<1>1. CASE IdeaStep
  <2> SUFFICES ASSUME NEW d \in Desks,
                      \/ StartSweep(d) \/ (\E t \in TrendTopics : SweepTopic(d, t) \/ generate_content_opportunity(d, t)) \/ EndSweep(d)
                      \/ (\E byRead \in BOOLEAN : StartPipelineIdea(d, byRead)) \/ _get_or_create_pipeline_signal_topic(d)
                      \/ generate_pipeline_signal_opportunity(d) \/ InsertIdea(d)
               PROVE  WritingInv'
    BY <1>1 DEF IdeaStep
  <2>1. CASE \E t \in TrendTopics : SweepTopic(d, t) \/ generate_content_opportunity(d, t)
    BY <2>1, SweepTopicKeeps, ChatAsksKeeps
  <2>2. CASE \E byRead \in BOOLEAN : StartPipelineIdea(d, byRead)
    BY <2>2, PipelineStartKeeps
  <2>3. CASE StartSweep(d) \/ EndSweep(d)
    BY <2>3, StartSweepKeeps, EndSweepKeeps
  <2>4. CASE _get_or_create_pipeline_signal_topic(d) \/ generate_pipeline_signal_opportunity(d) \/ InsertIdea(d)
    BY <2>4, TopicRowKeeps, PipelineAsksKeeps, InsertIdeaKeeps
  <2> QED
    BY <2>1, <2>2, <2>3, <2>4
<1>2. CASE DraftsStep
  <2> SUFFICES ASSUME NEW i \in DOMAIN ideas,
                      \/ publish_blog_to_wordpress(i)
                      \/ \E d \in Desks : (\E p \in Platforms : generate_content_draft(d, i, p)) \/ ReadDrafts(d) \/ StoreDraft(d)
               PROVE  WritingInv'
    BY <1>2 DEF DraftsStep
  <2> QED
    BY PostKeeps, DraftStartKeeps, ReadDraftsKeeps, StoreDraftKeeps
<1>3. CASE PillarStep
  <2>1. CASE \E d \in Desks : generate_content_pillar(d) \/ CommitCluster(d) \/ EndPillar(d)
    BY <2>1, PillarMadeKeeps, CommitClusterKeeps, EndPillarKeeps
  <2>2. CASE \E s \in Status : review_content_pillar(s) \/ \E k \in DOMAIN pillar.clusters : review_content_cluster(k, s)
    BY <2>2, ReviewPillarKeeps, ReviewPieceKeeps
  <2>3. CASE generate_pillar_draft \/ \E k \in DOMAIN pillar.clusters : generate_cluster_draft(k)
    BY <2>3, PillarDraftKeeps, PieceDraftKeeps
  <2> QED
    BY <1>3, <2>1, <2>2, <2>3 DEF PillarStep
<1>4. CASE ReviewStep \/ \E d \in Desks : Stop(d)
  BY <1>4, ReviewKeeps, StopKeeps DEF ReviewStep
<1> QED
  BY <1>1, <1>2, <1>3, <1>4 DEF WritingNext

(* What a step of the writers may do to an idea.                           *)
IdeaKept(i) ==
  /\ ideas'[i].status # ideas[i].status => ideas[i].status = "candidate"
  /\ \A p \in ideas[i].drafts \ ideas'[i].drafts :
       \E d \in Desks : desk[d].pc = "store" /\ desk[d].idea = i /\ p \notin desk[d].had

(* Each step does no more to an idea than that.                            *)
LEMMA IdeasAreKept ==
  ASSUME WritingInv, WritingNext, NEW i \in DOMAIN ideas
  PROVE  UNCHANGED ideas \/ IdeaKept(i)
<1>0. ideas \in Seq(ContentOpportunity) /\ Len(ideas) \in Nat /\ DOMAIN ideas = 1..Len(ideas)
  BY DEF WritingInv, DesksTyped, WritingTypeOK
<1>1. ASSUME NEW d \in Desks, InsertIdea(d) PROVE UNCHANGED ideas \/ IdeaKept(i)
  <2>1. ASSUME NEW x, ideas' = Append(ideas, x) PROVE IdeaKept(i)
    <3>1. ideas'[i] = ideas[i]
      BY <1>0, <2>1
    <3> QED
      BY <3>1 DEF IdeaKept
  <2> QED
    BY <1>1, <2>1 DEF InsertIdea
<1>2. ASSUME NEW j \in DOMAIN ideas, NEW s \in Status, ReviewIdea(j, s) PROVE IdeaKept(i)
  <2>1. ideas[j] \in ContentOpportunity /\ ideas[j].status = "candidate" /\ ideas' = [ideas EXCEPT ![j].status = s]
    BY <1>2, IdeaFields DEF ReviewIdea, _review, WritingInv, DesksTyped
  <2>2. ideas'[i].drafts = ideas[i].drafts
    BY <1>0, <2>1 DEF ContentOpportunity
  <2>3. i # j => ideas'[i] = ideas[i]
    BY <1>0, <2>1
  <2> QED
    BY <2>1, <2>2, <2>3 DEF IdeaKept
<1>3. ASSUME NEW d \in Desks, StoreDraft(d) PROVE IdeaKept(i)
  <2> DEFINE j == desk[d].idea
  <2>1. desk[d].pc = "store" /\ j \in DOMAIN ideas /\ ideas' = [ideas EXCEPT ![j].drafts = Merged(d)]
    BY <1>3 DEF StoreDraft, WritingInv, DesksInv, Rightly
  <2>2. ideas[j] \in ContentOpportunity
    BY <2>1, IdeaFields DEF WritingInv, DesksTyped
  <2>3. i # j => ideas'[i] = ideas[i]
    BY <1>0, <2>1
  <2>4. ideas'[j].status = ideas[j].status /\ ideas'[j].drafts = Merged(d)
    BY <1>0, <2>1, <2>2 DEF ContentOpportunity
  <2>5. desk[d].had \subseteq Merged(d)
    BY DEF Merged
  <2> QED
    BY <2>1, <2>3, <2>4, <2>5 DEF IdeaKept
<1>4. CASE IdeaStep
  <2>1. PICK d \in Desks :
          \/ StartSweep(d) \/ (\E t \in TrendTopics : SweepTopic(d, t) \/ generate_content_opportunity(d, t)) \/ EndSweep(d)
          \/ (\E byRead \in BOOLEAN : StartPipelineIdea(d, byRead)) \/ _get_or_create_pipeline_signal_topic(d)
          \/ generate_pipeline_signal_opportunity(d) \/ InsertIdea(d)
    BY <1>4 DEF IdeaStep
  <2>2. ~InsertIdea(d) => UNCHANGED ideas
    BY <2>1 DEF StartSweep, SweepTopic, generate_content_opportunity, EndSweep, StartPipelineIdea,
                _get_or_create_pipeline_signal_topic, generate_pipeline_signal_opportunity
  <2> QED
    BY <1>1, <2>2
<1>5. CASE DraftsStep
  <2>1. PICK j \in DOMAIN ideas :
          \/ publish_blog_to_wordpress(j)
          \/ \E d \in Desks : (\E p \in Platforms : generate_content_draft(d, j, p)) \/ ReadDrafts(d) \/ StoreDraft(d)
    BY <1>5 DEF DraftsStep
  <2>2. (~\E d \in Desks : StoreDraft(d)) => UNCHANGED ideas
    BY <2>1 DEF publish_blog_to_wordpress, generate_content_draft, ReadDrafts
  <2> QED
    BY <1>3, <2>2
<1>6. CASE PillarStep \/ \E d \in Desks : Stop(d)
  BY <1>6 DEF PillarStep, Stop, generate_content_pillar, CommitCluster, EndPillar, review_content_pillar, review_content_cluster,
              generate_pillar_draft, generate_cluster_draft
<1>7. CASE ReviewStep
  BY <1>2, <1>7 DEF ReviewStep
<1> QED
  BY <1>4, <1>5, <1>6, <1>7 DEF WritingNext

-----------------------------------------------------------------------------
(* The topics.                                                             *)
ChainShape ==
  [pc : {"off", "topic", "link", "link_commit", "extract", "name", "assign", "compare", "merge", "clusters", "promote", "save"},
   todo : SUBSET (Signals \cup Names \cup SUBSET Nat), at : Nat, seen : Nat,
   keys : (Names \cup {"none"}) \X (Names \cup {"none"}), found : SUBSET Signals]

TopicsTyped ==
  /\ TopicTypeOK /\ chain \in [Chains -> ChainShape] /\ crossed \in BOOLEAN
  /\ \A i \in DOMAIN candidates : candidates[i].signal \in Known

(* Who is about to make a row saw none of its kind among those of then.    *)
LooksRightly(r) ==
  /\ r.pc = "topic" => r.seen <= Len(topics) /\ \A i \in 1..r.seen : topics[i].origin # "configured"
  /\ r.pc \in {"link", "link_commit"} => r.at \in DOMAIN topics /\ topics[r.at].origin = "configured"
  /\ r.pc = "link_commit" => r.todo \subseteq Known
  /\ r.pc = "name" => r.at \in Known /\ r.seen <= Len(candidates) /\ \A i \in 1..r.seen : candidates[i].signal # r.at
  /\ r.pc = "save" =>
       /\ r.found \subseteq Known /\ evaluate_eligibility(r.found) /\ r.seen <= Len(topics)
       /\ \A i \in 1..r.seen : topics[i].origin = "discovered" => Linked(i) \cap r.found = {}

(* A pair to be compared is of two candidates that have their keys; the    *)
(* keys that are to be merged are those of candidates that belong          *)
(* together.                                                               *)
Keyed(i) == i \in DOMAIN candidates /\ KeyOf(i) # "none"
Named(S, k) == \E m \in S : candidates[m].name = k
PairsRightly(r) ==
  /\ r.pc \in {"compare", "merge"} => \A p \in r.todo : \E i, j \in DOMAIN candidates : i # j /\ p = {i, j} /\ Keyed(i) /\ Keyed(j)
  /\ r.pc = "merge" =>
       /\ r.keys[1] \in Names /\ r.keys[2] \in Names /\ Named(DOMAIN candidates, r.keys[2])
       /\ \A S \in SUBSET DOMAIN candidates : (Closed(S) /\ Named(S, r.keys[2])) => Named(S, r.keys[1])

ChainsInv == \A c \in Chains : LooksRightly(chain[c]) /\ PairsRightly(chain[c])

(* A cluster's key is the name of a candidate its rows belong with.        *)
KeyInv ==
  \A S \in SUBSET DOMAIN candidates : Closed(S) => \A i \in S : KeyOf(i) # "none" => Named(S, KeyOf(i))

(* While one sweep compares at a time, a cluster has a row of the name     *)
(* that is its key, the key that is to win is one, and what was not        *)
(* compared is still to be.                                                *)
SoloInv ==
  ~crossed =>
    /\ \A c, d \in Chains : Compares(c) /\ Compares(d) => c = d
    /\ \A i \in DOMAIN candidates : Keyed(i) => \E m \in DOMAIN candidates : KeyOf(m) = KeyOf(i) /\ candidates[m].name = KeyOf(i)
    /\ \A c \in Chains : chain[c].pc = "merge" => \E m \in DOMAIN candidates : KeyOf(m) = chain[c].keys[1]

Compared(a, b) ==
  (\E v \in judged : v.rows = {a, b}) \/ (\E c \in Chains : Compares(c) /\ {a, b} \in chain[c].todo)
PairsInv ==
  ~crossed =>
    \A i, j \in DOMAIN candidates :
      (Keyed(i) /\ Keyed(j) /\ KeyOf(i) # KeyOf(j) /\ {candidates[i].name, candidates[j].name} \in Alike) =>
        \E a, b \in DOMAIN candidates : KeyOf(a) = KeyOf(i) /\ KeyOf(b) = KeyOf(j) /\ Compared(a, b)

TopicsInv == TopicsTyped /\ ChainsInv /\ KeyInv /\ SoloInv /\ PairsInv /\ MadeOnce /\ EvidenceSound

(* What rows and chains are.                                               *)
LEMMA TopicRows ==
  ASSUME TopicTypeOK
  PROVE  /\ Len(topics) \in Nat /\ DOMAIN topics = 1..Len(topics)
         /\ Len(evidence) \in Nat /\ DOMAIN evidence = 1..Len(evidence)
         /\ Len(candidates) \in Nat /\ DOMAIN candidates = 1..Len(candidates)
         /\ \A i \in DOMAIN topics : topics[i] \in ContentTopic
         /\ \A i \in DOMAIN evidence : evidence[i] \in Evidence /\ evidence[i].topic \in DOMAIN topics
         /\ \A i \in DOMAIN candidates : candidates[i] \in TopicCandidate
         /\ arrived \in Nat
BY DEF TopicTypeOK

(* The fields of the rows.                                                 *)
LEMMA RowFields ==
  /\ \A r \in ContentTopic : r.origin \in {"configured", "discovered"} /\ r.seen \in Nat
  /\ \A r \in Evidence : r.topic \in Nat /\ r.signal \in Signals /\ r.seen \in Nat
  /\ \A r \in TopicCandidate : r.signal \in Signals /\ r.name \in Names /\ r.cluster_key \in Names \cup {"none"} /\ r.seen \in Nat
BY DEF ContentTopic, Evidence, TopicCandidate

(* The fields of a chain.                                                  *)
LEMMA ChainFields ==
  ASSUME NEW r \in ChainShape
  PROVE  /\ r.at \in Nat /\ r.seen \in Nat /\ r.found \subseteq Signals
         /\ r.todo \subseteq Signals \cup Names \cup SUBSET Nat
         /\ r.keys \in (Names \cup {"none"}) \X (Names \cup {"none"})
BY DEF ChainShape

(* A chain at rest claims nothing.                                         *)
LEMMA RestingIsChain ==
  /\ Resting \in ChainShape /\ Resting.pc = "off" /\ Resting.todo = {} /\ LooksRightly(Resting) /\ PairsRightly(Resting)
<1>1. Resting.pc = "off" /\ Resting.todo = {}
  BY DEF Resting
<1>2. Resting \in ChainShape
  BY DEF Resting, ChainShape
<1> QED
  BY <1>1, <1>2 DEF LooksRightly, PairsRightly

(* Signals are known from the oldest on; there are finitely many.          *)
LEMMA KnownIsFinite == ASSUME arrived \in Nat PROVE IsFiniteSet(Known) /\ Known \subseteq Signals
<1>1. Known \subseteq 1..arrived
  <2>1. Signals \subseteq Nat \ {0}
    BY TopicsAssumption
  <2>2. \A s \in Signals : s <= arrived => s \in 1..arrived
    BY <2>1
  <2> QED
    BY <2>2 DEF Known
<1>2. IsFiniteSet(1..arrived)
  BY FS_Interval
<1> QED
  BY <1>1, <1>2, FS_Subset DEF Known

(* The invariant holds at the start.                                       *)
LEMMA TopicsStart == TopicInit => TopicsInv
<1> SUFFICES ASSUME TopicInit PROVE TopicsInv
  OBVIOUS
<1>1. /\ arrived = Backlog /\ topics = <<>> /\ evidence = <<>> /\ candidates = <<>> /\ crossed = FALSE
      /\ \A c \in Chains : chain[c] = Resting
  BY DEF TopicInit
<1>2. DOMAIN topics = {} /\ DOMAIN evidence = {} /\ DOMAIN candidates = {}
  BY <1>1
<1>3. TopicsTyped
  <2>1. topics \in Seq(ContentTopic) /\ evidence \in Seq(Evidence) /\ candidates \in Seq(TopicCandidate)
    BY <1>1
  <2>2. chain \in [Chains -> ChainShape]
    BY RestingIsChain DEF TopicInit
  <2> QED
    BY <1>1, <1>2, <2>1, <2>2, TopicsAssumption DEF TopicsTyped, TopicTypeOK
<1>4. ChainsInv
  BY <1>1, RestingIsChain DEF ChainsInv
<1>5. KeyInv /\ MadeOnce /\ EvidenceSound
  BY <1>2 DEF KeyInv, MadeOnce, EvidenceSound
<1>6. SoloInv /\ PairsInv
  BY <1>1, <1>2, RestingIsChain DEF SoloInv, PairsInv, Compares
<1> QED
  BY <1>3, <1>4, <1>5, <1>6 DEF TopicsInv

-----------------------------------------------------------------------------
(* A step that leaves the candidates alone, their verdicts too, and begins *)
(* no comparison.                                                          *)
Settled(p) == (\E v \in judged : v.rows = p) \/ (\A i, j \in p : KeyOf(i) = KeyOf(j))

(* What is known of the clusters stays as it was.                          *)
LEMMA ClustersRest ==
  ASSUME TopicsInv, NEW c \in Chains, NEW r \in ChainShape, chain' = [chain EXCEPT ![c] = r],
         UNCHANGED <<candidates, judged, crossed>>,
         r.pc # "merge", r.pc = "compare" => Compares(c) /\ r.todo \subseteq chain[c].todo,
         Compares(c) => \A p \in chain[c].todo : (r.pc = "compare" /\ p \in r.todo) \/ Settled(p)
  PROVE  KeyInv' /\ SoloInv' /\ PairsInv' /\ \A d \in Chains : PairsRightly(chain[d])'
<1>0. chain \in [Chains -> ChainShape]
  BY DEF TopicsInv, TopicsTyped
<1>1. chain'[c] = r /\ \A d \in Chains \ {c} : chain'[d] = chain[d]
  BY <1>0
<1>2. KeyInv'
  BY DEF TopicsInv, KeyInv, Closed, Same, Named, KeyOf
<1>3. \A d \in Chains : Compares(d)' => Compares(d)
  BY <1>1 DEF Compares
<1>4. SoloInv'
  <2> SUFFICES ASSUME ~crossed
               PROVE  /\ \A d, e \in Chains : Compares(d)' /\ Compares(e)' => d = e
                      /\ \A i \in DOMAIN candidates : Keyed(i) => \E m \in DOMAIN candidates : KeyOf(m) = KeyOf(i) /\ candidates[m].name = KeyOf(i)
                      /\ \A d \in Chains : chain'[d].pc = "merge" => \E m \in DOMAIN candidates : KeyOf(m) = chain'[d].keys[1]
    BY DEF SoloInv, Keyed, KeyOf
  <2> QED
    BY <1>1, <1>3 DEF TopicsInv, SoloInv
<1>5. PairsInv'
  <2> SUFFICES ASSUME ~crossed, NEW i \in DOMAIN candidates, NEW j \in DOMAIN candidates, Keyed(i), Keyed(j), KeyOf(i) # KeyOf(j),
                      {candidates[i].name, candidates[j].name} \in Alike
               PROVE  \E a, b \in DOMAIN candidates : KeyOf(a) = KeyOf(i) /\ KeyOf(b) = KeyOf(j) /\ Compared(a, b)'
    BY DEF PairsInv, Keyed, KeyOf
  <2>1. PICK a \in DOMAIN candidates, b \in DOMAIN candidates : KeyOf(a) = KeyOf(i) /\ KeyOf(b) = KeyOf(j) /\ Compared(a, b)
    BY DEF TopicsInv, PairsInv
  <2>2. CASE \E v \in judged : v.rows = {a, b}
    BY <2>1, <2>2 DEF Compared
  <2>3. CASE \E d \in Chains : Compares(d) /\ {a, b} \in chain[d].todo
    <3>1. PICK d \in Chains : Compares(d) /\ {a, b} \in chain[d].todo
      BY <2>3
    <3>2. CASE d # c
      BY <1>1, <2>1, <3>1, <3>2 DEF Compared, Compares
    <3>3. CASE d = c
      <4>1. (r.pc = "compare" /\ {a, b} \in r.todo) \/ Settled({a, b})
        BY <3>1, <3>3
      <4>2. CASE r.pc = "compare" /\ {a, b} \in r.todo
        BY <1>1, <2>1, <4>2 DEF Compared, Compares
      <4>3. CASE Settled({a, b})
        <5>1. KeyOf(a) # KeyOf(b)
          BY <2>1
        <5> QED
          BY <2>1, <4>3, <5>1 DEF Settled, Compared
      <4> QED
        BY <4>1, <4>2, <4>3
    <3> QED
      BY <3>2, <3>3
  <2> QED
    BY <2>1, <2>2, <2>3 DEF Compared
<1>6. ASSUME NEW d \in Chains PROVE PairsRightly(chain[d])'
  <2>1. PairsRightly(chain[d]) /\ PairsRightly(chain[c])
    BY DEF TopicsInv, ChainsInv
  <2>2. CASE d # c
    BY <1>1, <2>1, <2>2 DEF PairsRightly, Keyed, KeyOf, Closed, Same, Named
  <2>3. CASE d = c
    <3>1. r.pc = "compare" => \A p \in r.todo : \E i, j \in DOMAIN candidates : i # j /\ p = {i, j} /\ Keyed(i) /\ Keyed(j)
      BY <2>1 DEF PairsRightly, Compares
    <3> QED
      BY <1>1, <2>3, <3>1 DEF PairsRightly, Keyed, KeyOf
  <2> QED
    BY <2>2, <2>3
<1> QED
  BY <1>2, <1>4, <1>5, <1>6

(* A step of one chain that leaves all rows alone.                         *)
LEMMA ChainMoves ==
  ASSUME TopicsInv, NEW c \in Chains, NEW r \in ChainShape, chain' = [chain EXCEPT ![c] = r],
         UNCHANGED <<arrived, topics, evidence, candidates, judged, crossed>>, LooksRightly(r),
         r.pc # "merge", r.pc = "compare" => Compares(c) /\ r.todo \subseteq chain[c].todo,
         Compares(c) => \A p \in chain[c].todo : (r.pc = "compare" /\ p \in r.todo) \/ Settled(p)
  PROVE  TopicsInv'
<1>0. chain \in [Chains -> ChainShape] /\ chain' \in [Chains -> ChainShape]
  BY DEF TopicsInv, TopicsTyped
<1>1. KeyInv' /\ SoloInv' /\ PairsInv' /\ \A d \in Chains : PairsRightly(chain[d])'
  BY ClustersRest
<1>2. TopicsTyped'
  BY <1>0 DEF TopicsInv, TopicsTyped, TopicTypeOK, Known
<1>3. MadeOnce' /\ EvidenceSound'
  <2>1. \A t : Linked(t)' = Linked(t)
    BY DEF Linked
  <2>2. MadeOnce'
    BY <2>1 DEF TopicsInv, MadeOnce
  <2>3. EvidenceSound'
    BY <2>1 DEF TopicsInv, EvidenceSound
  <2> QED
    BY <2>2, <2>3
<1>4. ASSUME NEW d \in Chains PROVE LooksRightly(chain[d])'
  <2>1. LooksRightly(chain'[d])
    BY <1>0 DEF TopicsInv, ChainsInv
  <2> QED
    BY <2>1 DEF LooksRightly, Known, evaluate_eligibility, Linked
<1> QED
  BY <1>1, <1>2, <1>3, <1>4 DEF TopicsInv, ChainsInv

(* The same of a chain that does not compare, as most steps are.           *)
LEMMA PlainMoves ==
  ASSUME TopicsInv, NEW c \in Chains, NEW r \in ChainShape, chain' = [chain EXCEPT ![c] = r],
         UNCHANGED <<arrived, topics, evidence, candidates, judged, crossed>>, LooksRightly(r),
         r.pc \notin {"merge", "compare"}, ~Compares(c)
  PROVE  TopicsInv'
BY ChainMoves

(* A chain looks for the configured topic.                                 *)
LEMMA StartLinkingKeeps == ASSUME TopicsInv, NEW c \in Chains, StartLinking(c) PROVE TopicsInv'
<1>1. ~Compares(c) /\ UNCHANGED <<arrived, topics, evidence, candidates, judged, crossed>>
  BY DEF StartLinking, Compares
<1>2. Len(topics) \in Nat /\ DOMAIN topics = 1..Len(topics)
  BY TopicRows DEF TopicsInv, TopicsTyped
<1>3. CASE /\ {i \in DOMAIN topics : topics[i].origin = "configured"} = {}
           /\ chain' = [chain EXCEPT ![c] = [Resting EXCEPT !.pc = "topic", !.seen = Len(topics)]]
  <2> DEFINE r == [Resting EXCEPT !.pc = "topic", !.seen = Len(topics)]
  <2>1. r \in ChainShape /\ r.pc = "topic" /\ r.seen = Len(topics)
    BY <1>2 DEF Resting, ChainShape
  <2>2. chain' = [chain EXCEPT ![c] = r]
    BY <1>3
  <2> HIDE DEF r
  <2>3. LooksRightly(r)
    BY <1>2, <1>3, <2>1 DEF LooksRightly
  <2> QED
    BY <1>1, <2>1, <2>2, <2>3, PlainMoves
<1>4. CASE \E i \in {j \in DOMAIN topics : topics[j].origin = "configured"} :
             chain' = [chain EXCEPT ![c] = [Resting EXCEPT !.pc = "link", !.at = i]]
  <2>0. PICK i \in DOMAIN topics : topics[i].origin = "configured" /\ chain' = [chain EXCEPT ![c] = [Resting EXCEPT !.pc = "link", !.at = i]]
    BY <1>4
  <2> DEFINE r == [Resting EXCEPT !.pc = "link", !.at = i]
  <2>1. r \in ChainShape /\ r.pc = "link" /\ r.at = i
    <3>1. i \in Nat
      BY <1>2
    <3> QED
      BY <3>1 DEF Resting, ChainShape
  <2>2. chain' = [chain EXCEPT ![c] = r]
    BY <2>0
  <2> HIDE DEF r
  <2>3. LooksRightly(r)
    BY <2>0, <2>1 DEF LooksRightly
  <2> QED
    BY <1>1, <2>1, <2>2, <2>3, PlainMoves
<1> QED
  BY <1>3, <1>4 DEF StartLinking

(* It reads which signals the topic has evidence of.                       *)
LEMMA LinkReadKeeps == ASSUME TopicsInv, NEW c \in Chains, LinkRead(c) PROVE TopicsInv'
<1> DEFINE T == {s \in Known \cap Matching : s <= LinkWindow} \ Linked(chain[c].at)
<1> DEFINE r == [chain[c] EXCEPT !.pc = "link_commit", !.seen = Len(evidence), !.todo = T]
<1>1. /\ chain[c] \in ChainShape /\ chain[c].pc = "link" /\ LooksRightly(chain[c]) /\ Len(evidence) \in Nat
      /\ UNCHANGED <<arrived, topics, evidence, candidates, judged, crossed>>
  BY TopicRows DEF LinkRead, TopicsInv, TopicsTyped, ChainsInv
<1>2. T \subseteq Known /\ Known \subseteq Signals
  BY DEF Known
<1>3. chain' = [chain EXCEPT ![c] = r]
  BY DEF LinkRead
<1> HIDE DEF T
<1>4. r \in ChainShape /\ r.pc = "link_commit" /\ r.todo = T /\ r.at = chain[c].at
  BY <1>1, <1>2 DEF ChainShape
<1> HIDE DEF r
<1>5. LooksRightly(r)
  BY <1>1, <1>2, <1>4 DEF LooksRightly
<1> QED
  BY <1>1, <1>3, <1>4, <1>5, PlainMoves DEF Compares

(* A chain that starts a stage anew, or comes to rest.                     *)
LEMMA StageIsRight ==
  ASSUME NEW p \in {"extract", "assign", "clusters", "off"}
  PROVE  /\ [Resting EXCEPT !.pc = p] \in ChainShape /\ [Resting EXCEPT !.pc = p].pc = p /\ [Resting EXCEPT !.pc = p].todo = {}
         /\ LooksRightly([Resting EXCEPT !.pc = p])
<1> DEFINE r == [Resting EXCEPT !.pc = p]
<1>1. r \in ChainShape /\ r.pc = p /\ r.todo = {}
  BY DEF Resting, ChainShape
<1> HIDE DEF r
<1>2. LooksRightly(r)
  BY <1>1 DEF LooksRightly
<1> QED
  BY <1>1, <1>2 DEF r

(* It turns to the next signal.                                            *)
LEMMA ExtractNextKeeps == ASSUME TopicsInv, NEW c \in Chains, ExtractNext(c) PROVE TopicsInv'
<1> DEFINE s == chain[c].at + 1
<1>1. /\ chain[c] \in ChainShape /\ chain[c].pc = "extract" /\ Len(candidates) \in Nat /\ DOMAIN candidates = 1..Len(candidates)
      /\ UNCHANGED <<arrived, topics, evidence, candidates, judged, crossed>> /\ ~Compares(c)
  BY TopicRows DEF ExtractNext, TopicsInv, TopicsTyped, Compares
<1>2. CASE s \notin Known
  <2>1. chain' = [chain EXCEPT ![c] = [Resting EXCEPT !.pc = "assign"]]
    BY <1>2 DEF ExtractNext
  <2> QED
    BY <1>1, <2>1, StageIsRight, PlainMoves
<1>3. CASE s \in Known
  <2> DEFINE p == IF is_candidate_worthy(s) THEN "name" ELSE "extract"
  <2> DEFINE r == [chain[c] EXCEPT !.at = s, !.seen = Len(candidates), !.pc = p]
  <2>1. chain' = [chain EXCEPT ![c] = r]
    BY <1>3 DEF ExtractNext
  <2>2. s \in Nat /\ p \in {"name", "extract"} /\ (p = "name" => \A i \in DOMAIN candidates : candidates[i].signal # s)
    BY <1>1, ChainFields DEF is_candidate_worthy
  <2> HIDE DEF p, s
  <2>3. r \in ChainShape /\ r.pc = p /\ r.at = s /\ r.seen = Len(candidates)
    BY <1>1, <2>2 DEF ChainShape
  <2> HIDE DEF r
  <2>4. LooksRightly(r)
    BY <1>1, <1>3, <2>2, <2>3 DEF LooksRightly
  <2> QED
    BY <1>1, <2>1, <2>2, <2>3, <2>4, PlainMoves
<1> QED
  BY <1>2, <1>3

(* A pair of one cluster is not compared.                                  *)
LEMMA SkipPairKeeps == ASSUME TopicsInv, NEW c \in Chains, NEW p, SkipPair(c, p) PROVE TopicsInv'
<1> DEFINE r == [chain[c] EXCEPT !.todo = @ \ {p}]
<1>1. /\ chain[c] \in ChainShape /\ chain[c].pc = "compare" /\ Settled(p) /\ Compares(c)
      /\ UNCHANGED <<arrived, topics, evidence, candidates, judged, crossed>> /\ chain' = [chain EXCEPT ![c] = r]
  BY DEF SkipPair, TopicsInv, TopicsTyped, Compares, Settled
<1>2. r \in ChainShape /\ r.pc = "compare" /\ r.todo = chain[c].todo \ {p}
  BY <1>1 DEF ChainShape
<1> HIDE DEF r
<1>3. LooksRightly(r)
  BY <1>2 DEF LooksRightly
<1> QED
  BY <1>1, <1>2, <1>3, ChainMoves

(* No pair is left.                                                        *)
LEMMA EndNormalizationKeeps == ASSUME TopicsInv, NEW c \in Chains, EndNormalization(c) PROVE TopicsInv'
<1>1. /\ chain[c].todo = {} /\ UNCHANGED <<arrived, topics, evidence, candidates, judged, crossed>>
      /\ chain' = [chain EXCEPT ![c] = [Resting EXCEPT !.pc = "clusters"]]
  BY DEF EndNormalization
<1> QED
  BY <1>1, StageIsRight, ChainMoves

(* The clusters are listed.                                                *)
LEMMA StartPromotionKeeps == ASSUME TopicsInv, NEW c \in Chains, StartPromotion(c) PROVE TopicsInv'
<1> DEFINE r == [chain[c] EXCEPT !.pc = "promote", !.todo = Keys]
<1>1. /\ chain[c] \in ChainShape /\ chain[c].pc = "clusters" /\ chain' = [chain EXCEPT ![c] = r]
      /\ UNCHANGED <<arrived, topics, evidence, candidates, judged, crossed>> /\ ~Compares(c)
  BY DEF StartPromotion, TopicsInv, TopicsTyped, Compares
<1>2. Keys \subseteq Names
  BY TopicRows, RowFields DEF Keys, TopicsInv, TopicsTyped
<1>3. r \in ChainShape /\ r.pc = "promote"
  BY <1>1, <1>2 DEF ChainShape
<1> HIDE DEF r
<1>4. LooksRightly(r)
  BY <1>3 DEF LooksRightly
<1> QED
  BY <1>1, <1>3, <1>4, PlainMoves

(* A cluster is weighed: the rows it looks at, it looks at once.           *)
LEMMA EvaluateKeeps == ASSUME TopicsInv, NEW c \in Chains, NEW k, EvaluateCluster(c, k) PROVE TopicsInv'
<1> DEFINE found == SignalsOf(k)
<1>1. /\ chain[c] \in ChainShape /\ chain[c].pc = "promote" /\ TopicTypeOK
      /\ UNCHANGED <<arrived, topics, evidence, candidates, judged, crossed>> /\ ~Compares(c)
      /\ Len(topics) \in Nat /\ DOMAIN topics = 1..Len(topics)
  BY TopicRows DEF EvaluateCluster, TopicsInv, TopicsTyped, Compares
<1>2. found \subseteq Known /\ Known \subseteq Signals
  BY DEF SignalsOf, Cluster, TopicsInv, TopicsTyped, Known
<1>3. CASE evaluate_eligibility(found) /\ ~_already_promoted(found)
  <2> DEFINE r == [chain[c] EXCEPT !.todo = @ \ {k}, !.pc = "save", !.found = found, !.seen = Len(topics)]
  <2>1. chain' = [chain EXCEPT ![c] = r]
    BY <1>3 DEF EvaluateCluster
  <2>2. \A t \in DOMAIN topics : topics[t].origin = "discovered" => Linked(t) \cap found = {}
    BY <1>3 DEF _already_promoted, Linked
  <2> HIDE DEF found
  <2>3. r \in ChainShape /\ r.pc = "save" /\ r.found = found /\ r.seen = Len(topics)
    BY <1>1, <1>2 DEF ChainShape
  <2> HIDE DEF r
  <2>4. LooksRightly(r)
    BY <1>1, <1>2, <1>3, <2>2, <2>3 DEF LooksRightly
  <2> QED
    BY <1>1, <2>1, <2>3, <2>4, PlainMoves
<1>4. CASE ~(evaluate_eligibility(found) /\ ~_already_promoted(found))
  <2> DEFINE r == [chain[c] EXCEPT !.todo = @ \ {k}]
  <2>1. chain' = [chain EXCEPT ![c] = r]
    BY <1>4 DEF EvaluateCluster
  <2>3. r \in ChainShape /\ r.pc = "promote"
    BY <1>1 DEF ChainShape
  <2> HIDE DEF r
  <2>4. LooksRightly(r)
    BY <2>3 DEF LooksRightly
  <2> QED
    BY <1>1, <2>1, <2>3, <2>4, PlainMoves
<1> QED
  BY <1>3, <1>4

(* A chain is done.                                                        *)
LEMMA EndChainKeeps == ASSUME TopicsInv, NEW c \in Chains, EndChain(c) PROVE TopicsInv'
<1>1. /\ ~Compares(c) /\ UNCHANGED <<arrived, topics, evidence, candidates, judged, crossed>> /\ chain' = [chain EXCEPT ![c] = Resting]
  BY DEF EndChain, Compares
<1> QED
  BY <1>1, RestingIsChain, PlainMoves

-----------------------------------------------------------------------------
(* Rows are added at the end.                                              *)
(* A finite set, listed: each member once.                                 *)
LEMMA SetListed ==
  ASSUME NEW S, IsFiniteSet(S)
  PROVE  /\ SetToSeq(S) \in [1..Cardinality(S) -> S] /\ Cardinality(S) \in Nat
         /\ \A i, j \in 1..Cardinality(S) : SetToSeq(S)[i] = SetToSeq(S)[j] => i = j
         /\ \A x \in S : \E i \in 1..Cardinality(S) : SetToSeq(S)[i] = x
<1> DEFINE n == Cardinality(S)
<1> DEFINE f == SetToSeq(S)
<1>1. n \in Nat /\ ExistsBijection(1..n, S)
  BY FS_CardinalityType
<1>2. \E g \in [1..n -> S] : IsInjective(g)
  BY <1>1 DEF ExistsBijection, Bijection, Injection
<1>3. f \in [1..n -> S] /\ IsInjective(f)
  BY <1>2 DEF SetToSeq
<1>4. IsFiniteSet(1..n) /\ Cardinality(1..n) = n
  BY <1>1, FS_Interval
<1> HIDE DEF n, f
<1>5. f \in Injection(1..n, S)
  BY <1>3 DEF Injection
<1>6. f \in Surjection(1..n, S)
  BY <1>4, <1>5, FS_Injection DEF n
<1> QED
  BY <1>1, <1>3, <1>6 DEF n, f, IsInjective, Surjection

(* Seen as a sequence, and behind another.                                 *)
Behind(e, f, S) ==
  /\ Len(e) \in Nat /\ Len(f) \in Nat /\ Len(e) <= Len(f)
  /\ \A i \in 1..Len(e) : f[i] = e[i]
  /\ \A i \in 1..Len(f) : i > Len(e) => f[i] \in S
  /\ \A i, j \in 1..Len(f) : (i > Len(e) /\ j > Len(e) /\ f[i] = f[j]) => i = j
  /\ \A x \in S : \E i \in 1..Len(f) : i > Len(e) /\ f[i] = x

(* The members of a finite set, listed behind a sequence.                  *)
LEMMA Appended ==
  ASSUME NEW R, NEW e \in Seq(R), NEW S \in SUBSET R, IsFiniteSet(S), NEW f, f = e \o SetToSeq(S)
  PROVE  f \in Seq(R) /\ Behind(e, f, S)
<1> DEFINE s == SetToSeq(S)
<1> DEFINE n == Cardinality(S)
<1>1. /\ s \in [1..n -> S] /\ n \in Nat
      /\ \A i, j \in 1..n : s[i] = s[j] => i = j
      /\ \A x \in S : \E i \in 1..n : s[i] = x
  BY SetListed
<1> HIDE DEF s, n
<1>2. s \in Seq(S) /\ Len(s) = n
  BY <1>1
<1>3. s \in Seq(R) /\ f = e \o s
  BY <1>1, <1>2 DEF s
<1>4. /\ f \in Seq(R) /\ Len(e) \in Nat /\ Len(f) = Len(e) + n
      /\ \A i \in 1..Len(e) : f[i] = e[i]
      /\ \A i \in 1..n : f[Len(e) + i] = s[i]
  <2>1. f \in Seq(R) /\ Len(e) \in Nat /\ Len(f) = Len(e) + Len(s)
    BY <1>3
  <2>2. \A i \in 1..Len(e) : f[i] = e[i]
    BY <1>1, <1>2, <1>3
  <2>3. ASSUME NEW i \in 1..n PROVE f[Len(e) + i] = s[i]
    <3>1. Len(e) + i \in 1..(Len(e) + Len(s)) /\ ~(Len(e) + i <= Len(e)) /\ Len(e) + i - Len(e) = i
      BY <1>1, <1>2, <2>1
    <3> QED
      BY <1>3, <3>1
  <2> QED
    BY <1>2, <2>1, <2>2, <2>3
<1>5. \A i \in 1..Len(f) : i > Len(e) => (i - Len(e) \in 1..n /\ f[i] = s[i - Len(e)])
  <2>1. ASSUME NEW i \in 1..Len(f), i > Len(e) PROVE i - Len(e) \in 1..n /\ f[i] = s[i - Len(e)]
    <3>1. i - Len(e) \in 1..n /\ Len(e) + (i - Len(e)) = i
      BY <1>1, <1>4, <2>1
    <3> QED
      BY <1>4, <3>1
  <2> QED
    BY <2>1
<1>6. \A i \in 1..Len(f) : i > Len(e) => f[i] \in S
  BY <1>1, <1>5
<1>7. ASSUME NEW i \in 1..Len(f), NEW j \in 1..Len(f), i > Len(e), j > Len(e), f[i] = f[j] PROVE i = j
  <2>1. i - Len(e) = j - Len(e)
    BY <1>1, <1>5, <1>7
  <2> QED
    BY <1>4, <2>1
<1>8. ASSUME NEW x \in S PROVE \E i \in 1..Len(f) : i > Len(e) /\ f[i] = x
  <2>1. PICK m \in 1..n : s[m] = x
    BY <1>1
  <2>2. Len(e) + m \in 1..Len(f) /\ Len(e) + m > Len(e)
    BY <1>1, <1>4
  <2> QED
    BY <1>4, <2>1, <2>2
<1>9. Len(f) \in Nat /\ Len(e) <= Len(f)
  BY <1>1, <1>4
<1> QED
  BY <1>4, <1>6, <1>7, <1>8, <1>9 DEF Behind

(* Evidence of a topic is added for signals that it has none of.           *)
EvidenceAdded(t, T) ==
  /\ evidence' \in Seq(Evidence) /\ DOMAIN evidence \subseteq DOMAIN evidence'
  /\ \A i \in DOMAIN evidence : evidence'[i] = evidence[i]
  /\ \A i \in DOMAIN evidence' \ DOMAIN evidence : evidence'[i].topic = t /\ evidence'[i].signal \in T
  /\ \A i, j \in DOMAIN evidence' \ DOMAIN evidence : evidence'[i].signal = evidence'[j].signal => i = j
  /\ Linked(t)' = Linked(t) \cup T
  /\ \A u : u # t => Linked(u)' = Linked(u)

(* This is what one commit of evidence does.                               *)
LEMMA EvidenceGrows ==
  ASSUME TopicTypeOK, NEW t \in Nat, NEW T \in SUBSET Signals, IsFiniteSet(T), NEW n \in Nat,
         evidence' = evidence \o SetToSeq([topic : {t}, signal : T, seen : {n}])
  PROVE  EvidenceAdded(t, T)
<1> DEFINE S == [topic : {t}, signal : T, seen : {n}]
<1>1. evidence \in Seq(Evidence)
  BY DEF TopicTypeOK
<1>2. S \in SUBSET Evidence
  BY DEF Evidence
<1>3. IsFiniteSet(S)
  <2> DEFINE g == [s \in T |-> [topic |-> t, signal |-> s, seen |-> n]]
  <2>1. \A x \in S : x.signal \in T /\ x = [topic |-> t, signal |-> x.signal, seen |-> n]
    OBVIOUS
  <2>2. g \in [T -> S]
    OBVIOUS
  <2>3. \A x \in S : \E s \in T : g[s] = x
    BY <2>1
  <2> HIDE DEF g, S
  <2>4. g \in Surjection(T, S)
    BY <2>2, <2>3 DEF Surjection
  <2> QED
    BY <2>4, FS_Surjection
<1>4. \A x \in S : x.topic = t /\ x.signal \in T
  OBVIOUS
<1>5. \A x, y \in S : x.signal = y.signal => x = y
  OBVIOUS
<1>6. \A s \in T : \E x \in S : x.signal = s
  <2>1. ASSUME NEW s \in T PROVE [topic |-> t, signal |-> s, seen |-> n] \in S /\ [topic |-> t, signal |-> s, seen |-> n].signal = s
    OBVIOUS
  <2> QED
    BY <2>1
<1>7. evidence' = evidence \o SetToSeq(S)
  OBVIOUS
<1> HIDE DEF S
<1>8. /\ evidence' \in Seq(Evidence) /\ Len(evidence) \in Nat /\ Len(evidence') \in Nat /\ Len(evidence) <= Len(evidence')
      /\ \A i \in 1..Len(evidence) : evidence'[i] = evidence[i]
      /\ \A i \in 1..Len(evidence') : i > Len(evidence) => evidence'[i] \in S
      /\ \A i, j \in 1..Len(evidence') : (i > Len(evidence) /\ j > Len(evidence) /\ evidence'[i] = evidence'[j]) => i = j
      /\ \A x \in S : \E i \in 1..Len(evidence') : i > Len(evidence) /\ evidence'[i] = x
  <2>1. evidence' \in Seq(Evidence) /\ Behind(evidence, evidence', S)
    BY <1>1, <1>2, <1>3, <1>7, Appended
  <2> QED
    BY <2>1 DEF Behind
<1>9. DOMAIN evidence = 1..Len(evidence) /\ DOMAIN evidence' = 1..Len(evidence')
  BY <1>1, <1>8
<1>10. /\ DOMAIN evidence \subseteq DOMAIN evidence'
       /\ \A i \in DOMAIN evidence' : (i \in DOMAIN evidence) <=> ~(i > Len(evidence))
  BY <1>8, <1>9
<1>11. \A i \in DOMAIN evidence' \ DOMAIN evidence : evidence'[i] \in S
  BY <1>8, <1>9, <1>10
<1>12. ASSUME NEW i \in DOMAIN evidence' \ DOMAIN evidence, NEW j \in DOMAIN evidence' \ DOMAIN evidence,
              evidence'[i].signal = evidence'[j].signal
       PROVE  i = j
  <2>1. evidence'[i] = evidence'[j]
    BY <1>5, <1>11, <1>12
  <2>2. i \in 1..Len(evidence') /\ j \in 1..Len(evidence') /\ i > Len(evidence) /\ j > Len(evidence)
    BY <1>9, <1>10
  <2> QED
    BY <1>8, <2>1, <2>2
<1>13. ASSUME NEW u PROVE Linked(u)' = Linked(u) \cup (IF u = t THEN T ELSE {})
  <2>1. ASSUME NEW s \in Linked(u)' PROVE s \in Linked(u) \cup (IF u = t THEN T ELSE {})
    <3>1. PICK i \in DOMAIN evidence' : evidence'[i].topic = u /\ s = evidence'[i].signal
      BY <2>1 DEF Linked
    <3> QED
      BY <1>4, <1>8, <1>9, <1>11, <3>1 DEF Linked
  <2>2. ASSUME NEW s \in Linked(u) PROVE s \in Linked(u)'
    <3>1. PICK i \in DOMAIN evidence : evidence[i].topic = u /\ s = evidence[i].signal
      BY <2>2 DEF Linked
    <3> QED
      BY <1>8, <1>9, <1>10, <3>1 DEF Linked
  <2>3. ASSUME NEW s \in T, u = t PROVE s \in Linked(u)'
    <3>1. PICK x \in S : x.signal = s
      BY <1>6
    <3>2. PICK i \in DOMAIN evidence' : evidence'[i] = x
      BY <1>8, <1>9
    <3> QED
      BY <1>4, <2>3, <3>1, <3>2 DEF Linked
  <2> QED
    BY <2>1, <2>2, <2>3
<1>14. Linked(t)' = Linked(t) \cup T
  BY <1>13
<1>15. \A u : u # t => Linked(u)' = Linked(u)
  BY <1>13
<1> QED
  BY <1>4, <1>8, <1>9, <1>10, <1>11, <1>12, <1>14, <1>15 DEF EvidenceAdded

(* What a chain looked at stays as it was when rows are added behind.      *)
LEMMA LooksGrow ==
  ASSUME TopicTypeOK, TopicTypeOK', NEW r \in ChainShape, LooksRightly(r), Known \subseteq Known',
         DOMAIN topics \subseteq DOMAIN topics', \A i \in DOMAIN topics : topics'[i] = topics[i],
         DOMAIN candidates \subseteq DOMAIN candidates', \A i \in DOMAIN candidates : candidates'[i].signal = candidates[i].signal,
         \A i \in DOMAIN topics : topics[i].origin = "discovered" => Linked(i)' = Linked(i)
  PROVE  LooksRightly(r)'
<1>1. /\ Len(topics) \in Nat /\ DOMAIN topics = 1..Len(topics) /\ Len(topics') \in Nat /\ DOMAIN topics' = 1..Len(topics')
      /\ Len(candidates) \in Nat /\ DOMAIN candidates = 1..Len(candidates)
      /\ Len(candidates') \in Nat /\ DOMAIN candidates' = 1..Len(candidates')
  BY DEF TopicTypeOK
<1>2. r.seen \in Nat
  BY ChainFields
<1>3. Len(topics) <= Len(topics')
  <2>1. CASE Len(topics) = 0
    BY <1>1, <2>1
  <2>2. CASE Len(topics) # 0
    <3>1. Len(topics) \in DOMAIN topics
      BY <1>1, <2>2
    <3> QED
      BY <1>1, <3>1
  <2> QED
    BY <2>1, <2>2
<1>4. Len(candidates) <= Len(candidates')
  <2>1. CASE Len(candidates) = 0
    BY <1>1, <2>1
  <2>2. CASE Len(candidates) # 0
    <3>1. Len(candidates) \in DOMAIN candidates
      BY <1>1, <2>2
    <3> QED
      BY <1>1, <3>1
  <2> QED
    BY <2>1, <2>2
<1>5. r.seen <= Len(topics) => r.seen <= Len(topics') /\ \A i \in 1..r.seen : i \in DOMAIN topics
  BY <1>1, <1>2, <1>3
<1>6. r.seen <= Len(candidates) => r.seen <= Len(candidates') /\ \A i \in 1..r.seen : i \in DOMAIN candidates
  BY <1>1, <1>2, <1>4
<1>7. (r.pc = "topic" => r.seen <= Len(topics) /\ \A i \in 1..r.seen : topics[i].origin # "configured")'
  BY <1>5 DEF LooksRightly
<1>8. /\ (r.pc \in {"link", "link_commit"} => r.at \in DOMAIN topics /\ topics[r.at].origin = "configured")'
      /\ (r.pc = "link_commit" => r.todo \subseteq Known)'
  BY DEF LooksRightly
<1>9. (r.pc = "name" => r.at \in Known /\ r.seen <= Len(candidates) /\ \A i \in 1..r.seen : candidates[i].signal # r.at)'
  BY <1>6 DEF LooksRightly
<1>10. (r.pc = "save" =>
       /\ r.found \subseteq Known /\ evaluate_eligibility(r.found) /\ r.seen <= Len(topics)
       /\ \A i \in 1..r.seen : topics[i].origin = "discovered" => Linked(i) \cap r.found = {})'
  BY <1>5 DEF LooksRightly, evaluate_eligibility
<1> QED
  BY <1>7, <1>8, <1>9, <1>10 DEF LooksRightly

(* Nothing of the clusters changes while the candidates rest.              *)
LEMMA ClustersStay ==
  ASSUME TopicsInv, UNCHANGED <<candidates, judged, crossed, chain>>
  PROVE  KeyInv' /\ SoloInv' /\ PairsInv' /\ \A d \in Chains : PairsRightly(chain[d])'
<1>1. KeyInv'
  BY DEF TopicsInv, KeyInv, Closed, Same, Named, KeyOf
<1>2. SoloInv'
  BY DEF TopicsInv, SoloInv, Compares, Keyed, KeyOf
<1>3. PairsInv'
  <2>1. \A a, b : Compared(a, b)' <=> Compared(a, b)
    BY DEF Compared, Compares
  <2>2. \A i : (Keyed(i)' <=> Keyed(i)) /\ KeyOf(i)' = KeyOf(i)
    BY DEF Keyed, KeyOf
  <2> QED
    BY <2>1, <2>2 DEF TopicsInv, PairsInv
<1>4. ASSUME NEW d \in Chains PROVE PairsRightly(chain[d])'
  <2>1. PairsRightly(chain[d]) /\ chain'[d] = chain[d]
    BY DEF TopicsInv, ChainsInv
  <2>2. \A i : (Keyed(i)' <=> Keyed(i)) /\ KeyOf(i)' = KeyOf(i)
    BY DEF Keyed, KeyOf
  <2>3. \A S : Closed(S)' <=> Closed(S)
    BY DEF Closed, Same
  <2>4. \A S, k : Named(S, k)' <=> Named(S, k)
    BY DEF Named
  <2> QED
    BY <2>1, <2>2, <2>3, <2>4 DEF PairsRightly
<1> QED
  BY <1>1, <1>2, <1>3, <1>4

(* So they do when a signal arrives, and when nothing changes.             *)
LEMMA SenseKeeps == ASSUME TopicsInv, Sense PROVE TopicsInv'
<1>1. /\ arrived \in Nat /\ arrived' = arrived + 1
      /\ UNCHANGED <<topics, evidence, candidates, judged, crossed, chain, topicFaults>>
  BY DEF Sense, TopicsInv, TopicsTyped, TopicTypeOK
<1>2. Known \subseteq Known'
  <2>1. \A s \in Signals : s \in Nat
    BY TopicsAssumption
  <2> QED
    BY <1>1, <2>1 DEF Known
<1>3. TopicsTyped'
  <2>1. TopicTypeOK'
    BY <1>1 DEF TopicsInv, TopicsTyped, TopicTypeOK
  <2> QED
    BY <1>1, <1>2, <2>1 DEF TopicsInv, TopicsTyped
<1>4. \A t : Linked(t)' = Linked(t)
  BY <1>1 DEF Linked
<1>5. ASSUME NEW d \in Chains PROVE LooksRightly(chain[d])'
  <2>1. chain[d] \in ChainShape /\ LooksRightly(chain[d]) /\ TopicTypeOK /\ TopicTypeOK'
    BY <1>3 DEF TopicsInv, TopicsTyped, ChainsInv
  <2> DEFINE r == chain[d]
  <2>3. r' = r
    BY <1>1
  <2>4. /\ r.pc = "topic" => r.seen <= Len(topics) /\ \A i \in 1..r.seen : topics[i].origin # "configured"
        /\ r.pc \in {"link", "link_commit"} => r.at \in DOMAIN topics /\ topics[r.at].origin = "configured"
        /\ r.pc = "link_commit" => r.todo \subseteq Known'
        /\ r.pc = "name" => r.at \in Known' /\ r.seen <= Len(candidates) /\ \A i \in 1..r.seen : candidates[i].signal # r.at
        /\ r.pc = "save" =>
             /\ r.found \subseteq Known' /\ evaluate_eligibility(r.found) /\ r.seen <= Len(topics)
             /\ \A i \in 1..r.seen : topics[i].origin = "discovered" => Linked(i) \cap r.found = {}
    BY <1>2, <2>1 DEF LooksRightly
  <2> QED
    BY <1>1, <1>4, <2>3, <2>4 DEF LooksRightly, evaluate_eligibility
<1>6. KeyInv' /\ SoloInv' /\ PairsInv' /\ \A d \in Chains : PairsRightly(chain[d])'
  BY <1>1, ClustersStay
<1>8. MadeOnce' /\ EvidenceSound'
  <2>1. MadeOnce'
    BY <1>1, <1>4 DEF TopicsInv, MadeOnce
  <2>2. EvidenceSound'
    BY <1>1, <1>4 DEF TopicsInv, EvidenceSound
  <2> QED
    BY <2>1, <2>2
<1> QED
  BY <1>3, <1>5, <1>6, <1>8 DEF TopicsInv, ChainsInv

(* Nothing of the topics moves while something is written.                 *)
LEMMA TopicsRest == ASSUME TopicsInv, UNCHANGED topicVars PROVE TopicsInv'
<1>1. UNCHANGED <<arrived, topics, evidence, candidates, judged, crossed, chain>>
  BY DEF topicVars
<1>2. TopicsTyped'
  BY <1>1 DEF TopicsInv, TopicsTyped, TopicTypeOK, Known
<1>3. \A t : Linked(t)' = Linked(t)
  BY <1>1 DEF Linked
<1>4. ASSUME NEW d \in Chains PROVE LooksRightly(chain[d])'
  <2>1. LooksRightly(chain[d]) /\ chain'[d] = chain[d]
    BY <1>1 DEF TopicsInv, ChainsInv
  <2>2. Known' = Known
    BY <1>1 DEF Known
  <2> QED
    BY <1>1, <1>3, <2>1, <2>2 DEF LooksRightly, evaluate_eligibility
<1>5. KeyInv' /\ SoloInv' /\ PairsInv' /\ \A d \in Chains : PairsRightly(chain[d])'
  BY <1>1, ClustersStay
<1>8. MadeOnce'
  BY <1>1, <1>3 DEF TopicsInv, MadeOnce
<1>9. EvidenceSound'
  BY <1>1, <1>3 DEF TopicsInv, EvidenceSound
<1> QED
  BY <1>2, <1>4, <1>5, <1>8, <1>9 DEF TopicsInv, ChainsInv

-----------------------------------------------------------------------------
(* Steps that add topics and evidence: what the clusters are stays.        *)
LEMMA RowsGrow ==
  ASSUME TopicsInv, NEW c \in Chains, NEW r \in ChainShape, chain' = [chain EXCEPT ![c] = r],
         UNCHANGED <<arrived, candidates, judged, crossed>>, ~Compares(c), r.pc \notin {"compare", "merge"},
         topics' \in Seq(ContentTopic), evidence' \in Seq(Evidence), \A i \in DOMAIN evidence' : evidence'[i].topic \in DOMAIN topics',
         DOMAIN topics \subseteq DOMAIN topics', \A i \in DOMAIN topics : topics'[i] = topics[i],
         \A i \in DOMAIN topics : topics[i].origin = "discovered" => Linked(i)' = Linked(i),
         LooksRightly(r)', MadeOnce', EvidenceSound'
  PROVE  TopicsInv'
<1>0. chain \in [Chains -> ChainShape] /\ chain' \in [Chains -> ChainShape] /\ TopicTypeOK
  BY DEF TopicsInv, TopicsTyped
<1>1. KeyInv' /\ SoloInv' /\ PairsInv' /\ \A d \in Chains : PairsRightly(chain[d])'
  BY ClustersRest
<1>2. TopicTypeOK'
  BY <1>0 DEF TopicTypeOK
<1>3. TopicsTyped'
  BY <1>0, <1>2 DEF TopicsInv, TopicsTyped, Known
<1>4. Known' = Known
  BY DEF Known
<1>5. ASSUME NEW d \in Chains PROVE LooksRightly(chain[d])'
  <2>1. CASE d = c
    BY <1>0, <2>1 DEF LooksRightly
  <2>2. CASE d # c
    <3>1. chain'[d] = chain[d] /\ chain[d] \in ChainShape /\ LooksRightly(chain[d])
      BY <1>0, <2>2 DEF TopicsInv, ChainsInv
    <3>2. \A q \in ChainShape : LooksRightly(q) => LooksRightly(q)'
      BY <1>0, <1>2, <1>4, LooksGrow
    <3>3. PICK q \in ChainShape : q = chain[d]
      BY <3>1
    <3>4. LooksRightly(q)'
      BY <3>1, <3>2, <3>3
    <3> QED
      BY <3>1, <3>3, <3>4 DEF LooksRightly
  <2> QED
    BY <2>1, <2>2
<1> QED
  BY <1>1, <1>3, <1>5 DEF TopicsInv, ChainsInv

(* The row of the configured topic is made.                                *)
LEMMA ConfiguredTopicKeeps == ASSUME TopicsInv, NEW c \in Chains, _get_or_create_content_topic(c) PROVE TopicsInv'
<1> DEFINE n == Len(topics) + 1
<1> DEFINE row == [origin |-> "configured", seen |-> chain[c].seen]
<1>1. /\ chain \in [Chains -> ChainShape] /\ chain[c] \in ChainShape /\ chain[c].pc = "topic" /\ TopicTypeOK /\ LooksRightly(chain[c]) /\ chain[c].seen \in Nat
      /\ topics' = Append(topics, row) /\ UNCHANGED <<arrived, evidence, candidates, judged, crossed>> /\ ~Compares(c)
  BY ChainFields DEF _get_or_create_content_topic, TopicsInv, TopicsTyped, ChainsInv, Compares
<1>2. topics \in Seq(ContentTopic) /\ Len(topics) \in Nat /\ DOMAIN topics = 1..Len(topics)
  BY <1>1 DEF TopicTypeOK
<1>3. row \in ContentTopic /\ row.origin = "configured" /\ row.seen = chain[c].seen
  BY <1>1 DEF ContentTopic
<1> HIDE DEF row
<1>4. /\ topics' \in Seq(ContentTopic) /\ Len(topics') = n /\ DOMAIN topics' = 1..n
      /\ topics'[n] = row /\ \A i \in DOMAIN topics : topics'[i] = topics[i]
  BY <1>1, <1>2, <1>3
<1>5. n \in Nat /\ DOMAIN topics' = DOMAIN topics \cup {n} /\ n \notin DOMAIN topics
  BY <1>2, <1>4
<1>6. PICK r \in ChainShape : r = [chain[c] EXCEPT !.pc = "link", !.at = n] /\ r.pc = "link" /\ r.at = n
  <2>1. [chain[c] EXCEPT !.pc = "link", !.at = n] \in ChainShape
    BY <1>1, <1>5 DEF ChainShape
  <2>2. [chain[c] EXCEPT !.pc = "link", !.at = n].pc = "link" /\ [chain[c] EXCEPT !.pc = "link", !.at = n].at = n
    BY <1>1 DEF ChainShape
  <2> QED
    BY <2>1, <2>2
<1>7. chain' = [chain EXCEPT ![c] = r]
  BY <1>1, <1>4, <1>6 DEF _get_or_create_content_topic
<1>8. LooksRightly(r)'
  <2>1. n \in DOMAIN topics' /\ topics'[n].origin = "configured"
    BY <1>3, <1>4, <1>5
  <2> QED
    BY <1>6, <2>1 DEF LooksRightly
<1>9. \A t : Linked(t)' = Linked(t)
  BY <1>1 DEF Linked
<1>10. MadeOnce'
  <2>1. ASSUME NEW i \in DOMAIN topics', NEW j \in DOMAIN topics', i < j, topics'[i].origin = "configured", topics'[j].origin = "configured"
        PROVE  topics'[j].seen < i
    <3>1. i \in DOMAIN topics
      BY <1>2, <1>4, <1>5, <2>1
    <3>2. CASE j \in DOMAIN topics
      BY <1>4, <2>1, <3>1, <3>2 DEF TopicsInv, MadeOnce
    <3>3. CASE j = n
      <4>1. ~(i \in 1..chain[c].seen)
        BY <1>1, <1>4, <2>1, <3>1 DEF LooksRightly
      <4> QED
        BY <1>1, <1>2, <1>3, <1>4, <3>1, <3>3, <4>1
    <3> QED
      BY <1>5, <3>2, <3>3
  <2>2. ASSUME NEW i \in DOMAIN topics', NEW j \in DOMAIN topics', i < j, topics'[i].origin = "discovered", topics'[j].origin = "discovered",
               (Linked(i) \cap Linked(j))' # {}
        PROVE  topics'[j].seen < i
    <3>1. i \in DOMAIN topics /\ j \in DOMAIN topics
      BY <1>3, <1>4, <1>5, <2>2
    <3> QED
      BY <1>4, <1>9, <2>2, <3>1 DEF TopicsInv, MadeOnce
  <2>3. \A i, j \in DOMAIN candidates : (i < j /\ candidates[i].signal = candidates[j].signal) => candidates[j].seen < i
    BY DEF TopicsInv, MadeOnce
  <2> QED
    BY <1>1, <2>1, <2>2, <2>3 DEF MadeOnce
<1>11. EvidenceSound'
  <2>1. ASSUME NEW t \in DOMAIN topics', topics'[t].origin = "discovered" PROVE t \in DOMAIN topics /\ topics[t].origin = "discovered"
    BY <1>3, <1>4, <1>5, <2>1
  <2> QED
    BY <1>1, <1>9, <2>1 DEF TopicsInv, EvidenceSound
<1>12. \A i \in DOMAIN evidence' : evidence'[i].topic \in DOMAIN topics'
  BY <1>1, <1>5 DEF TopicTypeOK
<1>13. evidence' \in Seq(Evidence)
  BY <1>1 DEF TopicTypeOK
<1> QED
  BY <1>1, <1>4, <1>5, <1>6, <1>7, <1>8, <1>9, <1>10, <1>11, <1>12, <1>13, RowsGrow

(* Evidence for a topic stays single when it is new for the topic.         *)
EvidenceSingle ==
  \A i, j \in DOMAIN evidence : (evidence[i].topic = evidence[j].topic /\ evidence[i].signal = evidence[j].signal) => i = j

(* No pair of topic and signal is written twice.                           *)
LEMMA EvidenceStaysSingle ==
  ASSUME TopicTypeOK, EvidenceSound, NEW t \in Nat, NEW T \in SUBSET Signals, IsFiniteSet(T), NEW n \in Nat,
         evidence' = evidence \o SetToSeq([topic : {t}, signal : T, seen : {n}]), T \cap Linked(t) = {}
  PROVE  EvidenceSingle'
<1>0. EvidenceAdded(t, T)
  BY EvidenceGrows
<1>1. /\ \A i \in DOMAIN evidence : evidence'[i] = evidence[i]
      /\ \A i \in DOMAIN evidence' \ DOMAIN evidence : evidence'[i].topic = t /\ evidence'[i].signal \in T
      /\ \A i, j \in DOMAIN evidence' \ DOMAIN evidence : evidence'[i].signal = evidence'[j].signal => i = j
  BY <1>0 DEF EvidenceAdded
<1>2. \A i \in DOMAIN evidence : evidence[i].topic = t => evidence[i].signal \notin T
  BY DEF Linked
<1>3. EvidenceSingle
  BY DEF EvidenceSound, EvidenceSingle
<1> SUFFICES ASSUME NEW i \in DOMAIN evidence', NEW j \in DOMAIN evidence',
                    evidence'[i].topic = evidence'[j].topic, evidence'[i].signal = evidence'[j].signal
             PROVE  i = j
  BY DEF EvidenceSingle
<1>4. CASE i \in DOMAIN evidence /\ j \in DOMAIN evidence
  BY <1>1, <1>3, <1>4 DEF EvidenceSingle
<1>5. CASE i \in DOMAIN evidence /\ j \notin DOMAIN evidence
  <2>1. evidence'[j].topic = t /\ evidence'[j].signal \in T /\ evidence'[i] = evidence[i]
    BY <1>1, <1>5
  <2>2. evidence[i].topic = t /\ evidence[i].signal \in T
    BY <2>1
  <2> QED
    BY <1>2, <1>5, <2>2
<1>6. CASE i \notin DOMAIN evidence /\ j \in DOMAIN evidence
  <2>1. evidence'[i].topic = t /\ evidence'[i].signal \in T /\ evidence'[j] = evidence[j]
    BY <1>1, <1>6
  <2>2. evidence[j].topic = t /\ evidence[j].signal \in T
    BY <2>1
  <2> QED
    BY <1>2, <1>6, <2>2
<1>7. CASE i \notin DOMAIN evidence /\ j \notin DOMAIN evidence
  BY <1>1, <1>7
<1> QED
  BY <1>4, <1>5, <1>6, <1>7

(* Signals are linked in one commit, or the unique index refuses them all. *)
LEMMA LinkCommitKeeps == ASSUME TopicsInv, NEW c \in Chains, LinkCommit(c) PROVE TopicsInv'
<1>0. PICK at, T, n : at = chain[c].at /\ T = chain[c].todo /\ n = chain[c].seen
  OBVIOUS
<1>1. /\ chain[c] \in ChainShape /\ chain[c].pc = "link_commit" /\ TopicTypeOK /\ LooksRightly(chain[c]) /\ ~Compares(c)
      /\ UNCHANGED <<arrived, topics, candidates, judged, crossed>>
  BY DEF LinkCommit, TopicsInv, TopicsTyped, ChainsInv, Compares
<1>2. CASE T \cap Linked(at) # {}
  <2>1. chain' = [chain EXCEPT ![c] = Resting] /\ UNCHANGED evidence
    BY <1>0, <1>2 DEF LinkCommit
  <2> QED
    BY <1>1, <2>1, RestingIsChain, PlainMoves
<1>3. CASE T \cap Linked(at) = {}
  <2> DEFINE p == AfterLinking(c)
  <2>1. /\ chain' = [chain EXCEPT ![c] = [Resting EXCEPT !.pc = p]]
        /\ evidence' = evidence \o SetToSeq([topic : {at}, signal : T, seen : {n}])
    BY <1>0, <1>3 DEF LinkCommit
  <2>2. p \in {"extract", "clusters"}
    BY DEF AfterLinking
  <2>3. [Resting EXCEPT !.pc = p] \in ChainShape /\ [Resting EXCEPT !.pc = p].pc = p
    BY <2>2, StageIsRight
  <2>4. LooksRightly([Resting EXCEPT !.pc = p])'
    BY <2>2, <2>3 DEF LooksRightly
  <2>5. arrived \in Nat /\ IsFiniteSet(Known) /\ Known \subseteq Signals
    BY <1>1, KnownIsFinite DEF TopicTypeOK
  <2>6. T \in SUBSET Signals /\ IsFiniteSet(T) /\ at \in DOMAIN topics /\ topics[at].origin = "configured" /\ at \in Nat /\ n \in Nat
    <3>1. T \subseteq Known /\ at \in DOMAIN topics /\ topics[at].origin = "configured"
      BY <1>0, <1>1 DEF LooksRightly
    <3> QED
      BY <1>0, <1>1, <2>5, <3>1, FS_Subset, ChainFields
  <2>61. EvidenceSound
    BY DEF TopicsInv
  <2> HIDE DEF p
  <2>62. EvidenceAdded(at, T)
    BY <1>1, <2>1, <2>6, EvidenceGrows
  <2>7. /\ evidence' \in Seq(Evidence) /\ DOMAIN evidence \subseteq DOMAIN evidence'
        /\ \A i \in DOMAIN evidence : evidence'[i] = evidence[i]
        /\ \A i \in DOMAIN evidence' \ DOMAIN evidence : evidence'[i].topic = at
        /\ \A u : u # at => Linked(u)' = Linked(u)
    BY <2>62 DEF EvidenceAdded
  <2>8. EvidenceSingle'
    BY <1>1, <1>3, <2>1, <2>6, <2>61, EvidenceStaysSingle
  <2>9. \A i \in DOMAIN topics : topics[i].origin = "discovered" => Linked(i)' = Linked(i)
    BY <2>6, <2>7
  <2>10. MadeOnce'
    BY <1>1, <2>9 DEF TopicsInv, MadeOnce
  <2>11. EvidenceSound'
    BY <1>1, <2>61, <2>8, <2>9 DEF EvidenceSound, EvidenceSingle
  <2>12. \A i \in DOMAIN evidence' : evidence'[i].topic \in DOMAIN topics'
    BY <1>1, <2>6, <2>7 DEF TopicTypeOK
  <2>13. topics' \in Seq(ContentTopic)
    BY <1>1 DEF TopicTypeOK
  <2> DEFINE r == [Resting EXCEPT !.pc = p]
  <2>14. r \in ChainShape /\ r.pc \notin {"compare", "merge"} /\ LooksRightly(r)' /\ chain' = [chain EXCEPT ![c] = r]
    BY <2>1, <2>2, <2>3, <2>4
  <2> HIDE DEF r
  <2> QED
    BY <1>1, <2>7, <2>9, <2>10, <2>11, <2>12, <2>13, <2>14, RowsGrow
<1> QED
  BY <1>2, <1>3

(* A topic is made of a cluster, with its evidence.                        *)
LEMMA PromoteKeeps == ASSUME TopicsInv, NEW c \in Chains, promote_cluster(c) PROVE TopicsInv'
<1>0. PICK n, T, z : n = Len(topics) + 1 /\ T = chain[c].found /\ z = Len(evidence)
  OBVIOUS
<1> DEFINE row == [origin |-> "discovered", seen |-> chain[c].seen]
<1>1. /\ chain[c] \in ChainShape /\ chain[c].pc = "save" /\ TopicTypeOK /\ LooksRightly(chain[c]) /\ chain[c].seen \in Nat
      /\ topics' = Append(topics, row) /\ UNCHANGED <<arrived, candidates, judged, crossed>> /\ ~Compares(c)
  BY ChainFields DEF promote_cluster, TopicsInv, TopicsTyped, ChainsInv, Compares
<1>2. topics \in Seq(ContentTopic) /\ Len(topics) \in Nat /\ DOMAIN topics = 1..Len(topics) /\ z \in Nat
  BY <1>0, <1>1 DEF TopicTypeOK
<1>3. row \in ContentTopic /\ row.origin = "discovered" /\ row.seen = chain[c].seen
  BY <1>1 DEF ContentTopic
<1> HIDE DEF row
<1>4. /\ topics' \in Seq(ContentTopic) /\ Len(topics') = n /\ DOMAIN topics' = 1..n
      /\ topics'[n] = row /\ \A i \in DOMAIN topics : topics'[i] = topics[i]
  BY <1>0, <1>1, <1>2, <1>3
<1>5. n \in Nat /\ DOMAIN topics' = DOMAIN topics \cup {n} /\ n \notin DOMAIN topics
  BY <1>0, <1>2, <1>4
<1>6. PICK r \in ChainShape : r = [chain[c] EXCEPT !.pc = "promote", !.found = {}, !.seen = 0] /\ r.pc = "promote"
  <2>1. [chain[c] EXCEPT !.pc = "promote", !.found = {}, !.seen = 0] \in ChainShape
    BY <1>1 DEF ChainShape
  <2>2. [chain[c] EXCEPT !.pc = "promote", !.found = {}, !.seen = 0].pc = "promote"
    BY <1>1 DEF ChainShape
  <2> QED
    BY <2>1, <2>2
<1>7. chain' = [chain EXCEPT ![c] = r] /\ evidence' = evidence \o SetToSeq([topic : {n}, signal : T, seen : {z}])
  BY <1>0, <1>1, <1>4, <1>6 DEF promote_cluster
<1>8. LooksRightly(r)'
  BY <1>6 DEF LooksRightly
<1>9. T \in SUBSET Signals /\ IsFiniteSet(T) /\ T \subseteq Known /\ evaluate_eligibility(T)
  <2>1. T \subseteq Known /\ arrived \in Nat /\ evaluate_eligibility(T)
    BY <1>0, <1>1 DEF LooksRightly, TopicTypeOK
  <2>2. IsFiniteSet(Known) /\ Known \subseteq Signals
    BY <2>1, KnownIsFinite
  <2> QED
    BY <2>1, <2>2, FS_Subset
<1>10. \A i \in 1..chain[c].seen : topics[i].origin = "discovered" => Linked(i) \cap T = {}
  BY <1>0, <1>1 DEF LooksRightly
<1>11. \A i \in DOMAIN evidence : evidence[i].topic \in DOMAIN topics
  BY <1>1 DEF TopicTypeOK
<1>12. Linked(n) = {}
  BY <1>5, <1>11 DEF Linked
<1>13. EvidenceSound
  BY DEF TopicsInv
<1>14. EvidenceAdded(n, T)
  BY <1>1, <1>2, <1>5, <1>7, <1>9, EvidenceGrows
<1>15. EvidenceSingle'
  BY <1>1, <1>2, <1>5, <1>7, <1>9, <1>12, <1>13, EvidenceStaysSingle
<1>16. \A i \in DOMAIN topics : Linked(i)' = Linked(i)
  BY <1>5, <1>14 DEF EvidenceAdded
<1>17. Linked(n)' = T
  BY <1>12, <1>14 DEF EvidenceAdded
<1>18. MadeOnce'
  <2>1. ASSUME NEW i \in DOMAIN topics', NEW j \in DOMAIN topics', i < j, topics'[i].origin = "configured", topics'[j].origin = "configured"
        PROVE  topics'[j].seen < i
    <3>1. i \in DOMAIN topics /\ j \in DOMAIN topics
      BY <1>3, <1>4, <1>5, <2>1
    <3> QED
      BY <1>4, <2>1, <3>1 DEF TopicsInv, MadeOnce
  <2>2. ASSUME NEW i \in DOMAIN topics', NEW j \in DOMAIN topics', i < j, topics'[i].origin = "discovered", topics'[j].origin = "discovered",
               Linked(i)' \cap Linked(j)' # {}
        PROVE  topics'[j].seen < i
    <3>1. i \in DOMAIN topics
      BY <1>0, <1>2, <1>4, <1>5, <2>2
    <3>2. CASE j \in DOMAIN topics
      BY <1>4, <1>16, <2>2, <3>1, <3>2 DEF TopicsInv, MadeOnce
    <3>3. CASE j = n
      <4>1. Linked(i) \cap T # {} /\ topics[i].origin = "discovered"
        BY <1>4, <1>16, <1>17, <2>2, <3>1, <3>3
      <4>2. ~(i \in 1..chain[c].seen)
        BY <1>10, <4>1
      <4> QED
        BY <1>0, <1>1, <1>2, <1>3, <1>4, <3>1, <3>3, <4>2
    <3> QED
      BY <1>5, <3>2, <3>3
  <2>3. \A i, j \in DOMAIN candidates : (i < j /\ candidates[i].signal = candidates[j].signal) => candidates[j].seen < i
    BY DEF TopicsInv, MadeOnce
  <2> QED
    BY <1>1, <2>1, <2>2, <2>3 DEF MadeOnce
<1>19. EvidenceSound'
  <2>1. ASSUME NEW t \in DOMAIN topics', topics'[t].origin = "discovered"
        PROVE  Cardinality({Entity[s] : s \in Linked(t)'}) >= MinEntities
    <3>1. CASE t \in DOMAIN topics
      BY <1>4, <1>13, <1>16, <2>1, <3>1 DEF EvidenceSound
    <3>2. CASE t = n
      BY <1>9, <1>17, <3>2 DEF evaluate_eligibility
    <3> QED
      BY <1>5, <3>1, <3>2
  <2> QED
    BY <1>15, <2>1 DEF EvidenceSound, EvidenceSingle
<1>20. \A i \in DOMAIN evidence' : evidence'[i].topic \in DOMAIN topics'
  <2>1. /\ \A i \in DOMAIN evidence : evidence'[i] = evidence[i]
        /\ \A i \in DOMAIN evidence' \ DOMAIN evidence : evidence'[i].topic = n
    BY <1>14 DEF EvidenceAdded
  <2> QED
    BY <1>5, <1>11, <2>1
<1>21. evidence' \in Seq(Evidence)
  BY <1>14 DEF EvidenceAdded
<1> QED
  BY <1>1, <1>4, <1>5, <1>6, <1>7, <1>8, <1>16, <1>18, <1>19, <1>20, <1>21, RowsGrow

-----------------------------------------------------------------------------
(* Steps that change the candidates and their clusters.                    *)
(* Candidates that belong together are closed off from the rest both ways. *)
LEMMA Dual ==
  ASSUME NEW S \in SUBSET DOMAIN candidates, Closed(S)
  PROVE  Closed(DOMAIN candidates \ S) /\ DOMAIN candidates \ S \in SUBSET DOMAIN candidates
<1>1. \A i, j : Same(i, j) => Same(j, i)
  <2>1. \A i, j : {i, j} = {j, i}
    OBVIOUS
  <2> QED
    BY <2>1 DEF Same
<1> QED
  BY <1>1 DEF Closed

(* A closed set that holds the name of a cluster's key holds the cluster.  *)
LEMMA NameHoldsCluster ==
  ASSUME KeyInv, NEW S \in SUBSET DOMAIN candidates, Closed(S), NEW i \in DOMAIN candidates, KeyOf(i) # "none", Named(S, KeyOf(i))
  PROVE  i \in S
<1> SUFFICES ASSUME i \notin S PROVE FALSE
  OBVIOUS
<1> DEFINE C == DOMAIN candidates \ S
<1>1. Closed(C) /\ C \in SUBSET DOMAIN candidates /\ i \in C
  BY Dual
<1>2. Named(C, KeyOf(i))
  BY <1>1 DEF KeyInv
<1>3. PICK m \in S : candidates[m].name = KeyOf(i)
  BY DEF Named
<1>4. PICK q \in C : candidates[q].name = KeyOf(i)
  BY <1>2 DEF Named
<1>5. Same(m, q)
  BY <1>3, <1>4 DEF Same
<1> QED
  BY <1>5 DEF Closed

(* What the invariant of the keys says of the clusters.                    *)
LEMMA ClustersFollow == ASSUME KeyInv PROVE ClustersWereJudged
<1> SUFFICES ASSUME NEW S \in SUBSET DOMAIN candidates, Closed(S), NEW i \in S, NEW j \in DOMAIN candidates \ S, KeyOf(i) = KeyOf(j), KeyOf(i) # "none"
             PROVE  FALSE
  BY DEF ClustersWereJudged
<1>1. Named(S, KeyOf(j))
  BY DEF KeyInv
<1> QED
  BY <1>1, NameHoldsCluster

(* What the invariant of the pairs says when no sweep compares.            *)
LEMMA PairsFollow == ASSUME PairsInv PROVE PairsWereJudged
<1> SUFFICES ASSUME ~crossed, \A c \in Chains : ~Compares(c), NEW k \in Keys, NEW q \in Keys, k # q,
                    NEW i \in Cluster(k), NEW j \in Cluster(q), {candidates[i].name, candidates[j].name} \in Alike
             PROVE  \E v \in judged : \E a \in Cluster(k), b \in Cluster(q) : {a, b} = v.rows
  BY DEF PairsWereJudged
<1>1. i \in DOMAIN candidates /\ j \in DOMAIN candidates /\ KeyOf(i) = k /\ KeyOf(j) = q /\ k # "none" /\ q # "none"
  BY DEF Cluster, KeyOf, Keys
<1>2. PICK a \in DOMAIN candidates, b \in DOMAIN candidates : KeyOf(a) = k /\ KeyOf(b) = q /\ Compared(a, b)
  BY <1>1 DEF PairsInv, Keyed
<1>3. PICK v \in judged : v.rows = {a, b}
  BY <1>2 DEF Compared
<1> QED
  BY <1>2, <1>3 DEF Cluster, KeyOf

(* A signal has two candidates only when the later looked first.          *)
CandidatesOnce == \A i, j \in DOMAIN candidates : (i < j /\ candidates[i].signal = candidates[j].signal) => candidates[j].seen < i

(* What a step among the candidates leaves alone.                          *)
LEMMA CandidatesMove ==
  ASSUME TopicsInv, NEW c \in Chains, NEW r \in ChainShape, chain' = [chain EXCEPT ![c] = r],
         UNCHANGED <<arrived, topics, evidence>>, candidates' \in Seq(TopicCandidate), crossed' \in BOOLEAN,
         DOMAIN candidates \subseteq DOMAIN candidates', \A i \in DOMAIN candidates : candidates'[i].signal = candidates[i].signal,
         \A i \in DOMAIN candidates' : candidates'[i].signal \in Known, LooksRightly(r)', CandidatesOnce',
         KeyInv', SoloInv', PairsInv', \A d \in Chains : PairsRightly(chain[d])'
  PROVE  TopicsInv'
<1>0. chain \in [Chains -> ChainShape] /\ chain' \in [Chains -> ChainShape] /\ TopicTypeOK
  BY DEF TopicsInv, TopicsTyped
<1>1. TopicTypeOK'
  BY <1>0 DEF TopicTypeOK
<1>2. Known' = Known
  BY DEF Known
<1>3. TopicsTyped'
  BY <1>0, <1>1, <1>2 DEF TopicsTyped
<1>4. \A t : Linked(t)' = Linked(t)
  BY DEF Linked
<1>5. ASSUME NEW d \in Chains PROVE LooksRightly(chain[d])'
  <2>1. CASE d = c
    BY <1>0, <2>1 DEF LooksRightly
  <2>2. CASE d # c
    <3>1. chain'[d] = chain[d] /\ chain[d] \in ChainShape /\ LooksRightly(chain[d])
      BY <1>0, <2>2 DEF TopicsInv, ChainsInv
    <3>2. \A q \in ChainShape : LooksRightly(q) => LooksRightly(q)'
      BY <1>0, <1>1, <1>2, <1>4, LooksGrow
    <3>3. PICK q \in ChainShape : q = chain[d]
      BY <3>1
    <3>4. LooksRightly(q)'
      BY <3>1, <3>2, <3>3
    <3> QED
      BY <3>1, <3>3, <3>4 DEF LooksRightly
  <2> QED
    BY <2>1, <2>2
<1>6. MadeOnce'
  BY <1>4 DEF TopicsInv, MadeOnce, CandidatesOnce
<1>7. EvidenceSound'
  BY <1>4 DEF TopicsInv, EvidenceSound
<1> QED
  BY <1>3, <1>5, <1>6, <1>7 DEF TopicsInv, ChainsInv

(* A candidate is added: it shares no key before it is compared.           *)
LEMMA ExtractKeeps == ASSUME TopicsInv, NEW c \in Chains, extract_topic_candidate(c) PROVE TopicsInv'
<1> DEFINE s == chain[c].at
<1> DEFINE row == [signal |-> s, name |-> Concept[s], cluster_key |-> "none", seen |-> chain[c].seen]
<1>1. /\ chain \in [Chains -> ChainShape] /\ chain[c] \in ChainShape /\ chain[c].pc = "name" /\ TopicTypeOK
      /\ LooksRightly(chain[c]) /\ ~Compares(c) /\ chain[c].seen \in Nat
      /\ UNCHANGED <<arrived, topics, evidence, judged, crossed>>
  BY ChainFields DEF extract_topic_candidate, TopicsInv, TopicsTyped, ChainsInv, Compares
<1>2. PICK r \in ChainShape : r = [chain[c] EXCEPT !.pc = "extract"] /\ r.pc = "extract"
  <2>1. [chain[c] EXCEPT !.pc = "extract"] \in ChainShape /\ [chain[c] EXCEPT !.pc = "extract"].pc = "extract"
    BY <1>1 DEF ChainShape
  <2> QED
    BY <2>1
<1>3. chain' = [chain EXCEPT ![c] = r]
  BY <1>1, <1>2 DEF extract_topic_candidate
<1>4. LooksRightly(r) /\ LooksRightly(r)'
  BY <1>2 DEF LooksRightly
<1>5. CASE UNCHANGED candidates
  BY <1>1, <1>2, <1>3, <1>4, <1>5, PlainMoves
<1>6. CASE candidates' = Append(candidates, row)
  <2>0. PICK n \in Nat : n = Len(candidates) + 1 /\ Len(candidates) \in Nat
    BY <1>1 DEF TopicTypeOK
  <2>1. candidates \in Seq(TopicCandidate) /\ DOMAIN candidates = 1..Len(candidates)
    BY <1>1 DEF TopicTypeOK
  <2>2. s \in Known /\ chain[c].seen <= Len(candidates) /\ \A i \in 1..chain[c].seen : candidates[i].signal # s
    BY <1>1 DEF LooksRightly
  <2>3. s \in Signals /\ Concept[s] \in Names
    BY <2>2 DEF Known, Names
  <2>4. row \in TopicCandidate /\ row.signal = s /\ row.cluster_key = "none" /\ row.seen = chain[c].seen
    BY <1>1, <2>3 DEF TopicCandidate
  <2> HIDE DEF row
  <2>5. /\ candidates' \in Seq(TopicCandidate) /\ DOMAIN candidates' = 1..n
        /\ candidates'[n] = row /\ \A i \in DOMAIN candidates : candidates'[i] = candidates[i]
    BY <1>6, <2>0, <2>1, <2>4
  <2>6. DOMAIN candidates' = DOMAIN candidates \cup {n} /\ n \notin DOMAIN candidates
    BY <2>0, <2>1, <2>5
  <2>7. \A i \in DOMAIN candidates' : candidates'[i].signal \in Known
    BY <2>2, <2>4, <2>5, <2>6 DEF TopicsInv, TopicsTyped
  <2>8. CandidatesOnce'
    <3>1. ASSUME NEW i \in DOMAIN candidates', NEW j \in DOMAIN candidates', i < j, candidates'[i].signal = candidates'[j].signal
          PROVE  candidates'[j].seen < i
      <4>1. i \in DOMAIN candidates
        BY <2>0, <2>1, <2>5, <2>6, <3>1
      <4>2. CASE j \in DOMAIN candidates
        BY <2>5, <3>1, <4>1, <4>2 DEF TopicsInv, MadeOnce
      <4>3. CASE j = n
        <5>1. ~(i \in 1..chain[c].seen)
          BY <2>2, <2>4, <2>5, <3>1, <4>1, <4>3
        <5> QED
          BY <1>1, <2>0, <2>1, <2>4, <2>5, <4>1, <4>3, <5>1
      <4> QED
        BY <2>6, <4>2, <4>3
    <3> QED
      BY <3>1 DEF CandidatesOnce
  <2>9. \A i \in DOMAIN candidates : KeyOf(i)' = KeyOf(i) /\ candidates'[i].name = candidates[i].name
    BY <2>5 DEF KeyOf
  <2>10. KeyOf(n)' = "none"
    BY <2>4, <2>5 DEF KeyOf
  <2>11. \A i : Keyed(i)' <=> Keyed(i)
    BY <2>6, <2>9, <2>10 DEF Keyed
  <2>12. ASSUME NEW S \in SUBSET DOMAIN candidates', Closed(S)'
         PROVE  Closed(S \cap DOMAIN candidates) /\ S \cap DOMAIN candidates \in SUBSET DOMAIN candidates
    <3>1. \A i, j \in DOMAIN candidates : Same(i, j)' <=> Same(i, j)
      BY <1>1, <2>9 DEF Same
    <3> QED
      BY <2>6, <2>12, <3>1 DEF Closed
  <2>13. \A S, k : Named(S \cap DOMAIN candidates, k) => Named(S, k)'
    BY <2>9 DEF Named
  <2>14. KeyInv'
    <3> SUFFICES ASSUME NEW S \in SUBSET DOMAIN candidates', Closed(S)', NEW i \in S, KeyOf(i)' # "none"
                 PROVE  \E m \in S : candidates'[m].name = KeyOf(i)'
      BY DEF KeyInv, Named, KeyOf
    <3>1. i \in DOMAIN candidates /\ KeyOf(i)' = KeyOf(i) /\ KeyOf(i) # "none"
      BY <2>6, <2>9, <2>10
    <3>2. Named(S \cap DOMAIN candidates, KeyOf(i))
      BY <2>12, <3>1 DEF TopicsInv, KeyInv
    <3> QED
      BY <2>9, <3>1, <3>2 DEF Named
  <2>15. /\ \A d \in Chains : chain'[d].pc \in {"compare", "merge"} => d # c /\ chain'[d] = chain[d]
         /\ \A d \in Chains : Compares(d) => d # c /\ chain'[d] = chain[d]
    BY <1>1, <1>2, <1>3 DEF Compares
  <2>16. SoloInv'
    <3> SUFFICES ASSUME ~crossed
                 PROVE  /\ \A d, e \in Chains : Compares(d)' /\ Compares(e)' => d = e
                        /\ \A i \in DOMAIN candidates' : Keyed(i)' => \E m \in DOMAIN candidates' : KeyOf(m)' = KeyOf(i)' /\ candidates'[m].name = KeyOf(i)'
                        /\ \A d \in Chains : chain'[d].pc = "merge" => \E m \in DOMAIN candidates' : KeyOf(m)' = chain'[d].keys[1]
      BY <1>1 DEF SoloInv
    <3>1. /\ \A d, e \in Chains : Compares(d) /\ Compares(e) => d = e
          /\ \A i \in DOMAIN candidates : Keyed(i) => \E m \in DOMAIN candidates : KeyOf(m) = KeyOf(i) /\ candidates[m].name = KeyOf(i)
          /\ \A d \in Chains : chain[d].pc = "merge" => \E m \in DOMAIN candidates : KeyOf(m) = chain[d].keys[1]
      BY DEF TopicsInv, SoloInv
    <3>2. \A d, e \in Chains : Compares(d)' /\ Compares(e)' => d = e
      BY <2>15, <3>1 DEF Compares
    <3>3. ASSUME NEW i \in DOMAIN candidates', Keyed(i)'
          PROVE  \E m \in DOMAIN candidates' : KeyOf(m)' = KeyOf(i)' /\ candidates'[m].name = KeyOf(i)'
      <4>1. i \in DOMAIN candidates /\ Keyed(i) /\ KeyOf(i)' = KeyOf(i)
        BY <2>9, <2>11, <3>3 DEF Keyed
      <4>2. PICK m \in DOMAIN candidates : KeyOf(m) = KeyOf(i) /\ candidates[m].name = KeyOf(i)
        BY <3>1, <4>1
      <4> QED
        BY <2>6, <2>9, <4>1, <4>2
    <3>4. \A d \in Chains : chain'[d].pc = "merge" => \E m \in DOMAIN candidates' : KeyOf(m)' = chain'[d].keys[1]
      <4>1. ASSUME NEW d \in Chains, chain'[d].pc = "merge" PROVE \E m \in DOMAIN candidates' : KeyOf(m)' = chain'[d].keys[1]
        <5>1. chain'[d] = chain[d]
          BY <2>15, <4>1
        <5>2. PICK m \in DOMAIN candidates : KeyOf(m) = chain[d].keys[1]
          BY <3>1, <4>1, <5>1
        <5> QED
          BY <2>6, <2>9, <5>1, <5>2
      <4> QED
        BY <4>1
    <3> QED
      BY <3>2, <3>3, <3>4
  <2>17. \A a, b : Compared(a, b) => Compared(a, b)'
    <3>1. ASSUME NEW a, NEW b, Compared(a, b) PROVE Compared(a, b)'
      <4>1. CASE \E v \in judged : v.rows = {a, b}
        BY <1>1, <4>1 DEF Compared
      <4>2. CASE \E d \in Chains : Compares(d) /\ {a, b} \in chain[d].todo
        <5>1. PICK d \in Chains : Compares(d) /\ {a, b} \in chain[d].todo
          BY <4>2
        <5>2. Compares(d)' /\ {a, b} \in chain'[d].todo
          BY <2>15, <5>1 DEF Compares
        <5> QED
          BY <5>2 DEF Compared
      <4> QED
        BY <3>1, <4>1, <4>2 DEF Compared
    <3> QED
      BY <3>1
  <2>18. PairsInv'
    <3> SUFFICES ASSUME ~crossed, NEW i \in DOMAIN candidates', NEW j \in DOMAIN candidates', Keyed(i)', Keyed(j)', KeyOf(i)' # KeyOf(j)',
                        {candidates'[i].name, candidates'[j].name} \in Alike
                 PROVE  \E a, b \in DOMAIN candidates' : KeyOf(a)' = KeyOf(i)' /\ KeyOf(b)' = KeyOf(j)' /\ Compared(a, b)'
      BY <1>1 DEF PairsInv
    <3>1. i \in DOMAIN candidates /\ j \in DOMAIN candidates /\ Keyed(i) /\ Keyed(j)
      BY <2>11 DEF Keyed
    <3>2. PICK a \in DOMAIN candidates, b \in DOMAIN candidates : KeyOf(a) = KeyOf(i) /\ KeyOf(b) = KeyOf(j) /\ Compared(a, b)
      BY <2>9, <3>1 DEF TopicsInv, PairsInv
    <3> QED
      BY <2>6, <2>9, <2>17, <3>1, <3>2
  <2>19. ASSUME NEW d \in Chains PROVE PairsRightly(chain[d])'
    <3>1. CASE chain'[d].pc \notin {"compare", "merge"}
      BY <3>1 DEF PairsRightly
    <3>2. CASE chain'[d].pc \in {"compare", "merge"}
      <4>1. chain'[d] = chain[d] /\ PairsRightly(chain[d])
        BY <2>15, <3>2 DEF TopicsInv, ChainsInv
      <4>2. (chain[d].pc \in {"compare", "merge"} => \A p \in chain[d].todo : \E i, j \in DOMAIN candidates : i # j /\ p = {i, j} /\ Keyed(i) /\ Keyed(j))'
        BY <2>6, <2>11, <4>1 DEF PairsRightly
      <4>3. CASE chain[d].pc = "merge"
        <5>1. /\ chain[d].keys[1] \in Names /\ chain[d].keys[2] \in Names /\ Named(DOMAIN candidates, chain[d].keys[2])
              /\ \A S \in SUBSET DOMAIN candidates : (Closed(S) /\ Named(S, chain[d].keys[2])) => Named(S, chain[d].keys[1])
          BY <4>1, <4>3 DEF PairsRightly
        <5>2. PICK k1, k2 : k1 = chain[d].keys[1] /\ k2 = chain[d].keys[2]
          OBVIOUS
        <5>3. ASSUME NEW S \in SUBSET DOMAIN candidates', Closed(S)', Named(S, k2)' PROVE Named(S, k1)'
          <6>1. PICK x \in S : candidates'[x].name = k2
            BY <5>3 DEF Named
          <6>2. PICK y \in DOMAIN candidates : candidates[y].name = k2
            BY <5>1, <5>2 DEF Named
          <6>3. Same(x, y)' /\ y \in DOMAIN candidates'
            BY <2>6, <2>9, <6>1, <6>2 DEF Same
          <6>4. y \in S
            BY <5>3, <6>3 DEF Closed
          <6>5. Named(S \cap DOMAIN candidates, k2)
            BY <6>2, <6>4 DEF Named
          <6>6. Named(S \cap DOMAIN candidates, k1)
            BY <2>12, <5>1, <5>2, <5>3, <6>5
          <6> QED
            BY <2>13, <6>6
        <5>4. Named(DOMAIN candidates, k2)'
          BY <2>6, <2>9, <5>1, <5>2 DEF Named
        <5> QED
          BY <4>1, <4>2, <5>1, <5>2, <5>3, <5>4 DEF PairsRightly
      <4>4. CASE chain[d].pc # "merge"
        BY <4>1, <4>2, <4>4 DEF PairsRightly
      <4> QED
        BY <4>3, <4>4
    <3> QED
      BY <3>1, <3>2
  <2>20. DOMAIN candidates \subseteq DOMAIN candidates' /\ (\A i \in DOMAIN candidates : candidates'[i].signal = candidates[i].signal) /\ crossed' \in BOOLEAN
    BY <1>1, <2>5, <2>6 DEF TopicsInv, TopicsTyped
  <2> QED
    BY <1>1, <1>3, <1>4, <2>5, <2>7, <2>8, <2>14, <2>16, <2>18, <2>19, <2>20, CandidatesMove
<1> QED
  BY <1>5, <1>6 DEF extract_topic_candidate

(* What the rows are named and what was judged decide who belongs          *)
(* together; keys do not.                                                  *)
LEMMA KeysOnly ==
  ASSUME DOMAIN candidates' = DOMAIN candidates, \A i \in DOMAIN candidates : candidates'[i].name = candidates[i].name, UNCHANGED judged
  PROVE  /\ \A S \in SUBSET DOMAIN candidates : Closed(S)' <=> Closed(S)
         /\ \A S \in SUBSET DOMAIN candidates : \A k : Named(S, k)' <=> Named(S, k)
<1>1. \A i, j \in DOMAIN candidates : Same(i, j)' <=> Same(i, j)
  BY DEF Same
<1>2. ASSUME NEW S \in SUBSET DOMAIN candidates PROVE Closed(S)' <=> Closed(S)
  BY <1>1 DEF Closed
<1>3. ASSUME NEW S \in SUBSET DOMAIN candidates, NEW k PROVE Named(S, k)' <=> Named(S, k)
  BY DEF Named
<1> QED
  BY <1>2, <1>3

(* What is to be shown of a chain's pairs after a step.                    *)
LEMMA PairsAreRight ==
  ASSUME NEW d \in Chains, NEW r, chain'[d] = r, NEW D, D = DOMAIN candidates',
         r.pc \in {"compare", "merge"} => \A p \in r.todo : \E i, j \in D : i # j /\ p = {i, j} /\ Keyed(i)' /\ Keyed(j)',
         r.pc = "merge" =>
           /\ r.keys[1] \in Names /\ r.keys[2] \in Names /\ Named(D, r.keys[2])'
           /\ \A S \in SUBSET D : (Closed(S)' /\ Named(S, r.keys[2])') => Named(S, r.keys[1])'
  PROVE  PairsRightly(chain[d])'
<1>1. (r.pc \in {"compare", "merge"} => \A p \in r.todo : \E i, j \in DOMAIN candidates : i # j /\ p = {i, j} /\ Keyed(i) /\ Keyed(j))'
  OBVIOUS
<1>2. (r.pc = "merge" =>
           /\ r.keys[1] \in Names /\ r.keys[2] \in Names /\ Named(DOMAIN candidates, r.keys[2])
           /\ \A S \in SUBSET DOMAIN candidates : (Closed(S) /\ Named(S, r.keys[2])) => Named(S, r.keys[1]))'
  OBVIOUS
<1>3. PairsRightly(r)'
  BY <1>1, <1>2 DEF PairsRightly
<1> QED
  BY <1>3 DEF PairsRightly

(* Pairs of a chain that rests while rows of clusters get other keys.      *)
LEMMA PairsRest ==
  ASSUME TopicsInv, NEW d \in Chains, chain'[d] = chain[d], DOMAIN candidates' = DOMAIN candidates, \A i : Keyed(i) => Keyed(i)',
         \A S \in SUBSET DOMAIN candidates : Closed(S)' => Closed(S),
         \A S \in SUBSET DOMAIN candidates : \A k : Named(S, k)' <=> Named(S, k)
  PROVE  PairsRightly(chain[d])'
<1>0. PICK r : r = chain[d]
  OBVIOUS
<1>1. PairsRightly(r)
  BY <1>0 DEF TopicsInv, ChainsInv
<1>2. r.pc \in {"compare", "merge"} => \A p \in r.todo : \E i, j \in DOMAIN candidates : i # j /\ p = {i, j} /\ Keyed(i)' /\ Keyed(j)'
  BY <1>1 DEF PairsRightly
<1>3. ASSUME r.pc = "merge"
      PROVE  /\ r.keys[1] \in Names /\ r.keys[2] \in Names /\ Named(DOMAIN candidates, r.keys[2])'
             /\ \A S \in SUBSET DOMAIN candidates : (Closed(S)' /\ Named(S, r.keys[2])') => Named(S, r.keys[1])'
  <2>1. /\ r.keys[1] \in Names /\ r.keys[2] \in Names /\ Named(DOMAIN candidates, r.keys[2])
        /\ \A S \in SUBSET DOMAIN candidates : (Closed(S) /\ Named(S, r.keys[2])) => Named(S, r.keys[1])
    BY <1>1, <1>3 DEF PairsRightly
  <2>2. Named(DOMAIN candidates, r.keys[2])'
    <3>1. PICK D : D = DOMAIN candidates
      OBVIOUS
    <3>2. Named(D, r.keys[2])'
      BY <2>1, <3>1
    <3> QED
      BY <3>1, <3>2 DEF Named
  <2>3. ASSUME NEW S \in SUBSET DOMAIN candidates, Closed(S)', Named(S, r.keys[2])' PROVE Named(S, r.keys[1])'
    <3>1. Closed(S) /\ Named(S, r.keys[2])
      BY <2>3
    <3>2. Named(S, r.keys[1])
      BY <2>1, <3>1
    <3> QED
      BY <3>2
  <2> QED
    BY <2>1, <2>2, <2>3
<1>4. PICK D : D = DOMAIN candidates
  OBVIOUS
<1>5. Named(DOMAIN candidates, r.keys[2])' <=> Named(D, r.keys[2])'
  BY <1>4 DEF Named
<1>6. chain'[d] = r /\ D = DOMAIN candidates'
  BY <1>0, <1>4
<1>7. r.pc \in {"compare", "merge"} => \A p \in r.todo : \E i, j \in D : i # j /\ p = {i, j} /\ Keyed(i)' /\ Keyed(j)'
  BY <1>2, <1>4
<1>8. r.pc = "merge" =>
           /\ r.keys[1] \in Names /\ r.keys[2] \in Names /\ Named(D, r.keys[2])'
           /\ \A S \in SUBSET D : (Closed(S)' /\ Named(S, r.keys[2])') => Named(S, r.keys[1])'
  BY <1>3, <1>4, <1>5
<1> QED
  BY <1>6, <1>7, <1>8, PairsAreRight

(* Rows that get another key are rows still.                               *)
LEMMA Rekeyed ==
  ASSUME TopicsInv, DOMAIN candidates' = DOMAIN candidates, \A i \in DOMAIN candidates : candidates'[i] \in TopicCandidate,
         candidates' = [i \in DOMAIN candidates |-> candidates'[i]],
         \A i \in DOMAIN candidates : candidates'[i].signal = candidates[i].signal /\ candidates'[i].seen = candidates[i].seen
  PROVE  candidates' \in Seq(TopicCandidate) /\ CandidatesOnce' /\ \A i \in DOMAIN candidates' : candidates'[i].signal \in Known
<1>1. DOMAIN candidates = 1..Len(candidates) /\ Len(candidates) \in Nat
  BY DEF TopicsInv, TopicsTyped, TopicTypeOK
<1>2. candidates' \in Seq(TopicCandidate)
  BY <1>1
<1>3. CandidatesOnce'
  BY DEF TopicsInv, MadeOnce, CandidatesOnce
<1> QED
  BY <1>2, <1>3 DEF TopicsInv, TopicsTyped

(* The first of a cluster's rows.                                          *)
LEMMA LeastIsLeast ==
  ASSUME NEW S \in SUBSET Nat, S # {}
  PROVE  Least(S) \in S /\ \A q \in S : Least(S) <= q
<1>1. PICK x \in S : \A y \in S : ~ (<<y, x>> \in OpToRel(<, Nat))
  BY WFMin, NatLessThanWellFounded, Zenon
<1>2. \A y \in S : ~ (y < x)
  <2>1. ASSUME NEW y \in S, y < x PROVE FALSE
    <3>1. <<y, x>> \in Nat \X Nat /\ <<y, x>>[1] < <<y, x>>[2]
      BY <2>1
    <3>2. <<y, x>> \in OpToRel(<, Nat)
      BY <3>1 DEF OpToRel
    <3> QED
      BY <1>1, <3>2
  <2> QED
    BY <2>1
<1>3. \A y \in S : x <= y
  BY <1>2
<1> QED
  BY <1>3 DEF Least

(* Rows without a key get their names for keys, and pairs are listed.      *)
LEMMA AssignKeeps == ASSUME TopicsInv, NEW c \in Chains, AssignKeys(c) PROVE TopicsInv'
<1> DEFINE D == DOMAIN candidates
<1> DEFINE key(i) == IF KeyOf(i) = "none" THEN candidates[i].name ELSE KeyOf(i)
<1>1. /\ chain \in [Chains -> ChainShape] /\ chain[c].pc = "assign" /\ TopicTypeOK /\ ~Compares(c)
      /\ candidates' = [i \in D |-> [candidates[i] EXCEPT !.cluster_key = IF @ = "none" THEN candidates[i].name ELSE @]]
      /\ UNCHANGED <<arrived, topics, evidence, judged>> /\ crossed' = (crossed \/ \E d \in Chains \ {c} : Compares(d))
  BY DEF AssignKeys, TopicsInv, TopicsTyped, Compares
<1>2. \A i \in D : candidates[i] \in TopicCandidate /\ candidates[i].name \in Names /\ KeyOf(i) \in Names \cup {"none"}
  BY <1>1, TopicRows, RowFields DEF KeyOf
<1>3. D = 1..Len(candidates) /\ Len(candidates) \in Nat
  BY <1>1, TopicRows
<1>4. DOMAIN candidates' = D
  BY <1>1
<1>5. ASSUME NEW i \in D
      PROVE  /\ candidates'[i] \in TopicCandidate /\ candidates'[i].signal = candidates[i].signal /\ candidates'[i].seen = candidates[i].seen
             /\ candidates'[i].name = candidates[i].name /\ KeyOf(i)' = key(i) /\ key(i) \in Names /\ key(i) # "none"
  <2>1. candidates'[i] = [candidates[i] EXCEPT !.cluster_key = key(i)]
    BY <1>1 DEF KeyOf
  <2>2. key(i) \in Names /\ key(i) # "none"
    <3>1. "none" \notin Names
      BY TopicsAssumption
    <3> QED
      BY <1>2, <3>1
  <2> HIDE DEF key
  <2> QED
    BY <1>2, <2>1, <2>2 DEF KeyOf, TopicCandidate
<1>6. /\ \A i \in D : KeyOf(i)' = key(i) /\ key(i) \in Names /\ key(i) # "none" /\ (KeyOf(i) # "none" => key(i) = KeyOf(i))
      /\ \A i \in D : KeyOf(i) = "none" => key(i) = candidates[i].name
  BY <1>5
<1> HIDE DEF key, D
<1>7. \A i \in D : Keyed(i)'
  BY <1>4, <1>6 DEF Keyed
<1>8. /\ \A S \in SUBSET D : Closed(S)' <=> Closed(S)
      /\ \A S \in SUBSET D : \A k : Named(S, k)' <=> Named(S, k)
  BY <1>1, <1>4, <1>5, KeysOnly DEF D
<1>9. KeyInv'
  <2> SUFFICES ASSUME NEW S \in SUBSET D, Closed(S)', NEW i \in S PROVE \E m \in S : candidates'[m].name = KeyOf(i)'
    BY <1>4 DEF KeyInv, Named
  <2>1. CASE KeyOf(i) = "none"
    BY <1>5, <1>6, <2>1
  <2>2. CASE KeyOf(i) # "none"
    <3>1. Closed(S)
      BY <1>8
    <3>2. PICK m \in S : candidates[m].name = KeyOf(i)
      BY <2>2, <3>1 DEF TopicsInv, KeyInv, Named, D
    <3> QED
      BY <1>5, <1>6, <2>2, <3>2
  <2> QED
    BY <2>1, <2>2
<1> DEFINE todo == _plausible_pairs(NewKeys(Keys))
<1> DEFINE rep(k) == Least({i \in DOMAIN candidates' : candidates'[i].cluster_key = k})
<1>10. ASSUME NEW k \in Keys' PROVE rep(k) \in D /\ candidates'[rep(k)].cluster_key = k
  <2> DEFINE S == {i \in DOMAIN candidates' : candidates'[i].cluster_key = k}
  <2>1. S \in SUBSET Nat /\ S # {}
    <3>1. S \subseteq D /\ D \subseteq Nat
      BY <1>3, <1>4
    <3>2. S # {}
      BY <1>10 DEF Keys
    <3> QED
      BY <3>1, <3>2
  <2>2. Least(S) \in S
    BY <2>1, LeastIsLeast
  <2> QED
    BY <1>4, <2>2
<1>11. \A p \in todo : \E k, q \in Keys' : k # q /\ p = {rep(k), rep(q)}
  <2>1. ASSUME NEW p \in todo PROVE \E k, q \in Keys' : k # q /\ p = {rep(k), rep(q)}
    <3>1. PICK z \in NewKeys(Keys) \X Keys' : z[1] # z[2] /\ p = {rep(z[1]), rep(z[2])}
      BY <2>1 DEF _plausible_pairs
    <3>2. z[1] \in Keys' /\ z[2] \in Keys'
      BY <3>1 DEF NewKeys
    <3> QED
      BY <3>1, <3>2
  <2> QED
    BY <2>1
<1>12. ASSUME NEW k \in Keys', NEW q \in Keys', k # q, k \notin Keys \/ q \notin Keys,
              NEW i \in D, NEW j \in D, KeyOf(i)' = k, KeyOf(j)' = q, {candidates[i].name, candidates[j].name} \in Alike
       PROVE  {rep(k), rep(q)} \in todo
  <2>1. candidates[i].name \in Words(k) /\ candidates[j].name \in Words(q)
    <3>1. candidates'[i].name \in Words(k) /\ candidates'[j].name \in Words(q)
      BY <1>4, <1>12 DEF Words, KeyOf, D
    <3> QED
      BY <1>5, <3>1
  <2>2. CASE k \notin Keys
    <3>1. <<k, q>> \in NewKeys(Keys) \X Keys' /\ <<k, q>>[1] = k /\ <<k, q>>[2] = q
      BY <1>12, <2>2 DEF NewKeys
    <3> QED
      BY <1>12, <2>1, <3>1 DEF _plausible_pairs
  <2>3. CASE q \notin Keys
    <3>1. <<q, k>> \in NewKeys(Keys) \X Keys' /\ <<q, k>>[1] = q /\ <<q, k>>[2] = k
      BY <1>12, <2>3 DEF NewKeys
    <3>2. {candidates[j].name, candidates[i].name} \in Alike
      <4>1. {candidates[j].name, candidates[i].name} = {candidates[i].name, candidates[j].name}
        OBVIOUS
      <4> QED
        BY <1>12, <4>1
    <3>3. {rep(q), rep(k)} \in todo
      BY <1>12, <2>1, <3>1, <3>2 DEF _plausible_pairs
    <3>4. {rep(q), rep(k)} = {rep(k), rep(q)}
      OBVIOUS
    <3> QED
      BY <3>3, <3>4
  <2> QED
    BY <1>12, <2>2, <2>3
<1>13. PICK T, R : T = todo /\ R = [k \in Keys' |-> rep(k)]
  OBVIOUS
<1>14. /\ \A k \in Keys' : R[k] \in D /\ KeyOf(R[k])' = k
       /\ \A p \in T : \E k, q \in Keys' : k # q /\ p = {R[k], R[q]}
  <2>1. \A k \in Keys' : R[k] \in D /\ KeyOf(R[k])' = k
    BY <1>10, <1>13 DEF KeyOf
  <2>2. \A k \in Keys' : R[k] = rep(k)
    BY <1>13
  <2> QED
    BY <1>11, <1>13, <2>1, <2>2
<1>15. ASSUME NEW k \in Keys', NEW q \in Keys', k # q, k \notin Keys \/ q \notin Keys,
              NEW i \in D, NEW j \in D, KeyOf(i)' = k, KeyOf(j)' = q, {candidates[i].name, candidates[j].name} \in Alike
       PROVE  {R[k], R[q]} \in T
  BY <1>12, <1>13, <1>15
<1>16. chain' = [chain EXCEPT ![c] = [Resting EXCEPT !.pc = "compare", !.todo = T]]
  BY <1>13 DEF AssignKeys
<1> HIDE DEF todo, rep
<1>17. PICK r \in ChainShape : r = [Resting EXCEPT !.pc = "compare", !.todo = T] /\ r.pc = "compare" /\ r.todo = T
  <2>1. T \subseteq SUBSET Nat
    <3>1. \A p \in T : p \subseteq D
      BY <1>14
    <3>2. D \subseteq Nat
      BY <1>3
    <3> QED
      BY <3>1, <3>2
  <2>2. [Resting EXCEPT !.pc = "compare", !.todo = T] \in ChainShape
    BY <2>1 DEF Resting, ChainShape
  <2>3. [Resting EXCEPT !.pc = "compare", !.todo = T].pc = "compare" /\ [Resting EXCEPT !.pc = "compare", !.todo = T].todo = T
    BY DEF Resting
  <2> QED
    BY <2>2, <2>3
<1>18. chain' = [chain EXCEPT ![c] = r] /\ chain'[c] = r /\ \A d \in Chains \ {c} : chain'[d] = chain[d]
  BY <1>1, <1>16, <1>17
<1>19. ASSUME NEW d \in Chains PROVE PairsRightly(chain[d])'
  <2>1. CASE d = c
    <3>1. ASSUME NEW p \in r.todo PROVE \E i, j \in D : i # j /\ p = {i, j} /\ Keyed(i)' /\ Keyed(j)'
      <4>1. PICK k \in Keys', q \in Keys' : k # q /\ p = {R[k], R[q]}
        BY <1>14, <1>17, <3>1
      <4>2. R[k] \in D /\ R[q] \in D /\ R[k] # R[q]
        BY <1>14, <4>1
      <4> QED
        BY <1>7, <4>1, <4>2
    <3>2. PICK E : E = DOMAIN candidates'
      OBVIOUS
    <3>3. chain'[d] = r /\ r.pc # "merge" /\ E = D
      BY <1>4, <1>17, <1>18, <2>1, <3>2
    <3> QED
      BY <3>1, <3>2, <3>3, PairsAreRight
  <2>2. CASE d # c
    <3>1. \A i : Keyed(i) => Keyed(i)'
      BY <1>7 DEF Keyed, D
    <3>2. \A S \in SUBSET D : Closed(S)' => Closed(S)
      BY <1>8
    <3> QED
      BY <1>4, <1>8, <1>18, <2>2, <3>1, <3>2, PairsRest DEF D
  <2> QED
    BY <2>1, <2>2
<1>20. ~crossed' => ~crossed /\ \A d \in Chains : Compares(d)' => d = c
  BY <1>1, <1>18 DEF Compares
<1>21. SoloInv'
  <2> SUFFICES ASSUME ~crossed'
               PROVE  /\ \A d, e \in Chains : Compares(d)' /\ Compares(e)' => d = e
                      /\ \A i \in DOMAIN candidates' : Keyed(i)' => \E m \in DOMAIN candidates' : KeyOf(m)' = KeyOf(i)' /\ candidates'[m].name = KeyOf(i)'
                      /\ \A d \in Chains : chain'[d].pc = "merge" => \E m \in DOMAIN candidates' : KeyOf(m)' = chain'[d].keys[1]
    BY DEF SoloInv
  <2>1. ASSUME NEW i \in D PROVE \E m \in D : KeyOf(m)' = KeyOf(i)' /\ candidates'[m].name = KeyOf(i)'
    <3>1. CASE KeyOf(i) = "none"
      BY <1>5, <1>6, <3>1
    <3>2. CASE KeyOf(i) # "none"
      <4>1. PICK m \in D : KeyOf(m) = KeyOf(i) /\ candidates[m].name = KeyOf(i)
        BY <1>20, <3>2 DEF TopicsInv, SoloInv, Keyed, D
      <4> QED
        BY <1>5, <1>6, <3>2, <4>1
    <3> QED
      BY <3>1, <3>2
  <2>2. ASSUME NEW d \in Chains, chain'[d].pc = "merge" PROVE FALSE
    BY <1>17, <1>18, <1>20, <2>2 DEF Compares
  <2> QED
    BY <1>4, <1>20, <2>1, <2>2
<1>22. PairsInv'
  <2> SUFFICES ASSUME ~crossed', NEW i \in D, NEW j \in D, KeyOf(i)' # KeyOf(j)', {candidates[i].name, candidates[j].name} \in Alike
               PROVE  \E a, b \in D : KeyOf(a)' = KeyOf(i)' /\ KeyOf(b)' = KeyOf(j)' /\ Compared(a, b)'
    BY <1>4, <1>5 DEF PairsInv
  <2>0. PICK k, q : k = KeyOf(i)' /\ q = KeyOf(j)'
    OBVIOUS
  <2>1. k \in Keys' /\ q \in Keys' /\ k # q
    BY <1>4, <1>6, <2>0 DEF Keys, KeyOf
  <2>2. CASE k \notin Keys \/ q \notin Keys
    <3>1. {R[k], R[q]} \in T
      BY <1>15, <2>0, <2>1, <2>2
    <3>2. Compares(c)' /\ {R[k], R[q]} \in chain'[c].todo
      BY <1>17, <1>18, <3>1 DEF Compares
    <3>3. Compared(R[k], R[q])'
      BY <3>2 DEF Compared
    <3> QED
      BY <1>14, <2>0, <2>1, <3>3
  <2>3. CASE k \in Keys /\ q \in Keys
    <3>1. ASSUME NEW x \in D, KeyOf(x)' \in Keys
          PROVE  \E y \in D : Keyed(y) /\ KeyOf(y) = KeyOf(x)' /\ candidates[y].name = candidates[x].name
      <4>1. CASE KeyOf(x) # "none"
        BY <1>6, <4>1 DEF Keyed, D
      <4>2. CASE KeyOf(x) = "none"
        <5>1. KeyOf(x)' = candidates[x].name
          BY <1>6, <4>2
        <5>2. PICK z \in D : KeyOf(z) = KeyOf(x)' /\ Keyed(z)
          BY <3>1 DEF Keys, KeyOf, Keyed, D
        <5>3. PICK y \in D : KeyOf(y) = KeyOf(z) /\ candidates[y].name = KeyOf(z)
          BY <1>20, <5>2 DEF TopicsInv, SoloInv, D
        <5> QED
          BY <5>1, <5>2, <5>3 DEF Keyed, D
      <4> QED
        BY <4>1, <4>2
    <3>2. PICK x \in D : Keyed(x) /\ KeyOf(x) = k /\ candidates[x].name = candidates[i].name
      BY <2>0, <2>3, <3>1
    <3>3. PICK y \in D : Keyed(y) /\ KeyOf(y) = q /\ candidates[y].name = candidates[j].name
      BY <2>0, <2>3, <3>1
    <3>4. PICK a \in D, b \in D : KeyOf(a) = k /\ KeyOf(b) = q /\ Compared(a, b)
      BY <1>20, <2>1, <3>2, <3>3 DEF TopicsInv, PairsInv, D
    <3>5. Compared(a, b)'
      <4>1. CASE \E v \in judged : v.rows = {a, b}
        BY <1>1, <4>1 DEF Compared
      <4>2. CASE \E d \in Chains : Compares(d) /\ {a, b} \in chain[d].todo
        <5>1. PICK d \in Chains : Compares(d) /\ {a, b} \in chain[d].todo
          BY <4>2
        <5>2. d # c /\ crossed'
          BY <1>1, <5>1
        <5> QED
          BY <5>2
      <4> QED
        BY <3>4, <4>1, <4>2 DEF Compared
    <3>6. KeyOf(a)' = k /\ KeyOf(b)' = q
      <4>1. k # "none" /\ q # "none"
        BY <1>6, <2>0
      <4> QED
        BY <1>6, <3>4, <4>1
    <3> QED
      BY <2>0, <3>4, <3>5, <3>6
  <2> QED
    BY <2>2, <2>3
<1>23. candidates' \in Seq(TopicCandidate) /\ CandidatesOnce' /\ \A i \in DOMAIN candidates' : candidates'[i].signal \in Known
  <2>1. candidates' = [i \in DOMAIN candidates |-> candidates'[i]]
    BY <1>1, <1>4 DEF D
  <2> QED
    BY <1>4, <1>5, <2>1, Rekeyed DEF D
<1>24. LooksRightly(r)'
  BY <1>17 DEF LooksRightly
<1>25. crossed' \in BOOLEAN
  BY <1>1 DEF TopicsInv, TopicsTyped
<1> QED
  BY <1>1, <1>4, <1>5, <1>9, <1>18, <1>19, <1>21, <1>22, <1>23, <1>24, <1>25, CandidatesMove DEF D

(* A model compares two clusters.                                          *)
LEMMA CompareKeeps == ASSUME TopicsInv, NEW c \in Chains, NEW p, _compare_clusters(c, p) PROVE TopicsInv'
<1>1. /\ chain \in [Chains -> ChainShape] /\ chain[c] \in ChainShape /\ chain[c].pc = "compare" /\ p \in chain[c].todo /\ TopicTypeOK
      /\ PairsRightly(chain[c]) /\ UNCHANGED <<arrived, topics, evidence, candidates, crossed>>
  BY DEF _compare_clusters, TopicsInv, TopicsTyped, ChainsInv
<1>2. PICK i \in DOMAIN candidates, j \in DOMAIN candidates : i # j /\ p = {i, j} /\ Keyed(i) /\ Keyed(j)
  BY <1>1 DEF PairsRightly
<1>3. i \in Nat /\ j \in Nat
  BY <1>1, TopicRows
<1>4. PICK a, b : a = Least(p) /\ b = (CHOOSE x \in p : x # Least(p))
  OBVIOUS
<1>5. a \in p /\ b \in p /\ a # b
  <2>1. p \in SUBSET Nat /\ p # {}
    BY <1>2, <1>3
  <2>2. Least(p) \in p
    BY <2>1, LeastIsLeast
  <2>3. \E x \in p : x # Least(p)
    BY <1>2
  <2> QED
    BY <1>4, <2>2, <2>3
<1>6. a \in DOMAIN candidates /\ b \in DOMAIN candidates /\ p = {a, b} /\ Keyed(a) /\ Keyed(b)
  BY <1>2, <1>5
<1>7. KeyOf(a) \in Names /\ KeyOf(b) \in Names
  BY <1>1, <1>6, TopicRows, RowFields DEF Keyed, KeyOf
<1>8. PICK answer \in {"merge", "apart", "failed"} :
        /\ judged' = judged \cup {[rows |-> p, answer |-> answer]}
        /\ chain' = [chain EXCEPT ![c].todo = @ \ {p}, ![c].pc = IF answer = "merge" THEN "merge" ELSE "compare",
                                  ![c].keys = IF answer = "merge" THEN <<KeyOf(Least(p)), KeyOf(CHOOSE x \in p : x # Least(p))>> ELSE @]
  BY DEF _compare_clusters
<1>9. PICK r \in ChainShape :
        /\ chain' = [chain EXCEPT ![c] = r] /\ r.todo = chain[c].todo \ {p} /\ r.pc \in {"compare", "merge"} /\ (r.pc = "merge" <=> answer = "merge")
        /\ r.pc = "merge" => r.keys[1] = KeyOf(a) /\ r.keys[2] = KeyOf(b)
  <2>1. CASE answer = "merge"
    <3> DEFINE r == [chain[c] EXCEPT !.todo = @ \ {p}, !.pc = "merge", !.keys = <<KeyOf(a), KeyOf(b)>>]
    <3>1. chain' = [chain EXCEPT ![c].todo = @ \ {p}, ![c].pc = "merge", ![c].keys = <<KeyOf(a), KeyOf(b)>>]
      BY <1>4, <1>8, <2>1
    <3>2. chain' = [chain EXCEPT ![c] = r]
      BY <3>1
    <3>3. chain[c].todo \ {p} \subseteq Signals \cup Names \cup SUBSET Nat
      BY <1>1, ChainFields
    <3>4. r \in ChainShape /\ r.todo = chain[c].todo \ {p} /\ r.pc = "merge" /\ r.keys[1] = KeyOf(a) /\ r.keys[2] = KeyOf(b)
      BY <1>1, <1>7, <3>3 DEF ChainShape
    <3> HIDE DEF r
    <3> QED
      BY <2>1, <3>2, <3>4
  <2>2. CASE answer # "merge"
    <3> DEFINE r == [chain[c] EXCEPT !.todo = @ \ {p}, !.pc = "compare"]
    <3>1. chain' = [chain EXCEPT ![c].todo = @ \ {p}, ![c].pc = "compare", ![c].keys = @]
      BY <1>8, <2>2
    <3>2. chain' = [chain EXCEPT ![c] = [r EXCEPT !.keys = @]]
      BY <3>1
    <3>3. r \in ChainShape /\ r.todo = chain[c].todo \ {p} /\ r.pc = "compare"
      BY <1>1 DEF ChainShape
    <3>4. [r EXCEPT !.keys = @] = r
      BY <1>1 DEF ChainShape
    <3> HIDE DEF r
    <3> QED
      BY <2>2, <3>2, <3>3, <3>4
  <2> QED
    BY <2>1, <2>2
<1>10. chain'[c] = r /\ \A d \in Chains \ {c} : chain'[d] = chain[d]
  BY <1>1, <1>9
<1>11. \A x, y : Same(x, y) => Same(x, y)'
  BY <1>1, <1>8 DEF Same
<1>12. \A S \in SUBSET DOMAIN candidates : Closed(S)' => Closed(S)
  BY <1>1, <1>11 DEF Closed
<1>13. \A S \in SUBSET DOMAIN candidates : \A k : Named(S, k)' <=> Named(S, k)
  BY <1>1 DEF Named
<1>14. \A x : (Keyed(x)' <=> Keyed(x)) /\ KeyOf(x)' = KeyOf(x)
  BY <1>1 DEF Keyed, KeyOf
<1>15. KeyInv'
  <2> SUFFICES ASSUME NEW S \in SUBSET DOMAIN candidates, Closed(S)', NEW x \in S, KeyOf(x) # "none"
               PROVE  \E m \in S : candidates[m].name = KeyOf(x)
    BY <1>1, <1>14 DEF KeyInv, Named
  <2> QED
    BY <1>12 DEF TopicsInv, KeyInv, Named
<1>16. answer = "merge" => Same(b, a)'
  <2>1. p = {b, a}
    BY <1>6
  <2> QED
    BY <1>8, <2>1 DEF Same
<1>17. ASSUME answer = "merge", NEW S \in SUBSET DOMAIN candidates, Closed(S)', Named(S, KeyOf(b)) PROVE Named(S, KeyOf(a))
  <2>0. KeyInv /\ Closed(S)
    BY <1>12, <1>17 DEF TopicsInv
  <2>1. b \in S
    BY <1>6, <1>17, <2>0, NameHoldsCluster DEF Keyed
  <2>2. a \in S
    BY <1>1, <1>6, <1>16, <1>17, <2>1 DEF Closed
  <2> QED
    BY <1>6, <2>0, <2>2 DEF KeyInv, Keyed
<1>18. Named(DOMAIN candidates, KeyOf(b))
  <2>1. Closed(DOMAIN candidates)
    BY DEF Closed
  <2> QED
    BY <1>6, <2>1 DEF TopicsInv, KeyInv, Keyed
<1>19. ASSUME NEW d \in Chains PROVE PairsRightly(chain[d])'
  <2>1. CASE d = c
    <3>1. PICK D : D = DOMAIN candidates
      OBVIOUS
    <3>2. chain'[d] = r /\ D = DOMAIN candidates'
      BY <1>1, <1>10, <2>1, <3>1
    <3>3. r.pc \in {"compare", "merge"} => \A q \in r.todo : \E x, y \in D : x # y /\ q = {x, y} /\ Keyed(x)' /\ Keyed(y)'
      BY <1>1, <1>9, <1>14, <3>1 DEF PairsRightly
    <3>4. r.pc = "merge" =>
           /\ r.keys[1] \in Names /\ r.keys[2] \in Names /\ Named(D, r.keys[2])'
           /\ \A S \in SUBSET D : (Closed(S)' /\ Named(S, r.keys[2])') => Named(S, r.keys[1])'
      <4> SUFFICES ASSUME r.pc = "merge"
                   PROVE  /\ r.keys[1] \in Names /\ r.keys[2] \in Names /\ Named(D, r.keys[2])'
                          /\ \A S \in SUBSET D : (Closed(S)' /\ Named(S, r.keys[2])') => Named(S, r.keys[1])'
        OBVIOUS
      <4>1. PICK k1, k2 : k1 = r.keys[1] /\ k2 = r.keys[2]
        OBVIOUS
      <4>2. k1 = KeyOf(a) /\ k2 = KeyOf(b) /\ answer = "merge"
        BY <1>9, <4>1
      <4>3. Named(D, k2)'
        BY <1>13, <1>18, <3>1, <4>2
      <4>4. ASSUME NEW S \in SUBSET D, Closed(S)', Named(S, k2)' PROVE Named(S, k1)'
        <5>1. Named(S, k2) /\ S \in SUBSET DOMAIN candidates
          BY <1>13, <3>1, <4>4
        <5>2. Named(S, k1)
          BY <1>17, <4>2, <4>4, <5>1
        <5> QED
          BY <1>13, <5>1, <5>2
      <4> QED
        BY <1>7, <4>1, <4>2, <4>3, <4>4
    <3> QED
      BY <3>2, <3>3, <3>4, PairsAreRight
  <2>2. CASE d # c
    <3>1. chain'[d] = chain[d] /\ DOMAIN candidates' = DOMAIN candidates /\ \A x : Keyed(x) => Keyed(x)'
      BY <1>1, <1>10, <1>14, <2>2
    <3> QED
      BY <1>12, <1>13, <3>1, PairsRest
  <2> QED
    BY <2>1, <2>2
<1>20. \A d \in Chains : Compares(d)' <=> Compares(d)
  BY <1>1, <1>9, <1>10 DEF Compares
<1>21. SoloInv'
  <2> SUFFICES ASSUME ~crossed
               PROVE  /\ \A d, e \in Chains : Compares(d)' /\ Compares(e)' => d = e
                      /\ \A x \in DOMAIN candidates : Keyed(x) => \E m \in DOMAIN candidates : KeyOf(m) = KeyOf(x) /\ candidates[m].name = KeyOf(x)
                      /\ \A d \in Chains : chain'[d].pc = "merge" => \E m \in DOMAIN candidates : KeyOf(m) = chain'[d].keys[1]
    BY <1>1, <1>14 DEF SoloInv
  <2>1. ASSUME NEW d \in Chains, chain'[d].pc = "merge" PROVE \E m \in DOMAIN candidates : KeyOf(m) = chain'[d].keys[1]
    <3>1. CASE d = c
      BY <1>6, <1>9, <1>10, <2>1, <3>1
    <3>2. CASE d # c
      BY <1>10, <2>1, <3>2 DEF TopicsInv, SoloInv
    <3> QED
      BY <3>1, <3>2
  <2> QED
    BY <1>20, <2>1 DEF TopicsInv, SoloInv
<1>22. \A x, y : Compared(x, y) => Compared(x, y)'
  <2>1. ASSUME NEW x, NEW y, Compared(x, y) PROVE Compared(x, y)'
    <3>1. CASE \E v \in judged : v.rows = {x, y}
      BY <1>8, <3>1 DEF Compared
    <3>2. CASE \E d \in Chains : Compares(d) /\ {x, y} \in chain[d].todo
      <4>1. PICK d \in Chains : Compares(d) /\ {x, y} \in chain[d].todo
        BY <3>2
      <4>2. CASE {x, y} = p
        <5>1. [rows |-> p, answer |-> answer] \in judged' /\ [rows |-> p, answer |-> answer].rows = p
          BY <1>8
        <5> QED
          BY <4>2, <5>1 DEF Compared
      <4>3. CASE {x, y} # p
        <5>1. {x, y} \in chain'[d].todo /\ Compares(d)'
          BY <1>9, <1>10, <1>20, <4>1, <4>3
        <5> QED
          BY <5>1 DEF Compared
      <4> QED
        BY <4>2, <4>3
    <3> QED
      BY <2>1, <3>1, <3>2 DEF Compared
  <2> QED
    BY <2>1
<1>23. PairsInv'
  BY <1>1, <1>14, <1>22 DEF TopicsInv, PairsInv
<1>24. LooksRightly(r)'
  BY <1>9 DEF LooksRightly
<1>25. candidates' \in Seq(TopicCandidate) /\ crossed' \in BOOLEAN /\ CandidatesOnce' /\ \A x \in DOMAIN candidates' : candidates'[x].signal \in Known
  <2>1. candidates' \in Seq(TopicCandidate) /\ crossed' \in BOOLEAN
    BY <1>1 DEF TopicsInv, TopicsTyped, TopicTypeOK
  <2>2. CandidatesOnce'
    BY <1>1 DEF TopicsInv, MadeOnce, CandidatesOnce
  <2> QED
    BY <1>1, <2>1, <2>2 DEF TopicsInv, TopicsTyped
<1> QED
  BY <1>1, <1>9, <1>15, <1>19, <1>21, <1>23, <1>24, <1>25, CandidatesMove

(* The rows of one key get the other.                                      *)
LEMMA MergeKeeps == ASSUME TopicsInv, NEW c \in Chains, _merge_clusters(c) PROVE TopicsInv'
<1>0. PICK k1, k2 : k1 = chain[c].keys[1] /\ k2 = chain[c].keys[2]
  OBVIOUS
<1>1. /\ chain \in [Chains -> ChainShape] /\ chain[c] \in ChainShape /\ chain[c].pc = "merge" /\ Compares(c) /\ TopicTypeOK
      /\ PairsRightly(chain[c]) /\ UNCHANGED <<arrived, topics, evidence, judged, crossed>>
      /\ candidates' = [i \in DOMAIN candidates |-> [candidates[i] EXCEPT !.cluster_key = IF @ = k2 THEN k1 ELSE @]]
  BY <1>0 DEF _merge_clusters, TopicsInv, TopicsTyped, ChainsInv, Compares
<1>2. PICK r \in ChainShape : chain' = [chain EXCEPT ![c] = r] /\ r.pc = "compare" /\ r.todo = chain[c].todo
  <2> DEFINE r == [chain[c] EXCEPT !.pc = "compare", !.keys = Resting.keys]
  <2>1. chain' = [chain EXCEPT ![c] = r]
    BY DEF _merge_clusters
  <2>2. Resting.keys \in (Names \cup {"none"}) \X (Names \cup {"none"})
    BY DEF Resting
  <2>3. r \in ChainShape /\ r.pc = "compare" /\ r.todo = chain[c].todo
    BY <1>1, <2>2 DEF ChainShape
  <2> HIDE DEF r
  <2> QED
    BY <2>1, <2>3
<1>3. chain'[c] = r /\ \A d \in Chains \ {c} : chain'[d] = chain[d]
  BY <1>1, <1>2
<1>4. /\ k1 \in Names /\ k2 \in Names /\ k1 # "none" /\ k2 # "none"
      /\ \A S \in SUBSET DOMAIN candidates : (Closed(S) /\ Named(S, k2)) => Named(S, k1)
  <2>1. "none" \notin Names
    BY TopicsAssumption
  <2> QED
    BY <1>0, <1>1, <2>1 DEF PairsRightly
<1> DEFINE D == DOMAIN candidates
<1> DEFINE key(i) == IF KeyOf(i) = k2 THEN k1 ELSE KeyOf(i)
<1>5. DOMAIN candidates' = D
  BY <1>1
<1>6. \A i \in D : candidates[i] \in TopicCandidate /\ KeyOf(i) \in Names \cup {"none"}
  BY <1>1, TopicRows, RowFields DEF KeyOf
<1>7. ASSUME NEW i \in D
      PROVE  /\ candidates'[i] \in TopicCandidate /\ candidates'[i].signal = candidates[i].signal /\ candidates'[i].seen = candidates[i].seen
             /\ candidates'[i].name = candidates[i].name /\ KeyOf(i)' = key(i)
  <2>1. candidates'[i] = [candidates[i] EXCEPT !.cluster_key = key(i)]
    BY <1>1 DEF KeyOf
  <2>2. key(i) \in Names \cup {"none"}
    BY <1>4, <1>6
  <2> HIDE DEF key
  <2> QED
    BY <1>6, <2>1, <2>2 DEF KeyOf, TopicCandidate
<1>8. /\ \A i \in D : KeyOf(i) = k2 => KeyOf(i)' = k1
      /\ \A i \in D : KeyOf(i) # k2 => KeyOf(i)' = KeyOf(i)
      /\ \A i, j \in D : KeyOf(i) = KeyOf(j) => KeyOf(i)' = KeyOf(j)'
  BY <1>7
<1> HIDE DEF D, key
<1>9. \A i : Keyed(i)' <=> Keyed(i)
  BY <1>4, <1>5, <1>8 DEF Keyed, D
<1>10. /\ \A S \in SUBSET D : Closed(S)' <=> Closed(S)
       /\ \A S \in SUBSET D : \A k : Named(S, k)' <=> Named(S, k)
  BY <1>1, <1>5, <1>7, KeysOnly DEF D
<1>11. KeyInv'
  <2> SUFFICES ASSUME NEW S \in SUBSET D, Closed(S)', NEW i \in S, KeyOf(i)' # "none" PROVE \E m \in S : candidates'[m].name = KeyOf(i)'
    BY <1>5 DEF KeyInv, Named
  <2>1. Closed(S) /\ KeyOf(i) # "none" /\ i \in D
    BY <1>4, <1>8, <1>10
  <2>2. Named(S, KeyOf(i))
    BY <2>1 DEF TopicsInv, KeyInv, D
  <2>3. CASE KeyOf(i) = k2
    <3>1. Named(S, k1)
      BY <1>4, <2>1, <2>2, <2>3 DEF D
    <3> QED
      BY <1>7, <1>8, <2>1, <2>3, <3>1 DEF Named
  <2>4. CASE KeyOf(i) # k2
    BY <1>7, <1>8, <2>1, <2>2, <2>4 DEF Named
  <2> QED
    BY <2>3, <2>4
<1>12. ASSUME NEW d \in Chains PROVE PairsRightly(chain[d])'
  <2>1. CASE d = c
    <3>1. PICK E : E = DOMAIN candidates'
      OBVIOUS
    <3>2. chain'[d] = r /\ E = D
      BY <1>3, <1>5, <2>1, <3>1
    <3>3. r.pc \in {"compare", "merge"} => \A q \in r.todo : \E x, y \in E : x # y /\ q = {x, y} /\ Keyed(x)' /\ Keyed(y)'
      BY <1>1, <1>2, <1>9, <3>2 DEF PairsRightly, D
    <3> QED
      BY <1>2, <3>1, <3>2, <3>3, PairsAreRight
  <2>2. CASE d # c
    <3>1. chain'[d] = chain[d] /\ DOMAIN candidates' = DOMAIN candidates /\ \A x : Keyed(x) => Keyed(x)'
      BY <1>3, <1>5, <1>9, <2>2 DEF D
    <3> QED
      BY <1>10, <3>1, PairsRest DEF D
  <2> QED
    BY <2>1, <2>2
<1>13. \A d \in Chains : Compares(d)' <=> Compares(d)
  BY <1>1, <1>2, <1>3 DEF Compares
<1>14. SoloInv'
  <2> SUFFICES ASSUME ~crossed
               PROVE  /\ \A d, e \in Chains : Compares(d)' /\ Compares(e)' => d = e
                      /\ \A x \in D : Keyed(x)' => \E m \in D : KeyOf(m)' = KeyOf(x)' /\ candidates'[m].name = KeyOf(x)'
                      /\ \A d \in Chains : chain'[d].pc = "merge" => \E m \in D : KeyOf(m)' = chain'[d].keys[1]
    BY <1>1, <1>5 DEF SoloInv
  <2>1. /\ \A d, e \in Chains : Compares(d) /\ Compares(e) => d = e
        /\ \A x \in D : Keyed(x) => \E m \in D : KeyOf(m) = KeyOf(x) /\ candidates[m].name = KeyOf(x)
        /\ \E m \in D : KeyOf(m) = k1
    BY <1>0, <1>1 DEF TopicsInv, SoloInv, D
  <2>2. ASSUME NEW x \in D, Keyed(x)' PROVE \E m \in D : KeyOf(m)' = KeyOf(x)' /\ candidates'[m].name = KeyOf(x)'
    <3>0. Keyed(x)
      BY <1>9, <2>2
    <3>1. CASE KeyOf(x) # k2
      <4>1. PICK m \in D : KeyOf(m) = KeyOf(x) /\ candidates[m].name = KeyOf(x)
        BY <2>1, <3>0
      <4> QED
        BY <1>7, <1>8, <3>1, <4>1
    <3>2. CASE KeyOf(x) = k2
      <4>1. PICK y \in D : KeyOf(y) = k1
        BY <2>1
      <4>2. Keyed(y)
        BY <1>4, <4>1 DEF Keyed, D
      <4>3. PICK m \in D : KeyOf(m) = k1 /\ candidates[m].name = k1
        BY <2>1, <4>1, <4>2
      <4>4. KeyOf(m)' = k1 /\ KeyOf(x)' = k1
        BY <1>8, <3>2, <4>3
      <4> QED
        BY <1>7, <4>3, <4>4
    <3> QED
      BY <3>1, <3>2
  <2>3. ASSUME NEW d \in Chains, chain'[d].pc = "merge" PROVE FALSE
    <3>1. Compares(d)' /\ d # c
      BY <1>2, <1>3, <2>3 DEF Compares
    <3> QED
      BY <1>1, <1>13, <2>1, <3>1
  <2> QED
    BY <1>13, <2>1, <2>2, <2>3
<1>15. \A x, y : Compared(x, y) => Compared(x, y)'
  <2>1. \A d \in Chains : chain'[d].todo = chain[d].todo
    BY <1>2, <1>3
  <2> QED
    BY <1>1, <1>13, <2>1 DEF Compared
<1>16. PairsInv'
  <2> SUFFICES ASSUME ~crossed, NEW i \in DOMAIN candidates', NEW j \in DOMAIN candidates', Keyed(i)', Keyed(j)', KeyOf(i)' # KeyOf(j)',
                      {candidates'[i].name, candidates'[j].name} \in Alike
               PROVE  \E a, b \in DOMAIN candidates' : KeyOf(a)' = KeyOf(i)' /\ KeyOf(b)' = KeyOf(j)' /\ Compared(a, b)'
    BY <1>1 DEF PairsInv
  <2>0. i \in D /\ j \in D /\ {candidates[i].name, candidates[j].name} \in Alike
    BY <1>5, <1>7
  <2>1. Keyed(i) /\ Keyed(j) /\ KeyOf(i) # KeyOf(j)
    BY <1>8, <1>9, <2>0
  <2>2. PICK a \in D, b \in D : KeyOf(a) = KeyOf(i) /\ KeyOf(b) = KeyOf(j) /\ Compared(a, b)
    BY <2>0, <2>1 DEF TopicsInv, PairsInv, D
  <2> QED
    BY <1>5, <1>8, <1>15, <2>0, <2>2
<1>17. candidates' \in Seq(TopicCandidate) /\ CandidatesOnce' /\ \A i \in DOMAIN candidates' : candidates'[i].signal \in Known
  <2>1. candidates' = [i \in DOMAIN candidates |-> candidates'[i]]
    BY <1>1, <1>5 DEF D
  <2> QED
    BY <1>5, <1>7, <2>1, Rekeyed DEF D
<1>18. LooksRightly(r)'
  BY <1>2 DEF LooksRightly
<1>19. crossed' \in BOOLEAN
  BY <1>1 DEF TopicsInv, TopicsTyped
<1> QED
  BY <1>1, <1>2, <1>5, <1>7, <1>11, <1>12, <1>14, <1>16, <1>17, <1>18, <1>19, CandidatesMove DEF D

(* What a dying sweep had still to compare counts as failed.               *)
LEMMA DieKeeps == ASSUME TopicsInv, NEW c \in Chains, DieTopics(c) PROVE TopicsInv'
<1>1. /\ chain \in [Chains -> ChainShape] /\ chain' = [chain EXCEPT ![c] = Resting]
      /\ UNCHANGED <<arrived, topics, evidence, candidates, crossed>>
  BY DEF DieTopics, TopicsInv, TopicsTyped
<1>2. chain'[c] = Resting /\ \A d \in Chains \ {c} : chain'[d] = chain[d]
  BY <1>1
<1>3. /\ judged \subseteq judged'
      /\ \A v \in judged' \ judged : v.answer = "failed"
      /\ Compares(c) => \A p \in chain[c].todo : \E v \in judged' : v.rows = p
  <2>1. CASE Compares(c)
    <3>1. judged' = judged \cup [rows : chain[c].todo, answer : {"failed"}]
      BY <2>1 DEF DieTopics, Compares
    <3>2. ASSUME NEW p \in chain[c].todo PROVE \E v \in judged' : v.rows = p
      <4>1. [rows |-> p, answer |-> "failed"] \in judged' /\ [rows |-> p, answer |-> "failed"].rows = p
        BY <3>1
      <4> QED
        BY <4>1
    <3> QED
      BY <3>1, <3>2
  <2>2. CASE ~Compares(c)
    BY <2>2 DEF DieTopics, Compares
  <2> QED
    BY <2>1, <2>2
<1>4. \A x, y : Same(x, y)' <=> Same(x, y)
  <2>1. \A x, y : [rows |-> {x, y}, answer |-> "merge"].answer # "failed"
    OBVIOUS
  <2>2. \A x, y : [rows |-> {x, y}, answer |-> "merge"] \in judged' <=> [rows |-> {x, y}, answer |-> "merge"] \in judged
    BY <1>3, <2>1
  <2> QED
    BY <1>1, <2>2 DEF Same
<1>5. \A S \in SUBSET DOMAIN candidates : Closed(S)' <=> Closed(S)
  BY <1>1, <1>4 DEF Closed
<1>6. \A S \in SUBSET DOMAIN candidates : \A k : Named(S, k)' <=> Named(S, k)
  BY <1>1 DEF Named
<1>7. \A x : (Keyed(x)' <=> Keyed(x)) /\ KeyOf(x)' = KeyOf(x)
  BY <1>1 DEF Keyed, KeyOf
<1>8. KeyInv'
  <2> SUFFICES ASSUME NEW S \in SUBSET DOMAIN candidates, Closed(S)', NEW x \in S, KeyOf(x) # "none"
               PROVE  \E m \in S : candidates[m].name = KeyOf(x)
    BY <1>1, <1>7 DEF KeyInv, Named
  <2> QED
    BY <1>5 DEF TopicsInv, KeyInv, Named
<1>9. ASSUME NEW d \in Chains PROVE PairsRightly(chain[d])'
  <2>1. CASE d = c
    <3>1. PairsRightly(Resting)'
      BY DEF PairsRightly, Resting
    <3> QED
      BY <1>2, <2>1, <3>1 DEF PairsRightly
  <2>2. CASE d # c
    <3>1. chain'[d] = chain[d] /\ DOMAIN candidates' = DOMAIN candidates /\ \A x : Keyed(x) => Keyed(x)'
      BY <1>1, <1>2, <1>7, <2>2
    <3> QED
      BY <1>5, <1>6, <3>1, PairsRest
  <2> QED
    BY <2>1, <2>2
<1>10. \A d \in Chains : chain'[d].pc \in {"compare", "merge"} => d # c /\ chain'[d] = chain[d] /\ Compares(d)
  BY <1>2, RestingIsChain DEF Compares
<1>11. SoloInv'
  <2> SUFFICES ASSUME ~crossed
               PROVE  /\ \A d, e \in Chains : Compares(d)' /\ Compares(e)' => d = e
                      /\ \A x \in DOMAIN candidates : Keyed(x) => \E m \in DOMAIN candidates : KeyOf(m) = KeyOf(x) /\ candidates[m].name = KeyOf(x)
                      /\ \A d \in Chains : chain'[d].pc = "merge" => \E m \in DOMAIN candidates : KeyOf(m) = chain'[d].keys[1]
    BY <1>1, <1>7 DEF SoloInv
  <2>1. \A d \in Chains : Compares(d)' => Compares(d)
    BY <1>10 DEF Compares
  <2>2. \A d \in Chains : chain'[d].pc = "merge" => chain'[d] = chain[d]
    BY <1>10
  <2> QED
    BY <2>1, <2>2 DEF TopicsInv, SoloInv
<1>12. \A x, y : Compared(x, y) => Compared(x, y)'
  <2>1. ASSUME NEW x, NEW y, Compared(x, y) PROVE Compared(x, y)'
    <3>1. CASE \E v \in judged : v.rows = {x, y}
      BY <1>3, <3>1 DEF Compared
    <3>2. CASE \E d \in Chains : Compares(d) /\ {x, y} \in chain[d].todo
      <4>1. PICK d \in Chains : Compares(d) /\ {x, y} \in chain[d].todo
        BY <3>2
      <4>2. CASE d = c
        BY <1>3, <4>1, <4>2 DEF Compared
      <4>3. CASE d # c
        <5>1. {x, y} \in chain'[d].todo /\ Compares(d)'
          BY <1>2, <4>1, <4>3 DEF Compares
        <5> QED
          BY <5>1 DEF Compared
      <4> QED
        BY <4>2, <4>3
    <3> QED
      BY <2>1, <3>1, <3>2 DEF Compared
  <2> QED
    BY <2>1
<1>13. PairsInv'
  BY <1>1, <1>7, <1>12 DEF TopicsInv, PairsInv
<1>14. LooksRightly(Resting)'
  BY DEF LooksRightly, Resting
<1>15. candidates' \in Seq(TopicCandidate) /\ crossed' \in BOOLEAN /\ CandidatesOnce' /\ \A x \in DOMAIN candidates' : candidates'[x].signal \in Known
  <2>1. candidates' \in Seq(TopicCandidate) /\ crossed' \in BOOLEAN
    BY <1>1 DEF TopicsInv, TopicsTyped, TopicTypeOK
  <2>2. CandidatesOnce'
    BY <1>1 DEF TopicsInv, MadeOnce, CandidatesOnce
  <2> QED
    BY <1>1, <2>1, <2>2 DEF TopicsInv, TopicsTyped
<1> QED
  BY <1>1, <1>8, <1>9, <1>11, <1>13, <1>14, <1>15, RestingIsChain, CandidatesMove

-----------------------------------------------------------------------------
(* Every step of the chains keeps the invariant.                           *)
LEMMA TopicsKeep == TopicsInv /\ [TopicNext]_topicVars => TopicsInv'
<1> SUFFICES ASSUME TopicsInv, [TopicNext]_topicVars PROVE TopicsInv'
  OBVIOUS
<1>1. CASE UNCHANGED topicVars
  BY <1>1, TopicsRest
<1>2. CASE Sense
  BY <1>2, SenseKeeps
<1>3. ASSUME NEW c \in Chains, TopicStep(c) PROVE TopicsInv'
  <2>1. CASE StartLinking(c) \/ _get_or_create_content_topic(c) \/ LinkRead(c) \/ LinkCommit(c)
    BY <2>1, StartLinkingKeeps, ConfiguredTopicKeeps, LinkReadKeeps, LinkCommitKeeps
  <2>2. CASE ExtractNext(c) \/ extract_topic_candidate(c) \/ AssignKeys(c) \/ _merge_clusters(c) \/ EndNormalization(c)
    BY <2>2, ExtractNextKeeps, ExtractKeeps, AssignKeeps, MergeKeeps, EndNormalizationKeeps
  <2>3. CASE \E p \in chain[c].todo : chain[c].pc = "compare" /\ (SkipPair(c, p) \/ _compare_clusters(c, p))
    BY <2>3, SkipPairKeeps, CompareKeeps
  <2>4. CASE StartPromotion(c) \/ (\E k \in Keys : EvaluateCluster(c, k)) \/ promote_cluster(c) \/ EndChain(c)
    BY <2>4, StartPromotionKeeps, EvaluateKeeps, PromoteKeeps, EndChainKeeps
  <2>5. CASE DieTopics(c)
    BY <2>5, DieKeeps
  <2> QED
    BY <1>3, <2>1, <2>2, <2>3, <2>4, <2>5 DEF TopicStep
<1> QED
  BY <1>1, <1>2, <1>3 DEF TopicNext

(* The rules of the content, as the sessions' run checks them: rows are    *)
(* made once but by chains that overlap, evidence is single and a topic    *)
(* that was discovered rests on enough entities, clusters follow the       *)
(* verdicts and no pair is lost while one sweep compares, what was         *)
(* reviewed or posted is not taken back; for all numbers of chains,        *)
(* signals, names, desks and faults.                                       *)
THEOREM ContentRulesHold == ContentSpec => ContentRules
<1> DEFINE Inv == TopicsInv /\ WritingInv
<1>1. ContentInit => Inv
  BY TopicsStart, WritingStarts DEF ContentInit
<1>2. Inv /\ [ContentNext]_contentVars => Inv'
  <2> SUFFICES ASSUME Inv, [ContentNext]_contentVars PROVE Inv'
    OBVIOUS
  <2>1. [TopicNext]_topicVars /\ [WritingNext]_writingVars
    BY DEF ContentNext, contentVars
  <2> QED
    BY <2>1, TopicsKeep, WritingKeeps
<1>3. Inv => TopicTypeOK /\ WritingTypeOK /\ TopicRules /\ OneIdeaPerTopic /\ NamedOnce /\ DraftsWereApproved /\ PillarWhole
  <2>1. TopicsInv => TopicTypeOK /\ TopicRules
    BY ClustersFollow, PairsFollow DEF TopicsInv, TopicsTyped, TopicRules
  <2>2. WritingInv => WritingTypeOK /\ OneIdeaPerTopic /\ NamedOnce /\ DraftsWereApproved /\ PillarWhole
    <3>1. WritingInv => WritingTypeOK /\ OneIdeaPerTopic /\ DraftsWereApproved /\ PillarWhole
      BY DEF WritingInv, DesksTyped
    <3>2. WritingInv => NamedOnce
      <4> SUFFICES ASSUME WritingInv PROVE NamedOnce
        OBVIOUS
      <4>1. \A m \in DOMAIN named : m \in Nat /\ m > 0 /\ named[m] = 0
        BY DEF WritingInv, DesksTyped, WritingTypeOK, NamesInv
      <4> QED
        BY <4>1 DEF NamedOnce
    <3> QED
      BY <3>1, <3>2
  <2> QED
    BY <2>1, <2>2
<1>4. Inv /\ [ContentNext]_contentVars =>
        [\A i \in DOMAIN ideas :
           /\ ideas'[i].status # ideas[i].status => ideas[i].status = "candidate"
           /\ \A p \in ideas[i].drafts \ ideas'[i].drafts :
                \E d \in Desks : desk[d].pc = "store" /\ desk[d].idea = i /\ p \notin desk[d].had]_ideas
  <2> SUFFICES ASSUME Inv, [ContentNext]_contentVars, ideas' # ideas, NEW i \in DOMAIN ideas PROVE IdeaKept(i)
    BY DEF IdeaKept
  <2>1. WritingNext
    BY DEF ContentNext, contentVars, writingVars
  <2> QED
    BY <2>1, IdeasAreKept
<1> QED
  BY <1>1, <1>2, <1>3, <1>4, PTL DEF ContentSpec, ContentRules, WritingKept
=============================================================================
