------------------------------ MODULE Content ------------------------------
(***************************************************************************)
(* The topics that are made of signals, and what is written about topics,  *)
(* side by side: a topic that is written about is one that was made, and   *)
(* the two share no further state.                                         *)
(***************************************************************************)
EXTENDS ContentTopics, ContentWriting

contentVars == <<topicVars, writingVars>>

ContentInit == TopicInit /\ WritingInit

ContentNext ==
  \/ TopicNext /\ UNCHANGED writingVars
  \/ WritingNext /\ UNCHANGED topicVars

ContentSpec == ContentInit /\ [][ContentNext]_contentVars

-----------------------------------------------------------------------------
(* The rules of the content: rows are made once but for chains that        *)
(* overlap, clusters follow the verdicts, and what an operator reviewed or *)
(* a request wrote is not taken back; the variables have their types.      *)
ContentRules ==
  /\ WritingKept
  /\ [](TopicTypeOK /\ WritingTypeOK /\ TopicRules /\ OneIdeaPerTopic /\ NamedOnce /\ DraftsWereApproved /\ PillarWhole)
=============================================================================
