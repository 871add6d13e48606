---------------------------- MODULE MCSessions ------------------------------
(* What requests and instances do to the same rows at once, on small       *)
(* instances: sessions that write, review and send drafts, and instances   *)
(* and an operator that write the configuration of the partner's daily     *)
(* run, the boots that make the schema converge while an older process     *)
(* serves, the chains that make topics of signals, and the requests that   *)
(* write about them.  They share no state: `component` says which one a    *)
(* behaviour is about.                                                     *)
EXTENDS DraftSend, PartnerDailyRun, SchemaBoot, Content, TLC

VARIABLE component

draftVars == vars
sessionsVars == <<component, draftVars, partnerVars, schemaVars, topicVars, writingVars>>

(* Who speaks in the signals, and what each is about.                      *)
Speakers == <<"x", "x", "y">>
Subjects == <<"a", "a", "b">>
Similar == {{"a", "b"}}

(* The daily run starts with every objective on, or none: the operator's   *)
(* edit then gives every other choice.                                     *)
Start ==
  /\ component \in {"drafts", "partner", "schema", "topics", "writing"}
  /\ Init /\ PartnerInit /\ SchemaInit /\ TopicInit /\ WritingInit
  /\ component # "partner" => runConfig = AllOff
  /\ \A o, q \in Objectives : runConfig.on[o] = runConfig.on[q]
  /\ component # "schema" => serving = "none"
  /\ component # "writing" => part = "ideas"

DraftStep == component = "drafts" /\ Next /\ UNCHANGED <<partnerVars, schemaVars, topicVars, writingVars>>
PartnerStep == component = "partner" /\ PartnerNext /\ UNCHANGED <<draftVars, schemaVars, topicVars, writingVars>>
SchemaStep == component = "schema" /\ SchemaNext /\ UNCHANGED <<draftVars, partnerVars, topicVars, writingVars>>
TopicsStep == component = "topics" /\ TopicNext /\ UNCHANGED <<draftVars, partnerVars, schemaVars, writingVars>>
WritingStep == component = "writing" /\ WritingNext /\ UNCHANGED <<draftVars, partnerVars, schemaVars, topicVars>>

Steps == UNCHANGED component /\ (DraftStep \/ PartnerStep \/ SchemaStep \/ TopicsStep \/ WritingStep)

Together == Start /\ [][Steps]_sessionsVars

(* Sessions and hosts have the same names in the cfg.                      *)
Symmetry == Permutations(Sessions) \cup Permutations(Drafts)

(* The rules of the boot: it makes whatever it could have made, the next   *)
(* puts right what was written beside it, and none gives uniqueness up;    *)
(* its variables have their types.                                         *)
SchemaRules == GuardsStay /\ [](SchemaTypeOK /\ BootCompletes /\ SecondBootHeals)
=============================================================================
