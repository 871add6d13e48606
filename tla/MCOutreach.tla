----------------------------- MODULE MCOutreach -----------------------------
(* One session that writes, reviews and sends the drafts of a company, and *)
(* the sequence that decides whose draft comes next, and the sweeps and    *)
(* gates that say which company matches an ICP at all, on small instances. *)
(* The sequence sees of a draft only what OutreachSequence!rowOf says of   *)
(* it, and neither sees the matches, so they share no variable:            *)
(* `component` says which one a behaviour is about.  The matches have two  *)
(* scenes: "firms", two companies and one worker at a time, and "firm",    *)
(* one company, its edits, and two workers at once.                        *)
EXTENDS DraftSend, OutreachSequence, IcpMatching, TLC

VARIABLE component

draftVars == vars
outreachVars == <<component, draftVars, sequenceVars, icpVars>>

(* A staffing company whose proxy is not trusted, and a smaller one with   *)
(* or without a posting; an ICP by revenue, sales team and role, and one   *)
(* by headcount and the absence of a role.                                 *)
firmFacts(employees, role, passThrough) ==
  [employees |-> employees, lower |-> Unknown, higher |-> Unknown, salesShare |-> Unknown,
   role |-> role, passThrough |-> passThrough]
MCFirmFacts == {firmFacts(6, "ae", FALSE), firmFacts(6, Unknown, FALSE), firmFacts(20, "ae", TRUE)}
MCIcps ==
  {[id |-> "icp_1", revenueMin |-> 10, revenueMax |-> 30, employeeMin |-> Unknown, employeeMax |-> Unknown,
    salesMax |-> 3, presence |-> TRUE, roles |-> {"ae"}],
   [id |-> "icp_3", revenueMin |-> Unknown, revenueMax |-> Unknown, employeeMin |-> 3, employeeMax |-> 8,
    salesMax |-> Unknown, presence |-> FALSE, roles |-> {"sdr"}]}

(* Without companies, for the other components.                            *)
NoFirms == IcpInit /\ firm = [c \in Firms |-> Unknown]

Start ==
  /\ Init /\ SequenceInit
  /\ \/ component \in {"drafts", "sequence"} /\ NoFirms
     \/ component = "firms" /\ IcpInit
     \/ component = "firm" /\ IcpInit /\ Cardinality(OnFile) = 1

DraftStep == component = "drafts" /\ Next /\ UNCHANGED <<sequenceVars, icpVars>>
SequenceStep == component = "sequence" /\ SequenceNext /\ UNCHANGED <<draftVars, icpVars>>
MatchStep ==
  /\ component \in {"firms", "firm"} /\ IcpNext /\ UNCHANGED <<draftVars, sequenceVars>>
  /\ component = "firms" => edits' = 0 /\ \A w \in IcpWorkers : w > 1 => icpWorker'[w] = NoWork
  /\ component = "firm" => icpDay' < 2
  /\ \A w \in IcpWorkers : icpWorker[w] = NoWork /\ icpWorker'[w] # NoWork => \A v \in 1..w - 1 : icpWorker[v] # NoWork

Steps == UNCHANGED component /\ (DraftStep \/ SequenceStep \/ MatchStep)

Outreach == Start /\ [][Steps]_outreachVars

(* The sequencers and the companies have the names of the drafts in the    *)
(* cfg.  The workers are numbered, and the first that is free begins.      *)
Symmetry == Permutations(Drafts)
=============================================================================
