---------------------------- MODULE MCDiscovery ----------------------------
(* The scheduled intelligence run, the hiring play it calls, the sourcing  *)
(* route that fills the same tables from a request and the discovery of a  *)
(* V1 run, on small instances.  `component` says which one a behaviour is  *)
(* about: the run only waits for the play (IntelligenceRun!RunPlays), and  *)
(* the others do not run beside it here.  Two scenes keep the last two     *)
(* small: one run at a time with every fault, or two that overlap without  *)
(* faults, on one day while Crustdata's circuit breaker is open (Sourcing) *)
(* or on one domain each at a time (V1Discovery).                          *)
EXTENDS IntelligenceRun, HiringPlay, Sourcing, V1Discovery, TLC

VARIABLES component, scene

intelligenceVars == vars
discoveryVars == <<component, scene, intelligenceVars, hiringVars, sourcingVars, v1Vars>>

Start ==
  /\ component \in {"run", "play", "sourcing", "v1"} /\ scene \in {"alone", "overlap"}
  /\ Init /\ HiringInit /\ SourcingInit /\ V1Init
  /\ component # "play" => ~linkedinOnly
  /\ component \notin {"sourcing", "v1"} => scene = "alone"
  /\ strikes = [p \in FirmProviders |-> IF scene = "overlap" /\ p = "crustdata" THEN BreakAt ELSE 0]

RunStep == component = "run" /\ Next /\ UNCHANGED <<hiringVars, sourcingVars, v1Vars>>
PlayStep == component = "play" /\ HiringNext /\ UNCHANGED <<intelligenceVars, sourcingVars, v1Vars>>
SourcingStep ==
  /\ component = "sourcing" /\ SourcingNext /\ UNCHANGED <<intelligenceVars, hiringVars, v1Vars>>
  /\ IF scene = "alone" THEN ~firmsMet' ELSE firmFaults' = 0 /\ leadToday \subseteq leadToday' /\ firmRun' # firmRun
V1CycleStep ==
  /\ component = "v1" /\ V1Next /\ UNCHANGED <<intelligenceVars, hiringVars, sourcingVars>>
  /\ IF scene = "alone" THEN crossed' = {} ELSE v1Faults' = 0 /\ \A r \in V1Runs : Cardinality(v1'[r].todo) < 2

Steps == UNCHANGED <<component, scene>> /\ (RunStep \/ PlayStep \/ SourcingStep \/ V1CycleStep)

Discovery == Start /\ [][Steps]_discoveryVars

(* Instances, play runs, route requests and V1 runs have the same names in the cfg. *)
Symmetry == Permutations(Instances) \cup Permutations(RunIds)
=============================================================================
