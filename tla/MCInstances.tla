---------------------------- MODULE MCInstances ----------------------------
(* What the instances of the process and the requests they serve do beside *)
(* one another, on small instances: they share the LLM router's table of   *)
(* exhausted models, the open run of the V1 cycle, what the LinkedIn       *)
(* monitor knows, and the recommendations to partners.  These share no     *)
(* state: `component` says which one a behaviour is about.                 *)
EXTENDS LlmRouter, AutonomousCycle, PartnerMonitor, PartnerReferrals, TLC

VARIABLE component

routerVars == vars
instancesVars == <<component, routerVars, cycleVars, monitorVars, referralVars>>

Apart == [c \in Callers |-> c]

Start ==
  /\ component \in {"router", "cycle", "monitor", "referrals"}
  /\ Init /\ CycleInit /\ MonitorInit /\ ReferralInit
  /\ component # "monitor" => scene = "monitor" /\ \A p \in Watched : profiles[p].checked = Unchecked

RouterStep == component = "router" /\ Next /\ UNCHANGED <<cycleVars, monitorVars, referralVars>>
CycleTurn == component = "cycle" /\ CycleNext /\ UNCHANGED <<routerVars, monitorVars, referralVars>>
MonitorTurn == component = "monitor" /\ MonitorNext /\ UNCHANGED <<routerVars, cycleVars, referralVars>>
ReferralTurn == component = "referrals" /\ ReferralNext /\ UNCHANGED <<routerVars, cycleVars, monitorVars>>

Steps == UNCHANGED component /\ (RouterStep \/ CycleTurn \/ MonitorTurn \/ ReferralTurn)

Beside == Start /\ [][Steps]_instancesVars

(* Threads, V1 cycles, sweeps and clerks have the same names in the cfg.   *)
Symmetry == Permutations(Callers)
=============================================================================
