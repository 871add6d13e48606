------------------------------ MODULE MCCycles ------------------------------
(* What must end once it began, with the fairness of the process that runs *)
(* it: a call of the LLM router, and the V1 cycle with its approval sweep. *)
(* They share no state: `component` says which one a behaviour is about.   *)
EXTENDS LlmRouter, AutonomousCycle, TLC

VARIABLE component

routerVars == vars
cyclesVars == <<component, routerVars, cycleVars>>

Apart == [c \in Callers |-> c]

Start == component \in {"router", "cycle"} /\ Init /\ CycleInit

RouterStep == component = "router" /\ Next /\ UNCHANGED cycleVars
CycleTurn == component = "cycle" /\ CycleNext /\ UNCHANGED routerVars

Steps == UNCHANGED component /\ (RouterStep \/ CycleTurn)

(* LlmRouter!LiveSpec and CycleFairness, of the component that runs.       *)
Talk(c) == component = "router" /\ Proceed(c) /\ UNCHANGED <<component, cycleVars>>
Sweep(e) == component = "cycle" /\ SweepStep(e) /\ UNCHANGED <<component, routerVars>>

Cyclic ==
  /\ Start /\ [][Steps]_cyclesVars
  /\ \A c \in Callers : WF_cyclesVars(Talk(c))
  /\ \A e \in Sweeps : WF_cyclesVars(Sweep(e))
=============================================================================
