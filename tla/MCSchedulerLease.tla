-------------------------- MODULE MCSchedulerLease --------------------------
(* SchedulerLease on a small instance: instances are interchangeable.      *)
EXTENDS SchedulerLease, TLC

Symmetry == Permutations(Instances)
=============================================================================
