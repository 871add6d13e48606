---------------------------- MODULE MCSpendLedger ---------------------------
(* SpendLedger on a small instance; callers are interchangeable.           *)
EXTENDS SpendLedger, TLC

Symmetry == Permutations(Callers)
=============================================================================
