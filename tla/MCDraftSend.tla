---------------------------- MODULE MCDraftSend ----------------------------
(* DraftSend on a small instance; sessions and draft ids are each          *)
(* interchangeable.                                                        *)
EXTENDS DraftSend, TLC

Symmetry == Permutations(Sessions) \cup Permutations(Drafts)
=============================================================================
