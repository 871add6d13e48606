---------------------------- MODULE JobExclusion ----------------------------
(***************************************************************************)
(* What a lease promises the jobs that run under it: at most one worker is *)
(* a protected holder, and protection never passes from one worker to      *)
(* another without a moment in which nobody is protected.                  *)
(***************************************************************************)
CONSTANT Workers

VARIABLE holders  \* the workers whose right to run is protected now

Init == holders = {}

Take(w) == holders = {} /\ holders' = {w}

Lapse == holders # {} /\ holders' = {}

Next == Lapse \/ \E w \in Workers : Take(w)

Spec == Init /\ [][Next]_holders
=============================================================================
