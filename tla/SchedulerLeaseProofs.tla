------------------------ MODULE SchedulerLeaseProofs ------------------------
(***************************************************************************)
(* Proofs about SchedulerLease, for every set of instances, TTL, skew and  *)
(* bound: the type invariant, the mutual exclusion of fresh holders and    *)
(* the refinement of JobExclusion.                                         *)
(***************************************************************************)
EXTENDS SchedulerLease, TLAPS

(* The inductive invariant.  FreshHolderOwnsRow needs SeenInPast: a stale  *)
(* `now` may steal only what it sees expired, and it lies in the past.     *)
IInv == TypeOK /\ SeenInPast /\ FreshHolderOwnsRow

(* A clock reading is a natural number at most MaxSkew ahead of true time. *)
LEMMA UtcNowBound ==
  ASSUME TypeOK, NEW i \in Instances
  PROVE  UtcNow(i) \in Nat /\ UtcNow(i) <= clock + MaxSkew
BY LeaseAssumption DEF TypeOK, UtcNow

(* The initial states satisfy the inductive invariant. *)
LEMMA InitIInv == Init => IInv
BY LeaseAssumption DEF Init, IInv, TypeOK, SeenInPast, FreshHolderOwnsRow, Fresh, PCs

(* Type correctness is preserved by every step. *)
LEMMA TypeStep == TypeOK /\ [Next]_vars => TypeOK'
<1> SUFFICES ASSUME TypeOK, [Next]_vars PROVE TypeOK'
  OBVIOUS
<1> USE LeaseAssumption DEF TypeOK, PCs
<1>1. CASE UNCHANGED vars
  BY <1>1 DEF vars
<1>2. CASE Tick
  BY <1>2 DEF Tick
<1>3. ASSUME NEW i \in Instances, Step(i) PROVE TypeOK'
  <2>1. CASE StartTick(i)
    BY <2>1, UtcNowBound DEF StartTick
  <2>2. CASE TryAcquire(i)
    BY <2>2 DEF TryAcquire, Forget
  <2>3. CASE NotAcquired(i)
    BY <2>3 DEF NotAcquired, Forget
  <2>4. CASE AcquireRaises(i)
    BY <2>4 DEF AcquireRaises, Forget
  <2>5. CASE RenewStart(i)
    <3>1. [at |-> UtcNow(i), late |-> FALSE] \in Renewals
      BY UtcNowBound DEF Renewals
    <3>2. QED
      BY <2>5, <3>1 DEF RenewStart
  <2>6. ASSUME NEW r \in inflight[i], RenewUpdate(i, r) PROVE TypeOK'
    <3>1. r.at \in Nat
      BY DEF Renewals
    <3>2. QED
      BY <2>6, <3>1 DEF RenewUpdate, Owns
  <2>7. ASSUME NEW r \in inflight[i], RenewLost(i, r) PROVE TypeOK'
    <3>1. r.late \in BOOLEAN
      BY DEF Renewals
    <3>2. QED
      BY <2>7, <3>1 DEF RenewLost, Owns
  <2>8. ASSUME NEW r \in inflight[i], RenewRaises(i, r) PROVE TypeOK'
    BY <2>8 DEF RenewRaises
  <2>9. CASE BodyDone(i)
    <3>1. {[r EXCEPT !.late = TRUE] : r \in inflight[i]} \in SUBSET Renewals
      <4> SUFFICES ASSUME NEW r \in inflight[i]
                   PROVE  [r EXCEPT !.late = TRUE] \in Renewals
        OBVIOUS
      <4>1. r \in Renewals
        OBVIOUS
      <4>2. QED
        BY <4>1 DEF Renewals
    <3>2. QED
      BY <2>9, <3>1 DEF BodyDone
  <2>10. CASE Release(i)
    BY <2>10 DEF Release, Owns
  <2>11. CASE ReleaseRaises(i)
    BY <2>11 DEF ReleaseRaises
  <2>12. CASE Crash(i)
    BY <2>12 DEF Crash, Forget
  <2>13. CASE Restart(i)
    BY <2>13 DEF Restart
  <2>14. QED
    BY <1>3, <2>1, <2>2, <2>3, <2>4, <2>5, <2>6, <2>7, <2>8, <2>9, <2>10,
       <2>11, <2>12, <2>13 DEF Step
<1>4. QED
  BY <1>1, <1>2, <1>3 DEF Next

(* Readings of the clock stay in the past. *)
LEMMA SeenStep == TypeOK /\ SeenInPast /\ [Next]_vars => SeenInPast'
<1> SUFFICES ASSUME TypeOK, SeenInPast, [Next]_vars PROVE SeenInPast'
  OBVIOUS
<1> USE LeaseAssumption DEF SeenInPast
<1>1. CASE UNCHANGED vars
  BY <1>1 DEF vars
<1>2. CASE Tick
  BY <1>2 DEF Tick, TypeOK
<1>3. ASSUME NEW i \in Instances, Step(i) PROVE SeenInPast'
  <2>1. clock' = clock
    BY <1>3 DEF Step, StartTick, TryAcquire, NotAcquired, AcquireRaises, RenewStart,
       RenewUpdate, Owns, RenewLost, Owns, RenewRaises, BodyDone, Release, Owns, ReleaseRaises, Crash, Restart
  <2>2. CASE StartTick(i)
    BY <2>1, <2>2, UtcNowBound DEF StartTick, TypeOK
  <2>3. CASE Forget(i)
    BY <2>1, <2>3 DEF Forget, TypeOK
  <2>4. CASE seen' = seen
    BY <2>1, <2>4
  <2>5. QED
    BY <1>3, <2>2, <2>3, <2>4 DEF Step, TryAcquire, NotAcquired, AcquireRaises, RenewStart,
       RenewUpdate, Owns, RenewLost, Owns, RenewRaises, BodyDone, Release, Owns, ReleaseRaises, Crash, Restart
<1>4. QED
  BY <1>1, <1>2, <1>3 DEF Next

(* The heart of the argument: a step never takes the row from a fresh body *)
(* nor leaves a fresh body with another expiry than the row's.             *)
LEMMA OwnsRowStep == IInv /\ TypeOK' /\ [Next]_vars => FreshHolderOwnsRow'
<1> SUFFICES ASSUME IInv, TypeOK', [Next]_vars, NEW j \in Instances, Fresh(j)'
             PROVE  row'.owner = j /\ row'.expires = until'[j]
  BY DEF FreshHolderOwnsRow
<1> USE LeaseAssumption DEF IInv
<1>1. CASE UNCHANGED vars
  BY <1>1 DEF vars, FreshHolderOwnsRow, Fresh
<1>2. CASE Tick
  BY <1>2 DEF Tick, FreshHolderOwnsRow, Fresh, TypeOK
<1>3. ASSUME NEW i \in Instances, Step(i)
      PROVE  row'.owner = j /\ row'.expires = until'[j]
  <2>1. CASE TryAcquire(i)
    <3>1. CASE i = j
      BY <2>1, <3>1 DEF TryAcquire, TypeOK
    <3>2. CASE i # j
      <4>1. Fresh(j)
        BY <2>1, <3>2 DEF TryAcquire, Fresh, TypeOK
      <4>2. row.owner = j /\ row.expires = until[j]
        BY <4>1 DEF FreshHolderOwnsRow
      <4>3. row.expires < seen[i]
        BY <2>1, <3>2, <4>2 DEF TryAcquire, Acquirable
      <4>4. seen[i] <= clock + MaxSkew
        BY DEF SeenInPast
      <4>5. FALSE
        BY <4>1, <4>2, <4>3, <4>4 DEF Fresh, TypeOK
      <4>6. QED
        BY <4>5
    <3>3. QED
      BY <3>1, <3>2
  <2>2. ASSUME NEW r \in inflight[i], RenewUpdate(i, r)
        PROVE  row'.owner = j /\ row'.expires = until'[j]
    <3>1. CASE i = j
      BY <2>2, <3>1 DEF RenewUpdate, Owns, TypeOK
    <3>2. CASE i # j
      <4>1. Fresh(j)
        BY <2>2, <3>2 DEF RenewUpdate, Owns, Fresh, TypeOK
      <4>2. QED
        BY <2>2, <3>2, <4>1 DEF RenewUpdate, Owns, FreshHolderOwnsRow
    <3>3. QED
      BY <3>1, <3>2
  <2>3. CASE Release(i)
    <3>1. i # j /\ Fresh(j)
      BY <2>3 DEF Release, Owns, Fresh, TypeOK, PCs
    <3>2. row.owner = j
      BY <3>1 DEF FreshHolderOwnsRow
    <3>3. QED
      BY <2>3, <3>1, <3>2 DEF Release, Owns, FreshHolderOwnsRow
  <2>4. CASE /\ row' = row /\ until' = until /\ clock' = clock
             /\ pc'[j] = "body" => pc[j] = "body"
    BY <2>4 DEF Fresh, FreshHolderOwnsRow
  <2>5. CASE StartTick(i) \/ NotAcquired(i) \/ AcquireRaises(i) \/ RenewStart(i)
    BY <2>4, <2>5 DEF StartTick, NotAcquired, AcquireRaises, RenewStart, TypeOK
  <2>6. CASE \E r \in inflight[i] : RenewLost(i, r) \/ RenewRaises(i, r)
    BY <2>4, <2>6 DEF RenewLost, Owns, RenewRaises
  <2>7. CASE BodyDone(i) \/ ReleaseRaises(i) \/ Crash(i) \/ Restart(i)
    BY <2>4, <2>7 DEF BodyDone, ReleaseRaises, Crash, Restart, TypeOK
  <2>8. QED
    BY <1>3, <2>1, <2>2, <2>3, <2>5, <2>6, <2>7 DEF Step
<1>4. QED
  BY <1>1, <1>2, <1>3 DEF Next

(* Every reachable state satisfies the inductive invariant. *)
THEOREM LeaseInvariant == Spec => []IInv
<1>1. Init => IInv
  BY InitIInv
<1>2. IInv /\ [Next]_vars => IInv'
  BY TypeStep, SeenStep, OwnsRowStep DEF IInv
<1>3. QED
  BY <1>1, <1>2, PTL DEF Spec

(* Type correctness (the state of scheduler_lease.py's rows and threads). *)
THEOREM LeaseTypeOK == Spec => []TypeOK
<1>1. IInv => TypeOK
  BY DEF IInv
<1>2. QED
  BY <1>1, LeaseInvariant, PTL

(* A fresh body always owns the row with the expiry it wrote. *)
THEOREM FreshOwnsRow == Spec => []FreshHolderOwnsRow
<1>1. IInv => FreshHolderOwnsRow
  BY DEF IInv
<1>2. QED
  BY <1>1, LeaseInvariant, PTL

(* Mutual exclusion of fresh holders, for any number of instances. *)
THEOREM LeaseMutex == Spec => []OneFreshHolder
<1>1. IInv => OneFreshHolder
  BY DEF IInv, FreshHolderOwnsRow, OneFreshHolder
<1>2. QED
  BY <1>1, LeaseInvariant, PTL

(* A lease changes hands directly only after its written expiry. *)
THEOREM LeaseSteal == Spec => StealOnlyExpired
<1> DEFINE Steal == (/\ row.owner # NoOwner
                     /\ row'.owner \notin {NoOwner, row.owner})
                    => row.expires < clock + MaxSkew
<1>1. IInv /\ [Next]_vars => [Steal]_vars
  <2> SUFFICES ASSUME IInv, Next, row.owner # NoOwner,
                      row'.owner \notin {NoOwner, row.owner}
               PROVE  row.expires < clock + MaxSkew
    BY DEF vars
  <2>1. PICK i \in Instances : Step(i)
    BY DEF Next, Tick
  <2>2. TryAcquire(i)
    <3>1. ~\E r \in inflight[i] : RenewUpdate(i, r)
      BY DEF RenewUpdate, Owns, IInv, TypeOK
    <3>2. ~Release(i)
      BY DEF Release, Owns, IInv, TypeOK
    <3>3. QED
      BY <2>1, <3>1, <3>2 DEF Step, StartTick, NotAcquired, AcquireRaises, RenewStart,
         RenewLost, Owns, RenewRaises, BodyDone, ReleaseRaises, Crash, Restart
  <2>3. row.expires < seen[i]
    BY <2>2 DEF TryAcquire, Acquirable
  <2>4. seen[i] <= clock + MaxSkew
    BY DEF IInv, SeenInPast
  <2>5. QED
    BY <2>3, <2>4, LeaseAssumption DEF IInv, TypeOK
<1>2. QED
  BY <1>1, LeaseInvariant, PTL DEF Spec, StealOnlyExpired

(* A step changes the set of fresh holders only from empty to one holder   *)
(* or from one holder to empty.                                            *)
LEMMA ExclusionStep ==
  IInv /\ IInv' /\ [Next]_vars => [Exclusion!Next]_FreshHolders
<1> SUFFICES ASSUME IInv, IInv', [Next]_vars, FreshHolders' # FreshHolders
             PROVE  Exclusion!Next
  OBVIOUS
<1>1. \A i \in FreshHolders : row.owner = i /\ row.expires = until[i]
  BY DEF IInv, FreshHolderOwnsRow, FreshHolders
<1>2. \A i \in FreshHolders' : row'.owner = i /\ row'.expires = until'[i]
  BY DEF IInv, FreshHolderOwnsRow, FreshHolders
<1>3. CASE FreshHolders' = {}
  BY <1>3 DEF Exclusion!Next, Exclusion!Lapse
<1>4. CASE FreshHolders' # {}
  <2>1. PICK j \in Instances : j \in FreshHolders'
    BY <1>4 DEF FreshHolders
  <2>2. FreshHolders' = {j}
    BY <1>2, <2>1
  <2>3. FreshHolders = {}
    <3> SUFFICES ASSUME NEW i \in FreshHolders PROVE FALSE
      OBVIOUS
    <3>1. i # j
      BY <1>1, <2>2
    <3>2. row.owner = i /\ row'.owner = j /\ row.owner \in Instances
      BY <1>1, <1>2, <2>1 DEF FreshHolders
    <3>3. row.owner # NoOwner /\ row'.owner \notin {NoOwner, row.owner}
      BY <3>1, <3>2, LeaseAssumption
    <3>4. PICK k \in Instances : TryAcquire(k)
      BY <3>3 DEF Next, Tick, vars, Step, StartTick, NotAcquired, AcquireRaises, RenewStart,
         RenewUpdate, Owns, Release, Owns, RenewLost, Owns, RenewRaises, BodyDone, ReleaseRaises, Crash, Restart,
         IInv, TypeOK
    <3>5. k # i
      BY <3>1, <3>2, <3>4 DEF TryAcquire, IInv, TypeOK
    <3>6. row.expires < seen[k] /\ seen[k] <= clock + MaxSkew
      BY <3>2, <3>3, <3>4, <3>5 DEF TryAcquire, Acquirable, IInv, SeenInPast
    <3>7. until[i] >= clock + MaxSkew /\ row.expires = until[i]
      BY <1>1 DEF FreshHolders, Fresh
    <3>8. QED
      BY <3>6, <3>7, LeaseAssumption DEF IInv, TypeOK
  <2>4. QED
    BY <2>1, <2>2, <2>3 DEF Exclusion!Next, Exclusion!Take
<1>5. QED
  BY <1>3, <1>4

(* The lease implements the abstract exclusion JobExclusion. *)
THEOREM LeaseRefinesExclusion == Spec => ImplementsExclusion
<1>1. Init => Exclusion!Init
  BY DEF Init, Exclusion!Init, FreshHolders, Fresh
<1>2. QED
  BY <1>1, ExclusionStep, LeaseInvariant, PTL
  DEF Spec, ImplementsExclusion, Exclusion!Spec
=============================================================================
