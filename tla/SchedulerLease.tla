--------------------------- MODULE SchedulerLease ---------------------------
(***************************************************************************)
(* The per-(tenant, job) lease of app/scheduler_lease.py: one database row *)
(* that several deployed instances acquire, renew and release, each from   *)
(* its own reading of the clock.  Every SQL statement is one action; the   *)
(* reads of datetime.utcnow() that precede a statement are actions of      *)
(* their own, so a statement can land with a `now` that is already old.    *)
(*                                                                         *)
(* All statements filter on tenant_id and job_key, so rows of different    *)
(* jobs never interact: one row is modelled.                               *)
(***************************************************************************)
EXTENDS Integers, FiniteSets

CONSTANTS
  Instances,  \* values of this_instance_id(): one per deployed process
  NoOwner,    \* owner_instance IS NULL
  TTL,        \* DEFAULT_TTL_SECONDS
  MaxSkew,    \* bound on how far an instance's clock runs ahead of the database's
  MaxTime,    \* bound: the global clock stops here
  MaxCrashes  \* bound: how many times a process dies

ASSUME LeaseAssumption ==
  /\ NoOwner \notin Instances
  /\ TTL \in Nat \ {0}
  /\ MaxSkew \in Nat
  /\ MaxTime \in Nat
  /\ MaxCrashes \in Nat

VARIABLES
  clock,    \* true time
  skew,     \* skew[i]: how far instance i's clock is ahead (fixed)
  row,      \* the scheduler_leases row: owner_instance and expires_at
  pc,       \* pc[i]: where the thread inside job_lease() is
  seen,     \* seen[i]: the `now` that try_acquire read, while it is in scope
  renewing, \* renewing[i]: the renewer loop of the current run is still going
  inflight, \* inflight[i]: renew() calls between their `now` and their UPDATE
  until,    \* history: the expires_at that instance i last wrote
  crashes   \* counts process deaths, for the bound

rowVars == <<row, until>>
vars == <<clock, skew, row, pc, seen, renewing, inflight, until, crashes>>

PCs == {"idle", "acquiring", "body", "releasing", "down"}

(* A renew() in flight: its `now`, and whether stop was set meanwhile. *)
Renewals == [at : Nat, late : BOOLEAN]

TypeOK ==
  /\ clock \in Nat
  /\ skew \in [Instances -> 0..MaxSkew]
  /\ row \in [owner : Instances \cup {NoOwner}, expires : Nat]
  /\ pc \in [Instances -> PCs]
  /\ seen \in [Instances -> Nat]
  /\ renewing \in [Instances -> BOOLEAN]
  /\ inflight \in [Instances -> SUBSET Renewals]
  /\ until \in [Instances -> Nat]
  /\ crashes \in Nat

Init ==
  /\ clock = 0
  /\ skew \in [Instances -> 0..MaxSkew]
  /\ row = [owner |-> NoOwner, expires |-> 0]
  /\ pc = [i \in Instances |-> "idle"]
  /\ seen = [i \in Instances |-> 0]
  /\ renewing = [i \in Instances |-> FALSE]
  /\ inflight = [i \in Instances |-> {}]
  /\ until = [i \in Instances |-> 0]
  /\ crashes = 0

(* A bug in reading the clock: the skew taken with the wrong sign. *)
BugUtcNow(i) == clock - skew[i]

(* datetime.utcnow() on instance i. *)
UtcNow(i) == clock + skew[i]

Tick ==
  /\ clock < MaxTime
  /\ clock' = clock + 1
  /\ UNCHANGED <<skew, row, pc, seen, renewing, inflight, until, crashes>>

---------------------------------------------------------------------------
(* job_lease entry: the scheduler's tick calls try_acquire, which reads    *)
(* `now` before _ensure_row and before its UPDATE.                         *)
StartTick(i) ==
  /\ pc[i] = "idle"
  /\ pc' = [pc EXCEPT ![i] = "acquiring"]
  /\ seen' = [seen EXCEPT ![i] = UtcNow(i)]
  /\ UNCHANGED <<clock, skew, row, renewing, inflight, until, crashes>>

(* try_acquire returns: its `now` goes out of scope. *)
Forget(i) == seen' = [seen EXCEPT ![i] = 0]

(* Bugs in that UPDATE: no condition at all; a lease stolen one unit too   *)
(* early; a lease that never expires.                                      *)
BugUnconditional(i) == TRUE
BugEarly(i) == row.owner = NoOwner \/ row.expires <= seen[i] \/ row.owner = i
BugNoExpiry(i) == row.owner \in {NoOwner, i}

(* The WHERE clause of try_acquire's conditional UPDATE. *)
Acquirable(i) ==
  \/ row.owner = NoOwner
  \/ row.expires < seen[i]
  \/ row.owner = i

(* rowcount = 1: the lease is ours and the renewer thread starts. *)
TryAcquire(i) ==
  /\ pc[i] = "acquiring"
  /\ Acquirable(i)
  /\ row' = [owner |-> i, expires |-> seen[i] + TTL]
  /\ until' = [until EXCEPT ![i] = seen[i] + TTL]
  /\ pc' = [pc EXCEPT ![i] = "body"]
  /\ renewing' = [renewing EXCEPT ![i] = TRUE]
  /\ Forget(i)
  /\ UNCHANGED <<clock, skew, inflight, crashes>>

(* rowcount = 0: the tick yields False and does nothing. *)
NotAcquired(i) ==
  /\ pc[i] = "acquiring"
  /\ ~Acquirable(i)
  /\ pc' = [pc EXCEPT ![i] = "idle"]
  /\ Forget(i)
  /\ UNCHANGED <<clock, skew, row, renewing, inflight, until, crashes>>

(* try_acquire raises (the connection drops): the job is skipped. *)
AcquireRaises(i) ==
  /\ pc[i] = "acquiring"
  /\ pc' = [pc EXCEPT ![i] = "idle"]
  /\ Forget(i)
  /\ UNCHANGED <<clock, skew, row, renewing, inflight, until, crashes>>

---------------------------------------------------------------------------
(* A bug in renew and release: the owner left out of the WHERE clause.     *)
BugAnyOwner(i) == TRUE

(* owner_instance = :me, the condition of renew and release. *)
Owns(i) == row.owner = i

(* The renewer thread: stop.wait(60) timed out, renew() reads `now`.  The  *)
(* loop is sequential, so one renewal of the current run is in flight at a *)
(* time; an earlier run's may still be (its thread is never joined).       *)
RenewStart(i) ==
  /\ renewing[i]
  /\ \A r \in inflight[i] : r.late
  /\ inflight' = [inflight EXCEPT ![i] = @ \cup {[at |-> UtcNow(i), late |-> FALSE]}]
  /\ UNCHANGED <<clock, skew, row, pc, seen, renewing, until, crashes>>

(* The UPDATE of renew(): it asks for the owner only, not for an unexpired *)
(* lease, so a lapsed lease that nobody stole comes back.                  *)
RenewUpdate(i, r) ==
  /\ r \in inflight[i]
  /\ Owns(i)
  /\ row' = [row EXCEPT !.expires = r.at + TTL]
  /\ until' = [until EXCEPT ![i] = r.at + TTL]
  /\ inflight' = [inflight EXCEPT ![i] = @ \ {r}]
  /\ UNCHANGED <<clock, skew, pc, seen, renewing, crashes>>

(* renew() returns False: the lease was stolen.  The thread returns, the   *)
(* body goes on.                                                           *)
RenewLost(i, r) ==
  /\ r \in inflight[i]
  /\ ~Owns(i)
  /\ inflight' = [inflight EXCEPT ![i] = @ \ {r}]
  /\ renewing' = [renewing EXCEPT ![i] = @ /\ r.late]
  /\ UNCHANGED <<clock, skew, row, pc, seen, until, crashes>>

(* renew() raises: logged, the loop waits for its next turn. *)
RenewRaises(i, r) ==
  /\ r \in inflight[i]
  /\ inflight' = [inflight EXCEPT ![i] = @ \ {r}]
  /\ UNCHANGED <<clock, skew, row, pc, seen, renewing, until, crashes>>

---------------------------------------------------------------------------
(* The body returns or raises: the finally clause sets stop.  A renew()    *)
(* already past stop.wait still lands.                                     *)
BodyDone(i) ==
  /\ pc[i] = "body"
  /\ pc' = [pc EXCEPT ![i] = "releasing"]
  /\ renewing' = [renewing EXCEPT ![i] = FALSE]
  /\ inflight' = [inflight EXCEPT ![i] = {[r EXCEPT !.late = TRUE] : r \in @}]
  /\ UNCHANGED <<clock, skew, row, seen, until, crashes>>

(* release(): an UPDATE that matches only rows this instance owns. *)
Release(i) ==
  /\ pc[i] = "releasing"
  /\ row' = IF Owns(i) THEN [owner |-> NoOwner, expires |-> 0] ELSE row
  /\ pc' = [pc EXCEPT ![i] = "idle"]
  /\ UNCHANGED <<clock, skew, seen, renewing, inflight, until, crashes>>

(* release() raises: swallowed; the row keeps its owner until it expires. *)
ReleaseRaises(i) ==
  /\ pc[i] = "releasing"
  /\ pc' = [pc EXCEPT ![i] = "idle"]
  /\ UNCHANGED <<clock, skew, row, seen, renewing, inflight, until, crashes>>

(* The process dies: the renewer is a daemon thread and dies with it. *)
Crash(i) ==
  /\ pc[i] # "down"
  /\ crashes < MaxCrashes
  /\ crashes' = crashes + 1
  /\ pc' = [pc EXCEPT ![i] = "down"]
  /\ renewing' = [renewing EXCEPT ![i] = FALSE]
  /\ inflight' = [inflight EXCEPT ![i] = {}]
  /\ Forget(i)
  /\ UNCHANGED <<clock, skew, row, until>>

(* The process comes back under the same RENDER_INSTANCE_ID. *)
Restart(i) ==
  /\ pc[i] = "down"
  /\ pc' = [pc EXCEPT ![i] = "idle"]
  /\ UNCHANGED <<clock, skew, row, seen, renewing, inflight, until, crashes>>

Step(i) ==
  \/ StartTick(i) \/ TryAcquire(i) \/ NotAcquired(i) \/ AcquireRaises(i)
  \/ RenewStart(i)
  \/ \E r \in inflight[i] : RenewUpdate(i, r) \/ RenewLost(i, r) \/ RenewRaises(i, r)
  \/ BodyDone(i) \/ Release(i) \/ ReleaseRaises(i)
  \/ Crash(i) \/ Restart(i)

Next == Tick \/ \E i \in Instances : Step(i)

Spec == Init /\ [][Next]_vars

---------------------------------------------------------------------------
(* A body is fresh while the expiry its instance last wrote has not passed *)
(* on any clock: nobody can have found the row expired yet.                *)
Fresh(i) == pc[i] = "body" /\ until[i] >= clock + MaxSkew

(* The instances that run the job with a fresh lease. *)
FreshHolders == {i \in Instances : Fresh(i)}

(* "One-owner-at-a-time": however statements of the instances interleave,  *)
(* with stale `now` readings, late renewals, failed releases and restarts, *)
(* two bodies never run at once with fresh leases.                         *)
OneFreshHolder ==
  \A i, j \in Instances : Fresh(i) /\ Fresh(j) => i = j

(* The strengthening: the row names the fresh body and its own expiry, so  *)
(* no release, renewal or acquisition of another instance took it away.    *)
FreshHolderOwnsRow ==
  \A i \in Instances :
    Fresh(i) => row.owner = i /\ row.expires = until[i]

(* Every `now` that a pending try_acquire carries was read in the past:    *)
(* what the inductive invariant needs to know of it.                       *)
SeenInPast == \A i \in Instances : seen[i] <= clock + MaxSkew

(* The lease implements the abstract exclusion: the set of fresh holders   *)
(* only ever goes from empty to one instance and back.                     *)
Exclusion == INSTANCE JobExclusion WITH Workers <- Instances, holders <- FreshHolders
ImplementsExclusion == Exclusion!Spec

(* A lease goes straight from one owner to another only once its written   *)
(* expiry lies strictly in the past of the furthest-ahead clock.           *)
StealOnlyExpired ==
  [][(/\ row.owner # NoOwner
      /\ row'.owner \notin {NoOwner, row.owner}) => row.expires < clock + MaxSkew]_vars

(* "Expiry is the backstop": a row still owned while no body runs (its     *)
(* holder died, or its release failed) does not block the job for ever: a  *)
(* body runs again.  Rows whose expiry lies beyond the clock's bound are   *)
(* excused, because the bounded clock never gets past them.                *)
OwnedRowRunsAgain ==
  (row.owner # NoOwner /\ \A i \in Instances : pc[i] # "body")
    ~> ((\E i \in Instances : pc[i] = "body") \/ row.expires >= MaxTime)

(* What main.py says the lease gives: only one instance is in the body.    *)
SingleLane ==
  \A i, j \in Instances : pc[i] = "body" /\ pc[j] = "body" => i = j

(* Time passes, the scheduler of a live process keeps ticking, a body and  *)
(* its release end, and the database does not refuse for ever.  Nothing    *)
(* forces a dead process to come back.                                     *)
Fairness ==
  /\ WF_vars(Tick)
  /\ \A i \in Instances :
       /\ WF_vars(StartTick(i)) /\ WF_vars(NotAcquired(i)) /\ SF_vars(TryAcquire(i))
       /\ WF_vars(BodyDone(i)) /\ WF_vars(Release(i))

LiveSpec == Spec /\ Fairness
=============================================================================
