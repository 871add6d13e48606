----------------------------- MODULE DraftSend -----------------------------
(***************************************************************************)
(* The message drafts of one opportunity, from generation to the provider: *)
(* app/gtm_os/learning/message_draft.py, app/gtm_os/send/ and the callers  *)
(* in routes, chat tools and scheduler.  Each session is a thread with its *)
(* own database session; what it read before a commit, an LLM call or a    *)
(* provider call may be old when it acts on it, so reads and writes are    *)
(* actions of their own.  A slot stands for the (strategy, contact,        *)
(* channel, role) that the unique index allows one row for; all contacts   *)
(* belong to the opportunity's company.                                    *)
(***************************************************************************)
EXTENDS Integers, Sequences, FiniteSets

CONSTANTS
  Sessions,    \* threads that serve requests or run the sweeps
  Drafts,      \* ids of message_drafts rows
  Slots,       \* targets of drafts
  Emails,      \* the slots whose channel is email; the others are linkedin
  NoDraft, NoSlot,
  Window,      \* AUTO_APPROVAL_HOURS
  MaxAttempts, \* retry.max_attempts
  Backoff,     \* retry.backoff_minutes
  Cooldown,    \* limits.company_cooldown_days; a shorter contact cooldown adds nothing
  MaxTime,     \* bound: the clock stops here
  MaxFaults    \* bound: crashes, lost commits and lost provider answers

ASSUME DraftAssumption ==
  /\ IsFiniteSet(Sessions)
  /\ NoDraft \notin Drafts /\ NoSlot \notin Slots /\ Emails \subseteq Slots
  /\ Window \in Nat /\ Backoff \in Nat /\ Cooldown \in Nat \ {0}
  /\ MaxAttempts \in Nat \ {0} /\ MaxTime \in Nat /\ MaxFaults \in Nat

VARIABLES
  clock,
  opportunity, \* its status: "candidate" or "converted"
  status,      \* status[d], with "none" for an unused id and "deleted"
  slotOf,      \* slotOf[d]: what the draft targets
  created,     \* created[d]: created_at
  text,        \* text[d]: message_text as generated, or edited by a human
  attempts,    \* attempts[d]: its message_send_attempts rows, oldest first
  pc,          \* where each session is
  cur,         \* the draft it works on
  target,      \* the slot it generates for
  todo,        \* the rest of its sweep's list
  sweep,       \* which sweep it runs
  verdict,     \* the review decision it is about to write
  outcome,     \* the provider's answer it is about to record
  delivered,   \* history: pushes of d that the provider accepted
  faults

rows == <<opportunity, status, slotOf, created, text, attempts>>
local == <<pc, cur, target, todo, sweep, verdict, outcome>>
vars == <<clock, rows, local, delivered, faults>>

Reviewable == "ready_for_review"
Verdicts == {"approved", "rejected", "changes_requested"}
Generated == {"insufficient_context", "draft", Reviewable}
PCs == {"idle", "next", "write", "edit", "load", "gate", "call", "record", "delete", "generate"}
Answers == {"enrolled", "sent", "retryable", "permanent"}

TypeOK ==
  /\ clock \in Nat /\ faults \in Nat
  /\ opportunity \in {"candidate", "converted"}
  /\ status \in [Drafts -> Generated \cup Verdicts \cup {"none", "deleted"}]
  /\ slotOf \in [Drafts -> Slots \cup {NoSlot}]
  /\ created \in [Drafts -> Nat]
  /\ text \in [Drafts -> {"generated", "edited"}]
  /\ attempts \in [Drafts -> Seq([answer : Answers, at : Nat])]
  /\ pc \in [Sessions -> PCs]
  /\ cur \in [Sessions -> Drafts \cup {NoDraft}]
  /\ target \in [Sessions -> Slots \cup {NoSlot}]
  /\ todo \in [Sessions -> SUBSET Drafts]
  /\ sweep \in [Sessions -> {"none", "approval", "send"}]
  /\ verdict \in [Sessions -> Verdicts \cup {"none"}]
  /\ outcome \in [Sessions -> Answers \cup {"none"}]
  /\ delivered \in [Drafts -> Nat]

Init ==
  /\ clock = 0 /\ faults = 0
  /\ opportunity = "candidate"
  /\ status = [d \in Drafts |-> "none"]
  /\ slotOf = [d \in Drafts |-> NoSlot]
  /\ created = [d \in Drafts |-> 0]
  /\ text = [d \in Drafts |-> "generated"]
  /\ attempts = [d \in Drafts |-> <<>>]
  /\ pc = [s \in Sessions |-> "idle"]
  /\ cur = [s \in Sessions |-> NoDraft]
  /\ target = [s \in Sessions |-> NoSlot]
  /\ todo = [s \in Sessions |-> {}]
  /\ sweep = [s \in Sessions |-> "none"]
  /\ verdict = [s \in Sessions |-> "none"]
  /\ outcome = [s \in Sessions |-> "none"]
  /\ delivered = [d \in Drafts |-> 0]

Live(d) == status[d] \notin {"none", "deleted"}
Occupied(t) == \E d \in Drafts : Live(d) /\ slotOf[d] = t

Goto(s, label) == pc' = [pc EXCEPT ![s] = label]

(* The session has finished with its draft: a request returns, a sweep     *)
(* takes its next one.                                                     *)
Leave(s, rest) ==
  /\ Goto(s, IF rest = {} THEN "idle" ELSE "next")
  /\ todo' = [todo EXCEPT ![s] = rest]
  /\ sweep' = [sweep EXCEPT ![s] = IF rest = {} THEN "none" ELSE @]
  /\ cur' = [cur EXCEPT ![s] = NoDraft]
  /\ target' = [target EXCEPT ![s] = NoSlot]
  /\ verdict' = [verdict EXCEPT ![s] = "none"]
  /\ outcome' = [outcome EXCEPT ![s] = "none"]

Done(s) == Leave(s, todo[s])

Tick ==
  /\ clock < MaxTime
  /\ clock' = clock + 1
  /\ UNCHANGED <<rows, local, delivered, faults>>

---------------------------------------------------------------------------
(* Generation.  The message sweep and sequencing ask for a slot without a  *)
(* row, while the opportunity is open; the LLM call lies between that      *)
(* reading and the INSERT.                                                 *)
StartGenerate(s, t) ==
  /\ pc[s] = "idle"
  /\ opportunity = "candidate" /\ ~Occupied(t)
  /\ target' = [target EXCEPT ![s] = t]
  /\ Goto(s, "generate")
  /\ UNCHANGED <<clock, rows, cur, todo, sweep, verdict, outcome, delivered, faults>>

(* regenerate_message_draft, for any draft, possibly for another contact;  *)
(* recover_message_draft_if_unblocked does the same to a row that lacked   *)
(* its contact.                                                            *)
StartRegenerate(s, d, t) ==
  /\ pc[s] = "idle" /\ Live(d)
  /\ cur' = [cur EXCEPT ![s] = d]
  /\ target' = [target EXCEPT ![s] = t]
  /\ Goto(s, "delete")
  /\ UNCHANGED <<clock, rows, todo, sweep, verdict, outcome, delivered, faults>>

(* A bug in the schema: message_send_attempts loses its foreign key. *)
BugUnreferenced(d) == FALSE

(* A draft's send attempts reference it. *)
Referenced(d) == attempts[d] # <<>>

(* DELETE and commit; a referenced draft cannot be deleted. *)
DeleteDraft(s) ==
  /\ pc[s] = "delete"
  /\ ~Referenced(cur[s])
  /\ status' = [status EXCEPT ![cur[s]] = "deleted"]
  /\ cur' = [cur EXCEPT ![s] = NoDraft]
  /\ Goto(s, "generate")
  /\ UNCHANGED <<clock, opportunity, slotOf, created, text, attempts, target, todo, sweep,
                 verdict, outcome, delivered, faults>>

DeleteRaises(s) ==
  /\ pc[s] = "delete"
  /\ Referenced(cur[s])
  /\ Done(s)
  /\ UNCHANGED <<clock, rows, delivered, faults>>

(* The INSERT; the quality gate, or a missing text, decides the status.    *)
InsertDraft(s, d, first) ==
  /\ pc[s] = "generate"
  /\ status[d] = "none" /\ ~Occupied(target[s])
  /\ status' = [status EXCEPT ![d] = first]
  /\ slotOf' = [slotOf EXCEPT ![d] = target[s]]
  /\ created' = [created EXCEPT ![d] = clock]
  /\ Done(s)
  /\ UNCHANGED <<clock, opportunity, text, attempts, delivered, faults>>

(* A row exists by now (found, or a clash on the unique index), or the     *)
(* database refuses.                                                       *)
GenerateEnds(s) ==
  /\ pc[s] = "generate"
  /\ Done(s)
  /\ UNCHANGED <<clock, rows, delivered, faults>>

---------------------------------------------------------------------------
(* Review.  approve, reject and request_changes read the row and check its *)
(* status ...                                                              *)
StartReview(s, d, v) ==
  /\ pc[s] = "idle"
  /\ status[d] = Reviewable
  /\ cur' = [cur EXCEPT ![s] = d]
  /\ verdict' = [verdict EXCEPT ![s] = v]
  /\ Goto(s, "write")
  /\ UNCHANGED <<clock, rows, target, todo, sweep, outcome, delivered, faults>>

(* ... and UPDATE it by its primary key, whatever its status is by then.   *)
(* An approval goes on to send_approved_draft.                             *)
WriteReview(s) ==
  /\ pc[s] = "write" /\ Live(cur[s])
  /\ status' = [status EXCEPT ![cur[s]] = verdict[s]]
  /\ IF verdict[s] = "approved"
       THEN /\ Goto(s, "load")
            /\ verdict' = [verdict EXCEPT ![s] = "none"]
            /\ UNCHANGED <<cur, target, todo, sweep, outcome>>
       ELSE Done(s)
  /\ UNCHANGED <<clock, opportunity, slotOf, created, text, attempts, delivered, faults>>

(* The row is gone, or the commit fails. *)
WriteRaises(s) ==
  /\ pc[s] \in {"write", "edit"}
  /\ Done(s)
  /\ UNCHANGED <<clock, rows, delivered, faults>>

(* update_message_draft_content refuses an approved draft ...              *)
StartEdit(s, d) ==
  /\ pc[s] = "idle"
  /\ Live(d) /\ status[d] # "approved"
  /\ cur' = [cur EXCEPT ![s] = d]
  /\ Goto(s, "edit")
  /\ UNCHANGED <<clock, rows, target, todo, sweep, verdict, outcome, delivered, faults>>

(* ... and writes the new text by primary key.                             *)
WriteEdit(s) ==
  /\ pc[s] = "edit" /\ Live(cur[s])
  /\ text' = [text EXCEPT ![cur[s]] = "edited"]
  /\ Done(s)
  /\ UNCHANGED <<clock, opportunity, status, slotOf, created, attempts, delivered, faults>>

(* run_auto_approval_sweep reads its list; the first draft is approved     *)
(* from that reading ...                                                   *)
Unreviewed(d) == status[d] = Reviewable /\ created[d] + Window <= clock

StartAutoApproval(s, d) ==
  /\ pc[s] = "idle" /\ Unreviewed(d)
  /\ todo' = [todo EXCEPT ![s] = {e \in Drafts : Unreviewed(e)} \ {d}]
  /\ sweep' = [sweep EXCEPT ![s] = "approval"]
  /\ cur' = [cur EXCEPT ![s] = d]
  /\ verdict' = [verdict EXCEPT ![s] = "approved"]
  /\ Goto(s, "write")
  /\ UNCHANGED <<clock, rows, target, outcome, delivered, faults>>

(* ... and each later one is read again, for the commit expired it.        *)
NextAutoApproval(s, d) ==
  /\ pc[s] = "next" /\ sweep[s] = "approval" /\ d \in todo[s]
  /\ IF status[d] = Reviewable
       THEN /\ cur' = [cur EXCEPT ![s] = d]
            /\ verdict' = [verdict EXCEPT ![s] = "approved"]
            /\ todo' = [todo EXCEPT ![s] = @ \ {d}]
            /\ Goto(s, "write")
            /\ UNCHANGED <<target, sweep, outcome>>
       ELSE Leave(s, todo[s] \ {d})
  /\ UNCHANGED <<clock, rows, delivered, faults>>

---------------------------------------------------------------------------
(* Sending.  The send route and the chat tool take one draft.              *)
StartSend(s, d) ==
  /\ pc[s] = "idle" /\ Live(d)
  /\ cur' = [cur EXCEPT ![s] = d]
  /\ Goto(s, "load")
  /\ UNCHANGED <<clock, rows, target, todo, sweep, verdict, outcome, delivered, faults>>

(* run_v2_send_sweep lists the approved drafts and takes them one by one.  *)
StartSendSweep(s) ==
  /\ pc[s] = "idle"
  /\ \E d \in Drafts : status[d] = "approved"
  /\ todo' = [todo EXCEPT ![s] = {d \in Drafts : status[d] = "approved"}]
  /\ sweep' = [sweep EXCEPT ![s] = "send"]
  /\ Goto(s, "next")
  /\ UNCHANGED <<clock, rows, cur, target, verdict, outcome, delivered, faults>>

NextSend(s, d) ==
  /\ pc[s] = "next" /\ sweep[s] = "send" /\ d \in todo[s]
  /\ cur' = [cur EXCEPT ![s] = d]
  /\ todo' = [todo EXCEPT ![s] = @ \ {d}]
  /\ Goto(s, "load")
  /\ UNCHANGED <<clock, rows, target, sweep, verdict, outcome, delivered, faults>>

(* A bug: the status of the draft is not asked for. *)
BugAnyDraft(d) == Live(d)

Approved(d) == status[d] = "approved"

(* The row is read; only an approved draft goes on. *)
LoadDraft(s) ==
  /\ pc[s] = "load"
  /\ IF Approved(cur[s])
       THEN Goto(s, "gate") /\ UNCHANGED <<cur, target, todo, sweep, verdict, outcome>>
       ELSE Done(s)
  /\ UNCHANGED <<clock, rows, delivered, faults>>

(* A bug in SUCCESS_STATUSES: campaign enrolment is left out. *)
BugSuccess(a) == a.answer = "request_submitted"

(* send_state.py: what the attempts say. *)
Success(a) == a.answer \in {"enrolled", "request_submitted"}
Rows(d) == {attempts[d][i] : i \in DOMAIN attempts[d]}
LastAttempt(d) == attempts[d][Len(attempts[d])]

HasSuccessfulSend(d) == \E a \in Rows(d) : Success(a)

Retryable(d) ==
  attempts[d] # <<>> =>
    LastAttempt(d).answer # "permanent" /\ LastAttempt(d).at + Backoff <= clock

WithinCooldown ==
  \E e \in Drafts : \E a \in Rows(e) : Success(a) /\ clock < a.at + Cooldown

(* Bugs in the gates: retries without limit, no cooldown. *)
BugUnlimited(d) == ~HasSuccessfulSend(d) /\ Retryable(d) /\ ~WithinCooldown
BugNoCooldown(d) == ~HasSuccessfulSend(d) /\ Retryable(d) /\ Len(attempts[d]) < MaxAttempts

(* The gates of send_message_draft that depend on earlier sends.           *)
Sendable(d) ==
  /\ ~HasSuccessfulSend(d)
  /\ Retryable(d)
  /\ Len(attempts[d]) < MaxAttempts
  /\ ~WithinCooldown

PassGates(s) ==
  /\ pc[s] = "gate" /\ Sendable(cur[s])
  /\ Goto(s, "call")
  /\ UNCHANGED <<clock, rows, cur, target, todo, sweep, verdict, outcome, delivered, faults>>

(* One of those gates is shut, or one that may be at any time: control     *)
(* plane, limits, suppression, V1 push, daily maximum, business hours,     *)
(* credentials.                                                            *)
SkipSend(s) ==
  /\ pc[s] = "gate"
  /\ Done(s)
  /\ UNCHANGED <<clock, rows, delivered, faults>>

(* A bug in an adapter: it answers with a status nobody knows. *)
BugAnswer(s, a) ==
  /\ outcome' = [outcome EXCEPT ![s] = "unknown"]
  /\ Goto(s, "record")
  /\ UNCHANGED <<clock, rows, cur, target, todo, sweep, verdict>>

(* The adapter returns its result to the session. *)
Answer(s, a) ==
  /\ outcome' = [outcome EXCEPT ![s] = a]
  /\ Goto(s, "record")
  /\ UNCHANGED <<clock, rows, cur, target, todo, sweep, verdict>>

Deliver(d) == delivered' = [delivered EXCEPT ![d] = @ + 1]

(* The provider accepts: send_via_smtp says "sent", send_via_salesrobot    *)
(* "enrolled".                                                             *)
ProviderAccepts(s) ==
  /\ pc[s] = "call"
  /\ Answer(s, IF slotOf[cur[s]] \in Emails THEN "sent" ELSE "enrolled")
  /\ Deliver(cur[s])
  /\ UNCHANGED faults

(* It refuses, for good or for now. *)
ProviderRefuses(s) ==
  /\ pc[s] = "call"
  /\ \E a \in {"retryable", "permanent"} : Answer(s, a)
  /\ UNCHANGED <<delivered, faults>>

(* It accepts, but the connection fails: the adapter sees an error. *)
AnswerLost(s) ==
  /\ pc[s] = "call" /\ faults < MaxFaults
  /\ faults' = faults + 1
  /\ Answer(s, "retryable")
  /\ Deliver(cur[s])

(* A bug: a draft keeps one attempt row, which a later attempt overwrites. *)
BugOverwrite(s) ==
  /\ pc[s] = "record" /\ Live(cur[s])
  /\ attempts' = [attempts EXCEPT ![cur[s]] = <<[answer |-> outcome[s], at |-> clock]>>]
  /\ opportunity' = IF outcome[s] \in {"enrolled", "request_submitted"} THEN "converted" ELSE opportunity
  /\ Done(s)
  /\ UNCHANGED <<clock, status, slotOf, created, text, delivered, faults>>

(* The attempt is inserted and the opportunity closed in one commit; the   *)
(* attempt's foreign key needs the draft.                                  *)
RecordAttempt(s) ==
  /\ pc[s] = "record" /\ Live(cur[s])
  /\ attempts' = [attempts EXCEPT ![cur[s]] = Append(@, [answer |-> outcome[s], at |-> clock])]
  /\ opportunity' = IF outcome[s] \in {"enrolled", "request_submitted"} THEN "converted" ELSE opportunity
  /\ Done(s)
  /\ UNCHANGED <<clock, status, slotOf, created, text, delivered, faults>>

(* The draft is gone, or the commit is lost: rolled back. *)
RecordRaises(s) ==
  /\ pc[s] = "record"
  /\ \/ ~Live(cur[s]) /\ UNCHANGED faults
     \/ faults < MaxFaults /\ faults' = faults + 1
  /\ Done(s)
  /\ UNCHANGED <<clock, rows, delivered>>

(* The process dies. *)
Crash(s) ==
  /\ pc[s] # "idle" /\ faults < MaxFaults
  /\ faults' = faults + 1
  /\ Leave(s, {})
  /\ UNCHANGED <<clock, rows, delivered>>

Step(s) ==
  \/ \E t \in Slots : StartGenerate(s, t)
  \/ \E d \in Drafts, t \in Slots : StartRegenerate(s, d, t)
  \/ DeleteDraft(s) \/ DeleteRaises(s)
  \/ \E d \in Drafts, first \in Generated : InsertDraft(s, d, first)
  \/ GenerateEnds(s)
  \/ \E d \in Drafts, v \in Verdicts : StartReview(s, d, v)
  \/ WriteReview(s) \/ WriteRaises(s)
  \/ \E d \in Drafts : StartEdit(s, d)
  \/ WriteEdit(s)
  \/ \E d \in Drafts : StartAutoApproval(s, d) \/ NextAutoApproval(s, d)
  \/ \E d \in Drafts : StartSend(s, d) \/ NextSend(s, d)
  \/ StartSendSweep(s) \/ LoadDraft(s) \/ PassGates(s) \/ SkipSend(s)
  \/ ProviderAccepts(s) \/ ProviderRefuses(s) \/ AnswerLost(s)
  \/ RecordAttempt(s) \/ RecordRaises(s) \/ Crash(s)

Next == Tick \/ \E s \in Sessions : Step(s)

Spec == Init /\ [][Next]_vars

---------------------------------------------------------------------------
(* "the one point where a message provably reached a provider": the        *)
(* opportunity is closed exactly when some draft that still exists has a   *)
(* successful attempt on record, whatever is regenerated meanwhile.        *)
ConvertedHasSend ==
  opportunity = "converted" <=> \E d \in Drafts : Live(d) /\ HasSuccessfulSend(d)

(* retry.max_attempts bounds the attempts of a draft; concurrent sessions  *)
(* that passed the gate together may add one each.                         *)
AttemptsBounded ==
  \A d \in Drafts : Len(attempts[d]) <= MaxAttempts + Cardinality(Sessions) - 1

(* A LinkedIn draft reaches its prospect twice only when sessions race or  *)
(* a fault lost the record: retries and sweeps alone never repeat it.      *)
DuplicateNeedsFault ==
  \A d \in Drafts :
    slotOf[d] \notin Emails => delivered[d] <= Cardinality(Sessions) + faults

(* One session at a time: what reached a prospect was approved, and stays  *)
(* so unless it was deleted for regeneration.                              *)
DeliveredWasApproved ==
  Cardinality(Sessions) = 1 =>
    \A d \in Drafts : delivered[d] > 0 => status[d] \in {"approved", "deleted"}

(* One session at a time: recorded pushes into the company, over all of    *)
(* its contacts' drafts, keep the cooldown.                                *)
CooldownKept ==
  Cardinality(Sessions) = 1 =>
    \A d, e \in Drafts : \A i \in DOMAIN attempts[d], j \in DOMAIN attempts[e] :
      LET a == attempts[d][i]
          b == attempts[e][j]
      IN  Success(a) /\ Success(b) /\ <<d, i>> # <<e, j>>
            => a.at + Cooldown <= b.at \/ b.at + Cooldown <= a.at

(* has_successful_send makes a second send "a no-op ... never a duplicate  *)
(* push": without faults, no draft is accepted by its provider twice.      *)
NoDuplicatePush == faults = 0 => \A d \in Drafts : delivered[d] <= 1

(* The outcome of an accepted push is on record, or still in the hands of  *)
(* its session, unless a fault lost it or the draft was deleted under it.  *)
Accepted == {"enrolled", "sent"}
OutcomePersisted ==
  \A d \in Drafts : Live(d) =>
    delivered[d] <= faults
      + Cardinality({i \in DOMAIN attempts[d] : attempts[d][i].answer \in Accepted})
      + Cardinality({s \in Sessions : cur[s] = d /\ outcome[s] \in Accepted})

(* The variables have their types, and of the attempts on record: the      *)
(* opportunity is closed exactly when one was sent, the attempts are       *)
(* bounded, and what a provider accepted is on record.                     *)
SendRecordsSound == TypeOK /\ ConvertedHasSend /\ AttemptsBounded /\ OutcomePersisted
=============================================================================
