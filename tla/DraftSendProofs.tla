--------------------------- MODULE DraftSendProofs ---------------------------
(***************************************************************************)
(* Proofs about DraftSend for every set of sessions, drafts and slots, and *)
(* about OutreachSequence for any ranks and writers, and about IcpMatching *)
(* for every family of ICPs, companies and workers.                        *)
(***************************************************************************)
EXTENDS DraftSend, OutreachSequence, IcpMatching, FiniteSetTheorems, WellFoundedInduction, TLAPS

Entry == [answer : Answers, at : Nat]

(* What a session that is somewhere holds, and what a row that is unused,  *)
(* deleted or sent by mail looks like: type correctness rests on it.       *)
Placed(s) ==
  /\ pc[s] \in {"idle", "next", "generate"} => cur[s] = NoDraft
  /\ pc[s] \notin {"idle", "next", "generate"} => cur[s] \in Drafts /\ status[cur[s]] # "none"
  /\ pc[s] \in {"generate", "delete"} => target[s] \in Slots
  /\ pc[s] = "write" => verdict[s] \in Verdicts
  /\ pc[s] = "record" <=> outcome[s] # "none"
  /\ outcome[s] = "sent" => slotOf[cur[s]] \in Emails
  /\ \A d \in todo[s] : status[d] # "none"

RowInv(d) ==
  /\ status[d] = "none" => slotOf[d] = NoSlot /\ delivered[d] = 0
  /\ status[d] \in {"none", "deleted"} => attempts[d] = <<>>
  /\ \A i \in DOMAIN attempts[d] : attempts[d][i].answer = "sent" => slotOf[d] \in Emails

(* TypeOK in two parts: what the database and history hold, and what the    *)
(* sessions hold.                                                          *)
RowsType ==
  /\ clock \in Nat /\ faults \in Nat
  /\ opportunity \in {"candidate", "converted"}
  /\ status \in [Drafts -> Generated \cup Verdicts \cup {"none", "deleted"}]
  /\ slotOf \in [Drafts -> Slots \cup {NoSlot}]
  /\ created \in [Drafts -> Nat]
  /\ text \in [Drafts -> {"generated", "edited"}]
  /\ attempts \in [Drafts -> Seq(Entry)]
  /\ delivered \in [Drafts -> Nat]

LocalType ==
  /\ pc \in [Sessions -> PCs]
  /\ cur \in [Sessions -> Drafts \cup {NoDraft}]
  /\ target \in [Sessions -> Slots \cup {NoSlot}]
  /\ todo \in [Sessions -> SUBSET Drafts]
  /\ sweep \in [Sessions -> {"none", "approval", "send"}]
  /\ verdict \in [Sessions -> Verdicts \cup {"none"}]
  /\ outcome \in [Sessions -> Answers \cup {"none"}]

LEMMA TypeParts == TypeOK <=> RowsType /\ LocalType
BY DEF TypeOK, RowsType, LocalType, Entry

LEMMA TypePartsNext == TypeOK' <=> RowsType' /\ LocalType'
BY DEF TypeOK, RowsType, LocalType, Entry

(* Same rows, same types.                                                  *)
LEMMA RowsKept ==
  ASSUME RowsType, UNCHANGED <<clock, rows, delivered, faults>> PROVE RowsType'
BY DEF RowsType, rows

DraftInv ==
  /\ TypeOK
  /\ \A s \in Sessions : Placed(s)
  /\ \A d \in Drafts : RowInv(d)

(* Leaving a draft keeps the types of what a session holds.                *)
LEMMA LeaveType ==
  ASSUME TypeOK, NEW s \in Sessions, NEW rest \in SUBSET Drafts, Leave(s, rest)
  PROVE  /\ pc' \in [Sessions -> PCs] /\ cur' \in [Sessions -> Drafts \cup {NoDraft}]
         /\ target' \in [Sessions -> Slots \cup {NoSlot}] /\ todo' \in [Sessions -> SUBSET Drafts]
         /\ sweep' \in [Sessions -> {"none", "approval", "send"}]
         /\ verdict' \in [Sessions -> Verdicts \cup {"none"}]
         /\ outcome' \in [Sessions -> Answers \cup {"none"}]
<1>1. pc' \in [Sessions -> PCs]
  BY DEF Leave, Goto, TypeOK, PCs
<1>2. sweep' \in [Sessions -> {"none", "approval", "send"}]
  BY DEF Leave, TypeOK
<1>3. QED
  BY <1>1, <1>2 DEF Leave, TypeOK

(* A row that is not there is not live.                                    *)
LEMMA LiveStatus == \A d \in Drafts : Live(d) <=> status[d] \notin {"none", "deleted"}
BY DEF Live

(* Type correctness is preserved by every step.                            *)
LEMMA DraftTypeStep == ASSUME DraftInv, [Next]_vars PROVE TypeOK'
<1>0. TypeOK /\ \A s \in Sessions : Placed(s)
  BY DEF DraftInv
<1> USE <1>0
<1>a. RowsType /\ LocalType
  BY TypeParts
<1>1. CASE UNCHANGED vars
  BY <1>1 DEF TypeOK, vars, rows, local
<1>2. CASE Tick
  <2>1. RowsType'
    BY <1>a, <1>2 DEF Tick, RowsType, rows
  <2>2. LocalType'
    BY <1>a, <1>2 DEF Tick, LocalType, local
  <2>3. QED
    BY <2>1, <2>2, TypePartsNext
<1>3. ASSUME NEW s \in Sessions, Step(s) PROVE TypeOK'
  <2>0. todo[s] \in SUBSET Drafts /\ Placed(s) /\ \A d : todo[s] \ {d} \in SUBSET Drafts
    BY DEF TypeOK
  <2>1. CASE \E t \in Slots : StartGenerate(s, t)
    <3>1. PICK t \in Slots : StartGenerate(s, t)
      BY <2>1
    <3>2. LocalType'
      BY <1>a, <3>1 DEF StartGenerate, Goto, LocalType, PCs
    <3>3. RowsType'
      BY <1>a, <3>1, RowsKept DEF StartGenerate
    <3>4. QED
      BY <3>2, <3>3, TypePartsNext
  <2>2. CASE \E d \in Drafts, t \in Slots : StartRegenerate(s, d, t)
    <3>1. PICK d \in Drafts, t \in Slots : StartRegenerate(s, d, t)
      BY <2>2
    <3>2. LocalType'
      BY <1>a, <3>1 DEF StartRegenerate, Goto, LocalType, PCs
    <3>3. RowsType'
      BY <1>a, <3>1, RowsKept DEF StartRegenerate
    <3>4. QED
      BY <3>2, <3>3, TypePartsNext
  <2>3. CASE DeleteDraft(s)
    BY <2>3 DEF DeleteDraft, Goto, TypeOK, PCs
  <2>4. CASE DeleteRaises(s) \/ GenerateEnds(s) \/ WriteRaises(s) \/ SkipSend(s)
    <3>1. Leave(s, todo[s]) /\ UNCHANGED <<clock, rows, delivered, faults>>
      BY <2>4 DEF DeleteRaises, GenerateEnds, WriteRaises, SkipSend, Done
    <3>2. QED
      BY <2>0, <3>1, LeaveType DEF TypeOK, rows
  <2>5. CASE \E d \in Drafts, first \in Generated : InsertDraft(s, d, first)
    <3>1. PICK d \in Drafts, first \in Generated : InsertDraft(s, d, first)
      BY <2>5
    <3>2. Leave(s, todo[s]) /\ target[s] \in Slots /\ clock \in Nat
      BY <2>0, <3>1 DEF InsertDraft, Done, Placed, TypeOK
    <3>3. /\ status' \in [Drafts -> Generated \cup Verdicts \cup {"none", "deleted"}]
          /\ slotOf' \in [Drafts -> Slots \cup {NoSlot}] /\ created' \in [Drafts -> Nat]
          /\ UNCHANGED <<clock, opportunity, text, attempts, delivered, faults>>
      BY <3>1, <3>2 DEF InsertDraft, TypeOK
    <3>4. QED
      BY <2>0, <3>2, <3>3, LeaveType DEF TypeOK
  <2>6. CASE \E d \in Drafts, v \in Verdicts : StartReview(s, d, v)
    <3>1. PICK d \in Drafts, v \in Verdicts : StartReview(s, d, v)
      BY <2>6
    <3>2. LocalType'
      BY <1>a, <3>1 DEF StartReview, Goto, LocalType, PCs
    <3>3. RowsType'
      BY <1>a, <3>1, RowsKept DEF StartReview
    <3>4. QED
      BY <3>2, <3>3, TypePartsNext
  <2>7. CASE WriteReview(s)
    <3>1. cur[s] \in Drafts /\ verdict[s] \in Verdicts
      BY <2>0, <2>7 DEF WriteReview, Placed
    <3>2. /\ status' \in [Drafts -> Generated \cup Verdicts \cup {"none", "deleted"}]
          /\ UNCHANGED <<clock, opportunity, slotOf, created, text, attempts, delivered, faults>>
      BY <2>7, <3>1 DEF WriteReview, TypeOK
    <3>3. CASE verdict[s] = "approved"
      <4>1. Goto(s, "load") /\ verdict' = [verdict EXCEPT ![s] = "none"]
            /\ UNCHANGED <<cur, target, todo, sweep, outcome>>
        BY <2>7, <3>3 DEF WriteReview
      <4>2. QED
        BY <3>2, <4>1 DEF Goto, TypeOK, PCs
    <3>4. CASE verdict[s] # "approved"
      <4>1. Leave(s, todo[s])
        BY <2>7, <3>4 DEF WriteReview, Done
      <4>2. QED
        BY <2>0, <3>2, <4>1, LeaveType DEF TypeOK
    <3>5. QED
      BY <3>3, <3>4
  <2>8. CASE \E d \in Drafts : StartEdit(s, d)
    <3>1. PICK d \in Drafts : StartEdit(s, d)
      BY <2>8
    <3>2. LocalType'
      BY <1>a, <3>1 DEF StartEdit, Goto, LocalType, PCs
    <3>3. RowsType'
      BY <1>a, <3>1, RowsKept DEF StartEdit
    <3>4. QED
      BY <3>2, <3>3, TypePartsNext
  <2>9. CASE WriteEdit(s)
    <3>1. Leave(s, todo[s]) /\ text' \in [Drafts -> {"generated", "edited"}]
          /\ UNCHANGED <<clock, opportunity, status, slotOf, created, attempts, delivered, faults>>
      BY <2>9 DEF WriteEdit, Done, TypeOK
    <3>2. QED
      BY <2>0, <3>1, LeaveType DEF TypeOK
  <2>10. CASE \E d \in Drafts : StartAutoApproval(s, d)
    <3>1. PICK d \in Drafts : StartAutoApproval(s, d)
      BY <2>10
    <3>2. {e \in Drafts : Unreviewed(e)} \ {d} \in SUBSET Drafts
      OBVIOUS
    <3>3. LocalType'
      BY <1>a, <3>1, <3>2 DEF StartAutoApproval, Goto, LocalType, PCs, Verdicts
    <3>4. RowsType'
      BY <1>a, <3>1, RowsKept DEF StartAutoApproval
    <3>5. QED
      BY <3>3, <3>4, TypePartsNext
  <2>11. CASE \E d \in Drafts : NextAutoApproval(s, d)
    <3>1. PICK d \in Drafts : NextAutoApproval(s, d)
      BY <2>11
    <3>2. UNCHANGED <<clock, rows, delivered, faults>>
      BY <3>1 DEF NextAutoApproval
    <3>3. CASE status[d] = Reviewable
      <4>1. LocalType'
        BY <1>a, <2>0, <3>1, <3>3 DEF NextAutoApproval, Goto, LocalType, PCs, Verdicts
      <4>2. QED
        BY <1>a, <3>2, <4>1, RowsKept, TypePartsNext
    <3>4. CASE status[d] # Reviewable
      <4>1. Leave(s, todo[s] \ {d})
        BY <3>1, <3>4 DEF NextAutoApproval
      <4>2. QED
        BY <2>0, <3>2, <4>1, LeaveType DEF TypeOK, rows
    <3>5. QED
      BY <3>3, <3>4
  <2>12. CASE \E d \in Drafts : StartSend(s, d)
    <3>1. PICK d \in Drafts : StartSend(s, d)
      BY <2>12
    <3>2. LocalType'
      BY <1>a, <3>1 DEF StartSend, Goto, LocalType, PCs
    <3>3. RowsType'
      BY <1>a, <3>1, RowsKept DEF StartSend
    <3>4. QED
      BY <3>2, <3>3, TypePartsNext
  <2>13. CASE \E d \in Drafts : NextSend(s, d)
    <3>1. PICK d \in Drafts : NextSend(s, d)
      BY <2>13
    <3>2. LocalType'
      BY <1>a, <3>1, <2>0 DEF NextSend, Goto, LocalType, PCs
    <3>3. RowsType'
      BY <1>a, <3>1, RowsKept DEF NextSend
    <3>4. QED
      BY <3>2, <3>3, TypePartsNext
  <2>14. CASE StartSendSweep(s)
    <3>1. {d \in Drafts : status[d] = "approved"} \in SUBSET Drafts
      OBVIOUS
    <3>2. LocalType'
      BY <1>a, <2>14, <3>1 DEF StartSendSweep, Goto, LocalType, PCs
    <3>3. RowsType'
      BY <1>a, <2>14, RowsKept DEF StartSendSweep
    <3>4. QED
      BY <3>2, <3>3, TypePartsNext
  <2>15. CASE LoadDraft(s)
    <3>1. UNCHANGED <<clock, rows, delivered, faults>>
      BY <2>15 DEF LoadDraft
    <3>2. CASE Approved(cur[s])
      <4>1. LocalType'
        BY <1>a, <2>15, <3>2 DEF LoadDraft, Goto, LocalType, PCs
      <4>2. QED
        BY <1>a, <3>1, <4>1, RowsKept, TypePartsNext
    <3>3. CASE ~Approved(cur[s])
      <4>1. Leave(s, todo[s])
        BY <2>15, <3>3 DEF LoadDraft, Done
      <4>2. QED
        BY <2>0, <3>1, <4>1, LeaveType DEF TypeOK, rows
    <3>4. QED
      BY <3>2, <3>3
  <2>16. CASE PassGates(s)
    <3>1. PassGates(s)
      BY <2>16
    <3>2. LocalType'
      BY <1>a, <3>1 DEF PassGates, Goto, LocalType, PCs
    <3>3. RowsType'
      BY <1>a, <3>1, RowsKept DEF PassGates
    <3>4. QED
      BY <3>2, <3>3, TypePartsNext
  <2>17. CASE ProviderAccepts(s) \/ ProviderRefuses(s) \/ AnswerLost(s)
    <3>1. PICK a \in Answers : Answer(s, a)
      BY <2>17 DEF ProviderAccepts, ProviderRefuses, AnswerLost, Answers
    <3>2. faults' \in Nat /\ (UNCHANGED delivered \/ Deliver(cur[s]))
      BY <1>a, <2>17 DEF ProviderAccepts, ProviderRefuses, AnswerLost, RowsType
    <3>3. LocalType'
      BY <1>a, <3>1 DEF Answer, Goto, LocalType, PCs
    <3>4. delivered' \in [Drafts -> Nat]
      <4>1. cur[s] \in Drafts
        BY <2>0, <2>17 DEF ProviderAccepts, ProviderRefuses, AnswerLost, Placed
      <4>2. delivered[cur[s]] + 1 \in Nat
        BY <1>a, <4>1 DEF RowsType
      <4>3. QED
        BY <1>a, <3>2, <4>1, <4>2 DEF Deliver, RowsType
    <3>5. RowsType'
      BY <1>a, <3>1, <3>2, <3>4 DEF Answer, RowsType, rows
    <3>6. QED
      BY <3>3, <3>5, TypePartsNext
  <2>18. CASE RecordAttempt(s)
    <3>1. cur[s] \in Drafts /\ outcome[s] \in Answers
      BY <2>0, <2>18 DEF RecordAttempt, Placed, TypeOK
    <3>2. [answer |-> outcome[s], at |-> clock] \in Entry /\ attempts[cur[s]] \in Seq(Entry)
      BY <3>1 DEF Entry, TypeOK
    <3>3. Append(attempts[cur[s]], [answer |-> outcome[s], at |-> clock]) \in Seq(Entry)
      BY <3>2
    <3>4. attempts' \in [Drafts -> Seq(Entry)]
      BY <2>18, <3>1, <3>3 DEF RecordAttempt, TypeOK, Entry
    <3>5. opportunity' \in {"candidate", "converted"} /\ Leave(s, todo[s])
          /\ UNCHANGED <<clock, status, slotOf, created, text, delivered, faults>>
      BY <2>18 DEF RecordAttempt, Done, TypeOK
    <3>6. QED
      BY <2>0, <3>4, <3>5, LeaveType DEF TypeOK, Entry
  <2>19. CASE RecordRaises(s) \/ Crash(s)
    <3>1. (Leave(s, todo[s]) \/ Leave(s, {})) /\ faults' \in Nat /\ UNCHANGED <<clock, rows, delivered>>
      BY <2>19 DEF RecordRaises, Crash, Done, TypeOK
    <3>2. {} \in SUBSET Drafts
      OBVIOUS
    <3>3. QED
      BY <2>0, <3>1, <3>2, LeaveType DEF TypeOK, rows
  <2>20. QED
    BY <1>3, <2>1, <2>2, <2>3, <2>4, <2>5, <2>6, <2>7, <2>8, <2>9, <2>10, <2>11, <2>12, <2>13, <2>14,
       <2>15, <2>16, <2>17, <2>18, <2>19 DEF Step
<1>4. QED
  BY <1>1, <1>2, <1>3 DEF Next

---------------------------------------------------------------------------
(* What one step of a session leaves alone.                                *)
Others(s) ==
  \A r \in Sessions \ {s} :
    /\ pc'[r] = pc[r] /\ cur'[r] = cur[r] /\ target'[r] = target[r] /\ todo'[r] = todo[r]
    /\ sweep'[r] = sweep[r] /\ verdict'[r] = verdict[r] /\ outcome'[r] = outcome[r]

(* A session at rest, after Leave(s, rest).                                *)
Left(s, rest) ==
  /\ pc'[s] = IF rest = {} THEN "idle" ELSE "next"
  /\ cur'[s] = NoDraft /\ todo'[s] = rest /\ verdict'[s] = "none" /\ outcome'[s] = "none"

LEMMA LeaveLeft ==
  ASSUME LocalType, NEW s \in Sessions, NEW rest, Leave(s, rest)
  PROVE  Others(s) /\ Left(s, rest)
<1>1. Others(s)
  BY DEF Leave, Goto, LocalType, Others
<1>2. Left(s, rest)
  BY DEF Leave, Goto, LocalType, Left
<1>3. QED
  BY <1>1, <1>2

(* A step changes what its own session holds, and nobody else's.           *)
LEMMA OnlyItself == ASSUME TypeOK, NEW s \in Sessions, Step(s) PROVE Others(s)
<1>a. LocalType
  BY TypeParts
<1>1. ASSUME NEW rest, Leave(s, rest) PROVE Others(s)
  BY <1>a, <1>1, LeaveLeft
<1>2. CASE DeleteRaises(s) \/ GenerateEnds(s) \/ WriteRaises(s) \/ SkipSend(s) \/ RecordAttempt(s)
           \/ RecordRaises(s) \/ Crash(s) \/ WriteEdit(s)
  BY <1>1, <1>2 DEF DeleteRaises, GenerateEnds, WriteRaises, SkipSend, RecordAttempt, RecordRaises,
                    Crash, WriteEdit, Done
<1>3. CASE \E t \in Slots : StartGenerate(s, t)
  BY <1>a, <1>3 DEF StartGenerate, Goto, LocalType, Others
<1>4. CASE \E d \in Drafts, t \in Slots : StartRegenerate(s, d, t)
  BY <1>a, <1>4 DEF StartRegenerate, Goto, LocalType, Others
<1>5. CASE DeleteDraft(s)
  BY <1>a, <1>5 DEF DeleteDraft, Goto, LocalType, Others
<1>6. CASE \E d \in Drafts, first \in Generated : InsertDraft(s, d, first)
  BY <1>1, <1>6 DEF InsertDraft, Done
<1>7. CASE \E d \in Drafts, v \in Verdicts : StartReview(s, d, v)
  BY <1>a, <1>7 DEF StartReview, Goto, LocalType, Others
<1>8. CASE WriteReview(s)
  <2>1. CASE verdict[s] = "approved"
    BY <1>a, <1>8, <2>1 DEF WriteReview, Goto, LocalType, Others
  <2>2. CASE verdict[s] # "approved"
    BY <1>1, <1>8, <2>2 DEF WriteReview, Done
  <2>3. QED
    BY <2>1, <2>2
<1>9. CASE \E d \in Drafts : StartEdit(s, d)
  BY <1>a, <1>9 DEF StartEdit, Goto, LocalType, Others
<1>10. CASE \E d \in Drafts : StartAutoApproval(s, d)
  <2>1. PICK d \in Drafts : StartAutoApproval(s, d)
    BY <1>10
  <2>2. QED
    BY <1>a, <2>1 DEF StartAutoApproval, Goto, LocalType, Others
<1>11. CASE \E d \in Drafts : NextAutoApproval(s, d)
  <2>1. PICK d \in Drafts : NextAutoApproval(s, d)
    BY <1>11
  <2>2. CASE status[d] = Reviewable
    BY <1>a, <2>1, <2>2 DEF NextAutoApproval, Goto, LocalType, Others
  <2>3. CASE status[d] # Reviewable
    BY <1>1, <2>1, <2>3 DEF NextAutoApproval
  <2>4. QED
    BY <2>2, <2>3
<1>12. CASE \E d \in Drafts : StartSend(s, d)
  BY <1>a, <1>12 DEF StartSend, Goto, LocalType, Others
<1>13. CASE \E d \in Drafts : NextSend(s, d)
  BY <1>a, <1>13 DEF NextSend, Goto, LocalType, Others
<1>14. CASE StartSendSweep(s)
  BY <1>a, <1>14 DEF StartSendSweep, Goto, LocalType, Others
<1>15. CASE LoadDraft(s)
  <2>1. CASE Approved(cur[s])
    BY <1>a, <1>15, <2>1 DEF LoadDraft, Goto, LocalType, Others
  <2>2. CASE ~Approved(cur[s])
    BY <1>1, <1>15, <2>2 DEF LoadDraft, Done
  <2>3. QED
    BY <2>1, <2>2
<1>16. CASE PassGates(s)
  BY <1>a, <1>16 DEF PassGates, Goto, LocalType, Others
<1>17. CASE ProviderAccepts(s) \/ ProviderRefuses(s) \/ AnswerLost(s)
  <2>1. PICK a : Answer(s, a)
    BY <1>17 DEF ProviderAccepts, ProviderRefuses, AnswerLost
  <2>2. QED
    BY <1>a, <2>1 DEF Answer, Goto, LocalType, Others
<1>18. QED
  BY <1>2, <1>3, <1>4, <1>5, <1>6, <1>7, <1>8, <1>9, <1>10, <1>11, <1>12, <1>13, <1>14, <1>15, <1>16, <1>17
     DEF Step

(* A row, once made, stays in use and keeps its target.                    *)
LEMMA RowsLast ==
  ASSUME DraftInv, NEW s \in Sessions, Step(s), NEW d \in Drafts, status[d] # "none"
  PROVE  status'[d] # "none" /\ slotOf'[d] = slotOf[d]
<1>1. RowsType /\ Placed(s)
  BY TypeParts DEF DraftInv
<1>2. CASE \E e \in Drafts, first \in Generated : InsertDraft(s, e, first)
  BY <1>1, <1>2 DEF InsertDraft, RowsType
<1>3. CASE WriteReview(s)
  BY <1>1, <1>3 DEF WriteReview, RowsType, Placed, Verdicts
<1>4. CASE DeleteDraft(s)
  BY <1>1, <1>4 DEF DeleteDraft, RowsType
<1>5. CASE UNCHANGED <<status, slotOf>>
  BY <1>5
<1>6. \/ \E e \in Drafts, first \in Generated : InsertDraft(s, e, first)
      \/ WriteReview(s) \/ DeleteDraft(s) \/ UNCHANGED <<status, slotOf>>
  BY DEF Step, StartGenerate, StartRegenerate, DeleteRaises, GenerateEnds, StartReview, WriteRaises, StartEdit,
         WriteEdit, StartAutoApproval, NextAutoApproval, StartSend, NextSend, StartSendSweep, LoadDraft,
         PassGates, SkipSend, ProviderAccepts, ProviderRefuses, AnswerLost, Answer, RecordAttempt,
         RecordRaises, Crash, rows
<1>7. QED
  BY <1>2, <1>3, <1>4, <1>5, <1>6

(* The other sessions stay where they are, whatever happens to the rows.   *)
LEMMA PlacedOthers ==
  ASSUME DraftInv, NEW s \in Sessions, Step(s), NEW r \in Sessions \ {s}
  PROVE  Placed(r)'
<1>1. LocalType /\ Placed(r) /\ Others(s)
  BY TypeParts, OnlyItself DEF DraftInv
<1>2. \A d \in Drafts : status[d] # "none" => status'[d] # "none" /\ slotOf'[d] = slotOf[d]
  BY RowsLast
<1>3. todo[r] \subseteq Drafts
  BY <1>1 DEF LocalType
<1>4. outcome[r] = "sent" => cur[r] \in Drafts /\ status[cur[r]] # "none"
  BY <1>1 DEF Placed
<1>5. QED
  BY <1>1, <1>2, <1>3, <1>4 DEF Placed, Others

(* So does a session that has left its draft.                              *)
LEMMA PlacedLeft ==
  ASSUME DraftInv, NEW s \in Sessions, Step(s), NEW rest \in SUBSET todo[s], Leave(s, rest)
  PROVE  Placed(s)'
<1>1. LocalType /\ Placed(s)
  BY TypeParts DEF DraftInv
<1>2. Left(s, rest)
  BY <1>1, LeaveLeft
<1>3. \A d \in todo'[s] : d \in Drafts /\ status'[d] # "none"
  <2>1. todo[s] \subseteq Drafts
    BY <1>1 DEF LocalType
  <2>2. QED
    BY <1>1, <1>2, <2>1, RowsLast DEF Left, Placed
<1>4. QED
  BY <1>2, <1>3 DEF Placed, Left

(* And the session that moves is placed again.                             *)
LEMMA PlacedSelf ==
  ASSUME DraftInv, NEW s \in Sessions, Step(s)
  PROVE  Placed(s)'
<1>1. LocalType /\ RowsType /\ Placed(s)
  BY TypeParts DEF DraftInv
<1>a. todo[s] \subseteq Drafts
  BY <1>1 DEF LocalType
<1>b. \A d \in Drafts : status[d] # "none" => status'[d] # "none" /\ slotOf'[d] = slotOf[d]
  BY RowsLast
<1>c. ASSUME NEW rest \in SUBSET todo[s], Leave(s, rest) PROVE Placed(s)'
  BY <1>c, PlacedLeft
<1>d. todo[s] \in SUBSET todo[s] /\ {} \in SUBSET todo[s]
  OBVIOUS
<1>2. CASE DeleteRaises(s) \/ GenerateEnds(s) \/ WriteRaises(s) \/ SkipSend(s) \/ RecordAttempt(s)
           \/ RecordRaises(s) \/ Crash(s) \/ WriteEdit(s)
  <2>1. Leave(s, todo[s]) \/ Leave(s, {})
    BY <1>2 DEF DeleteRaises, GenerateEnds, WriteRaises, SkipSend, RecordAttempt, RecordRaises,
                Crash, WriteEdit, Done
  <2>2. QED
    BY <1>c, <1>d, <2>1
<1>3. CASE \E t \in Slots : StartGenerate(s, t)
  BY <1>1, <1>3 DEF StartGenerate, Goto, LocalType, Placed, rows
<1>4. CASE \E d \in Drafts, t \in Slots : StartRegenerate(s, d, t)
  BY <1>1, <1>4 DEF StartRegenerate, Goto, LocalType, Placed, rows, Live
<1>5. CASE DeleteDraft(s)
  <2>1. /\ pc[s] = "delete" /\ pc'[s] = "generate" /\ cur'[s] = NoDraft
        /\ target'[s] = target[s] /\ todo'[s] = todo[s] /\ outcome'[s] = outcome[s]
    BY <1>1, <1>5 DEF DeleteDraft, Goto, LocalType
  <2>2. \A d \in todo[s] : status'[d] # "none"
    BY <1>1, <1>a, <1>b DEF Placed
  <2>3. QED
    BY <1>1, <2>1, <2>2 DEF Placed
<1>6. CASE \E d \in Drafts, first \in Generated : InsertDraft(s, d, first)
  <2>1. Leave(s, todo[s])
    BY <1>6 DEF InsertDraft, Done
  <2>2. QED
    BY <1>c, <1>d, <2>1
<1>7. CASE \E d \in Drafts, v \in Verdicts : StartReview(s, d, v)
  BY <1>1, <1>7 DEF StartReview, Goto, LocalType, Placed, rows, Reviewable
<1>8. CASE WriteReview(s)
  <2>1. CASE verdict[s] = "approved"
    <3>1. /\ pc[s] = "write" /\ pc'[s] = "load" /\ cur'[s] = cur[s]
          /\ todo'[s] = todo[s] /\ outcome'[s] = outcome[s]
      BY <1>1, <1>8, <2>1 DEF WriteReview, Goto, LocalType
    <3>2. \A d \in todo[s] : status'[d] # "none"
      BY <1>1, <1>a, <1>b DEF Placed
    <3>3. QED
      BY <1>1, <1>b, <3>1, <3>2 DEF Placed
  <2>2. CASE verdict[s] # "approved"
    <3>1. Leave(s, todo[s])
      BY <1>8, <2>2 DEF WriteReview, Done
    <3>2. QED
      BY <1>c, <1>d, <3>1
  <2>3. QED
    BY <2>1, <2>2
<1>9. CASE \E d \in Drafts : StartEdit(s, d)
  BY <1>1, <1>9 DEF StartEdit, Goto, LocalType, Placed, rows, Live
<1>10. CASE \E d \in Drafts : StartAutoApproval(s, d)
  <2>1. PICK d \in Drafts : StartAutoApproval(s, d)
    BY <1>10
  <2>2. /\ pc'[s] = "write" /\ cur'[s] = d /\ verdict'[s] = "approved" /\ outcome'[s] = outcome[s]
        /\ pc[s] = "idle" /\ status[d] = Reviewable /\ UNCHANGED <<status, slotOf>>
        /\ todo'[s] \subseteq {e \in Drafts : status[e] = Reviewable}
    BY <1>1, <2>1 DEF StartAutoApproval, Goto, LocalType, rows, Unreviewed
  <2>3. QED
    BY <1>1, <2>2 DEF Placed, Reviewable, Verdicts
<1>11. CASE \E d \in Drafts : NextAutoApproval(s, d)
  <2>1. PICK d \in Drafts : NextAutoApproval(s, d)
    BY <1>11
  <2>2. CASE status[d] = Reviewable
    <3>1. /\ pc'[s] = "write" /\ cur'[s] = d /\ verdict'[s] = "approved" /\ outcome'[s] = outcome[s]
          /\ pc[s] = "next" /\ UNCHANGED <<status, slotOf>> /\ todo'[s] \subseteq todo[s]
      BY <1>1, <2>1, <2>2 DEF NextAutoApproval, Goto, LocalType, rows
    <3>2. QED
      BY <1>1, <2>2, <3>1 DEF Placed, Reviewable, Verdicts
  <2>3. CASE status[d] # Reviewable
    <3>1. Leave(s, todo[s] \ {d})
      BY <2>1, <2>3 DEF NextAutoApproval
    <3>2. QED
      BY <1>c, <3>1
  <2>4. QED
    BY <2>2, <2>3
<1>12. CASE \E d \in Drafts : StartSend(s, d)
  BY <1>1, <1>12 DEF StartSend, Goto, LocalType, Placed, rows, Live
<1>13. CASE \E d \in Drafts : NextSend(s, d)
  BY <1>1, <1>13 DEF NextSend, Goto, LocalType, Placed, rows
<1>14. CASE StartSendSweep(s)
  <2>1. /\ pc'[s] = "next" /\ cur'[s] = cur[s] /\ outcome'[s] = outcome[s] /\ pc[s] = "idle"
        /\ UNCHANGED <<status, slotOf>> /\ todo'[s] = {d \in Drafts : status[d] = "approved"}
    BY <1>1, <1>14 DEF StartSendSweep, Goto, LocalType, rows
  <2>2. QED
    BY <1>1, <2>1 DEF Placed
<1>15. CASE LoadDraft(s)
  <2>1. CASE Approved(cur[s])
    BY <1>1, <1>15, <2>1 DEF LoadDraft, Goto, LocalType, Placed, rows
  <2>2. CASE ~Approved(cur[s])
    <3>1. Leave(s, todo[s])
      BY <1>15, <2>2 DEF LoadDraft, Done
    <3>2. QED
      BY <1>c, <1>d, <3>1
  <2>3. QED
    BY <2>1, <2>2
<1>16. CASE PassGates(s)
  BY <1>1, <1>16 DEF PassGates, Goto, LocalType, Placed, rows
<1>17. CASE ProviderAccepts(s) \/ ProviderRefuses(s) \/ AnswerLost(s)
  <2>1. PICK a \in Answers : Answer(s, a) /\ (a = "sent" => slotOf[cur[s]] \in Emails)
    BY <1>17 DEF ProviderAccepts, ProviderRefuses, AnswerLost, Answers
  <2>2. pc[s] = "call"
    BY <1>17 DEF ProviderAccepts, ProviderRefuses, AnswerLost
  <2>3. /\ pc'[s] = "record" /\ cur'[s] = cur[s] /\ outcome'[s] = a /\ todo'[s] = todo[s]
        /\ UNCHANGED <<status, slotOf>>
    BY <1>1, <2>1 DEF Answer, Goto, LocalType, rows
  <2>4. QED
    BY <1>1, <2>1, <2>2, <2>3 DEF Placed, Answers
<1>18. QED
  BY <1>2, <1>3, <1>4, <1>5, <1>6, <1>7, <1>8, <1>9, <1>10, <1>11, <1>12, <1>13, <1>14, <1>15, <1>16, <1>17
     DEF Step

(* The rows keep RowInv.                                                   *)
LEMMA RowStep ==
  ASSUME DraftInv, NEW s \in Sessions, Step(s), NEW d \in Drafts
  PROVE  RowInv(d)'
<1>1. LocalType /\ RowsType /\ Placed(s) /\ RowInv(d)
  BY TypeParts DEF DraftInv
<1>2. CASE \E e \in Drafts, first \in Generated : InsertDraft(s, e, first)
  <2>1. PICK e \in Drafts, first \in Generated : InsertDraft(s, e, first)
    BY <1>2
  <2>2. CASE e = d
    <3>1. attempts'[d] = <<>> /\ status'[d] = first /\ first \notin {"none", "deleted"}
      BY <1>1, <2>1, <2>2 DEF InsertDraft, RowsType, RowInv, Generated, Reviewable
    <3>2. QED
      BY <3>1 DEF RowInv
  <2>3. CASE e # d
    <3>1. /\ attempts'[d] = attempts[d] /\ status'[d] = status[d] /\ slotOf'[d] = slotOf[d]
          /\ delivered'[d] = delivered[d]
      BY <1>1, <2>1, <2>3 DEF InsertDraft, RowsType
    <3>2. QED
      BY <1>1, <3>1 DEF RowInv
  <2>4. QED
    BY <2>2, <2>3
<1>3. CASE WriteReview(s)
  BY <1>1, <1>3 DEF WriteReview, RowsType, Placed, Verdicts, RowInv, Live
<1>4. CASE DeleteDraft(s)
  BY <1>1, <1>4 DEF DeleteDraft, RowsType, RowInv, Referenced, Placed
<1>5. CASE ProviderAccepts(s) \/ AnswerLost(s)
  <2>1. Deliver(cur[s]) /\ cur[s] \in Drafts /\ status[cur[s]] # "none"
    BY <1>1, <1>5 DEF ProviderAccepts, AnswerLost, Placed
  <2>2. UNCHANGED rows
    BY <1>5 DEF ProviderAccepts, AnswerLost, Answer
  <2>3. d # cur[s] => delivered'[d] = delivered[d]
    BY <1>1, <2>1 DEF Deliver, RowsType
  <2>4. QED
    BY <1>1, <2>1, <2>2, <2>3 DEF RowInv, rows
<1>6. CASE RecordAttempt(s)
  <2>1. UNCHANGED <<status, slotOf, delivered>> /\ Live(cur[s]) /\ cur[s] \in Drafts
    BY <1>1, <1>6 DEF RecordAttempt, Placed
  <2>2. CASE d # cur[s]
    BY <1>1, <1>6, <2>1, <2>2 DEF RecordAttempt, RowsType, RowInv
  <2>3. CASE d = cur[s]
    <3>1. attempts'[d] = Append(attempts[d], [answer |-> outcome[s], at |-> clock])
      BY <1>1, <1>6, <2>3 DEF RecordAttempt, RowsType
    <3>2. attempts[d] \in Seq(Entry)
      BY <1>1 DEF RowsType
    <3>3. \A i \in DOMAIN attempts'[d] : attempts'[d][i].answer = "sent" => slotOf[d] \in Emails
      <4>1. TAKE i \in DOMAIN attempts'[d]
      <4>2. CASE i = Len(attempts[d]) + 1
        BY <1>1, <2>3, <3>1, <3>2, <4>2 DEF Placed
      <4>3. CASE i \in DOMAIN attempts[d]
        BY <1>1, <3>1, <3>2, <4>3 DEF RowInv
      <4>4. QED
        BY <3>1, <3>2, <4>2, <4>3
    <3>4. QED
      BY <1>1, <2>1, <2>3, <3>3 DEF RowInv, Live
  <2>4. QED
    BY <2>2, <2>3
<1>7. CASE UNCHANGED <<status, slotOf, attempts, delivered>>
  BY <1>1, <1>7 DEF RowInv
<1>8. \/ \E e \in Drafts, first \in Generated : InsertDraft(s, e, first)
      \/ WriteReview(s) \/ DeleteDraft(s) \/ ProviderAccepts(s) \/ AnswerLost(s) \/ RecordAttempt(s)
      \/ UNCHANGED <<status, slotOf, attempts, delivered>>
  BY DEF Step, StartGenerate, StartRegenerate, DeleteRaises, GenerateEnds, StartReview, WriteRaises, StartEdit,
         WriteEdit, StartAutoApproval, NextAutoApproval, StartSend, NextSend, StartSendSweep, LoadDraft,
         PassGates, SkipSend, ProviderRefuses, Answer, RecordRaises, Crash, rows
<1>9. QED
  BY <1>2, <1>3, <1>4, <1>5, <1>6, <1>7, <1>8

LEMMA DraftInvInit == Init => DraftInv
<1>1. SUFFICES ASSUME Init PROVE DraftInv
  OBVIOUS
<1>2. TypeOK
  BY <1>1 DEF Init, TypeOK, PCs
<1>3. \A s \in Sessions : Placed(s)
  BY <1>1 DEF Init, Placed
<1>4. \A d \in Drafts : RowInv(d)
  BY <1>1 DEF Init, RowInv
<1>5. QED
  BY <1>2, <1>3, <1>4 DEF DraftInv

LEMMA DraftInvStep == DraftInv /\ [Next]_vars => DraftInv'
<1>1. SUFFICES ASSUME DraftInv, [Next]_vars PROVE DraftInv'
  OBVIOUS
<1>2. TypeOK'
  BY <1>1, DraftTypeStep
<1>3. CASE UNCHANGED <<status, slotOf, attempts, delivered, local>>
  BY <1>1, <1>2, <1>3 DEF DraftInv, Placed, RowInv, local
<1>4. ASSUME NEW s \in Sessions, Step(s) PROVE DraftInv'
  <2>1. \A r \in Sessions : Placed(r)'
    BY <1>1, <1>4, PlacedOthers, PlacedSelf
  <2>2. \A d \in Drafts : RowInv(d)'
    BY <1>1, <1>4, RowStep
  <2>3. QED
    BY <1>2, <2>1, <2>2 DEF DraftInv
<1>5. QED
  BY <1>1, <1>3, <1>4 DEF Next, Tick, vars, rows

THEOREM DraftInvHolds == Spec => []DraftInv
BY DraftInvInit, DraftInvStep, PTL DEF Spec

---------------------------------------------------------------------------
(* Counting.  A set of sessions after one session has moved.               *)
LEMMA OneMoves ==
  ASSUME NEW s \in Sessions, NEW A \in SUBSET Sessions, NEW B \in SUBSET Sessions, A \ {s} = B \ {s}
  PROVE  /\ Cardinality(A) \in Nat /\ Cardinality(B) \in Nat /\ Cardinality(Sessions) \in Nat
         /\ Cardinality(A) <= Cardinality(Sessions) /\ Cardinality(B) <= Cardinality(Sessions)
         /\ s \in A /\ s \notin B => Cardinality(A) = Cardinality(B) + 1
         /\ s \notin A /\ s \in B => Cardinality(B) = Cardinality(A) + 1
         /\ (s \in A <=> s \in B) => A = B
<1>1. IsFiniteSet(Sessions)
  BY DraftAssumption
<1>2. IsFiniteSet(A) /\ IsFiniteSet(B) /\ Cardinality(A) <= Cardinality(Sessions)
      /\ Cardinality(B) <= Cardinality(Sessions)
  BY <1>1, FS_Subset
<1>3. Cardinality(A) \in Nat /\ Cardinality(B) \in Nat /\ Cardinality(Sessions) \in Nat
  BY <1>1, <1>2, FS_CardinalityType
<1>4. ASSUME s \in A, s \notin B PROVE Cardinality(A) = Cardinality(B) + 1
  <2>1. A = B \cup {s}
    BY <1>4
  <2>2. QED
    BY <1>2, <1>4, <2>1, FS_AddElement
<1>5. ASSUME s \notin A, s \in B PROVE Cardinality(B) = Cardinality(A) + 1
  <2>1. B = A \cup {s}
    BY <1>5
  <2>2. QED
    BY <1>2, <1>5, <2>1, FS_AddElement
<1>6. ASSUME s \in A <=> s \in B PROVE A = B
  BY <1>6
<1>7. QED
  BY <1>2, <1>3, <1>4, <1>5, <1>6

(* The rows of an attempt history that a provider accepted.                *)
AcceptedIn(q) == {i \in DOMAIN q : q[i].answer \in Accepted}

LEMMA AcceptedFinite ==
  ASSUME NEW q \in Seq(Entry)
  PROVE  IsFiniteSet(AcceptedIn(q)) /\ Cardinality(AcceptedIn(q)) \in Nat
<1>1. DOMAIN q = 1 .. Len(q) /\ Len(q) \in Nat
  OBVIOUS
<1>2. IsFiniteSet(1 .. Len(q))
  BY <1>1, FS_Interval
<1>3. AcceptedIn(q) \in SUBSET (1 .. Len(q))
  BY <1>1 DEF AcceptedIn
<1>4. IsFiniteSet(AcceptedIn(q))
  BY <1>2, <1>3, FS_Subset
<1>5. QED
  BY <1>4, FS_CardinalityType

LEMMA AcceptedAppend ==
  ASSUME NEW q \in Seq(Entry), NEW e \in Entry
  PROVE  Cardinality(AcceptedIn(Append(q, e)))
           = Cardinality(AcceptedIn(q)) + (IF e.answer \in Accepted THEN 1 ELSE 0)
<1>1. /\ DOMAIN q = 1 .. Len(q) /\ Len(q) \in Nat /\ Append(q, e)[Len(q) + 1] = e
      /\ DOMAIN Append(q, e) = 1 .. Len(q) + 1
      /\ \A i \in 1 .. Len(q) : Append(q, e)[i] = q[i]
  OBVIOUS
<1>2. IsFiniteSet(AcceptedIn(q)) /\ Cardinality(AcceptedIn(q)) \in Nat
  BY AcceptedFinite
<1>3. CASE e.answer \in Accepted
  <2>1. AcceptedIn(Append(q, e)) = AcceptedIn(q) \cup {Len(q) + 1}
    BY <1>1, <1>3 DEF AcceptedIn
  <2>2. Len(q) + 1 \notin AcceptedIn(q)
    BY <1>1 DEF AcceptedIn
  <2>3. QED
    BY <1>2, <1>3, <2>1, <2>2, FS_AddElement
<1>4. CASE e.answer \notin Accepted
  <2>1. AcceptedIn(Append(q, e)) = AcceptedIn(q)
    BY <1>1, <1>4 DEF AcceptedIn
  <2>2. QED
    BY <1>2, <1>4, <2>1
<1>5. QED
  BY <1>3, <1>4

(* The sessions between the gates and the record of d, and those that hold *)
(* an acceptance for it.                                                   *)
Busy(d) == {s \in Sessions : cur[s] = d /\ pc[s] \in {"call", "record"}}
Holding(d) == {s \in Sessions : cur[s] = d /\ outcome[s] \in Accepted}
Near(d) == {s \in Sessions : cur[s] = d /\ pc[s] \in {"gate", "call"}}

(* A step that neither passes the gates nor calls nor records.             *)
Quiet(s) ==
  /\ pc[s] \notin {"call", "record"} /\ pc'[s] \notin {"call", "record"}
  /\ outcome[s] = "none" /\ outcome'[s] = "none"
  /\ UNCHANGED <<opportunity, attempts, delivered, faults, clock>>
  /\ pc'[s] = "gate" => Approved(cur[s]) /\ cur'[s] = cur[s] /\ UNCHANGED status

(* A session loses its draft: the record fails, or the process dies.       *)
Drops(s) ==
  /\ pc'[s] \notin {"gate", "call", "record"} /\ cur'[s] = NoDraft /\ outcome'[s] = "none"
  /\ UNCHANGED <<clock, rows, delivered>>
  /\ \/ faults' = faults + 1
     \/ pc[s] = "record" /\ ~Live(cur[s]) /\ UNCHANGED faults

LEMMA StepKinds ==
  ASSUME DraftInv, NEW s \in Sessions, Step(s)
  PROVE  Quiet(s) \/ PassGates(s) \/ ProviderAccepts(s) \/ ProviderRefuses(s) \/ AnswerLost(s)
         \/ RecordAttempt(s) \/ Drops(s)
<1>1. LocalType /\ Placed(s) /\ Placed(s)'
  BY TypeParts, PlacedSelf DEF DraftInv
<1>2. ASSUME NEW rest, Leave(s, rest)
      PROVE  pc'[s] \in {"idle", "next"} /\ cur'[s] = NoDraft /\ outcome'[s] = "none"
  BY <1>1, <1>2, LeaveLeft DEF Left
<1>3. CASE RecordRaises(s) \/ Crash(s)
  <2>1. Leave(s, todo[s]) \/ Leave(s, {})
    BY <1>3 DEF RecordRaises, Crash, Done
  <2>2. QED
    BY <1>2, <1>3, <2>1 DEF RecordRaises, Crash, Drops
<1>4. ASSUME pc[s] \notin {"call", "record"}, pc'[s] \notin {"call", "record"},
             pc'[s] = "gate" => Approved(cur[s]) /\ cur'[s] = cur[s] /\ UNCHANGED status,
             UNCHANGED <<opportunity, attempts, delivered, faults, clock>>
      PROVE  Quiet(s)
  BY <1>1, <1>4 DEF Quiet, Placed
<1>5. CASE DeleteRaises(s) \/ GenerateEnds(s) \/ WriteRaises(s) \/ SkipSend(s) \/ WriteEdit(s)
           \/ \E d \in Drafts, first \in Generated : InsertDraft(s, d, first)
  <2>1. Leave(s, todo[s]) /\ pc[s] \notin {"call", "record"}
        /\ UNCHANGED <<opportunity, attempts, delivered, faults, clock>>
    BY <1>5 DEF DeleteRaises, GenerateEnds, WriteRaises, SkipSend, WriteEdit, InsertDraft, Done, rows
  <2>2. QED
    BY <1>2, <1>4, <2>1
<1>6. CASE \/ \E t \in Slots : StartGenerate(s, t)
           \/ \E d \in Drafts, t \in Slots : StartRegenerate(s, d, t)
           \/ DeleteDraft(s) \/ StartSendSweep(s)
           \/ \E d \in Drafts, v \in Verdicts : StartReview(s, d, v)
           \/ \E d \in Drafts : StartEdit(s, d) \/ StartAutoApproval(s, d) \/ StartSend(s, d) \/ NextSend(s, d)
  <2>1. pc[s] \notin {"call", "record"} /\ UNCHANGED <<opportunity, attempts, delivered, faults, clock>>
    BY <1>6 DEF StartGenerate, StartRegenerate, DeleteDraft, StartSendSweep, StartReview, StartEdit,
                StartAutoApproval, StartSend, NextSend, rows
  <2>2. \E l \in {"generate", "delete", "next", "write", "edit", "load"} : Goto(s, l)
    BY <1>6 DEF StartGenerate, StartRegenerate, DeleteDraft, StartSendSweep, StartReview, StartEdit,
                StartAutoApproval, StartSend, NextSend
  <2>3. pc'[s] \notin {"call", "record", "gate"}
    BY <1>1, <2>2 DEF Goto, LocalType
  <2>4. QED
    BY <1>4, <2>1, <2>3
<1>7. CASE WriteReview(s) \/ \E d \in Drafts : NextAutoApproval(s, d)
  <2>1. pc[s] \notin {"call", "record"} /\ UNCHANGED <<opportunity, attempts, delivered, faults, clock>>
    BY <1>7 DEF WriteReview, NextAutoApproval, rows
  <2>2. (\E l \in {"load", "write"} : Goto(s, l)) \/ \E rest : Leave(s, rest)
    BY <1>7 DEF WriteReview, NextAutoApproval, Done
  <2>3. pc'[s] \notin {"call", "record", "gate"}
    BY <1>1, <1>2, <2>2 DEF Goto, LocalType
  <2>4. QED
    BY <1>4, <2>1, <2>3
<1>8. CASE LoadDraft(s)
  <2>1. pc[s] \notin {"call", "record"} /\ UNCHANGED <<opportunity, attempts, delivered, faults, clock, status>>
    BY <1>8 DEF LoadDraft, rows
  <2>2. CASE Approved(cur[s])
    <3>1. pc'[s] = "gate" /\ cur'[s] = cur[s]
      BY <1>1, <1>8, <2>2 DEF LoadDraft, Goto, LocalType
    <3>2. QED
      BY <1>4, <2>1, <2>2, <3>1
  <2>3. CASE ~Approved(cur[s])
    BY <1>2, <1>4, <1>8, <2>1, <2>3 DEF LoadDraft, Done
  <2>4. QED
    BY <2>2, <2>3
<1>9. QED
  BY <1>3, <1>5, <1>6, <1>7, <1>8 DEF Step

(* How such a step moves the three sets of draft d.                        *)
LEMMA SetsMove ==
  ASSUME DraftInv, NEW s \in Sessions, Step(s), NEW d \in Drafts
  PROVE  /\ Busy(d) \in SUBSET Sessions /\ Busy(d)' \in SUBSET Sessions /\ Busy(d) \ {s} = Busy(d)' \ {s}
         /\ Holding(d) \in SUBSET Sessions /\ Holding(d)' \in SUBSET Sessions
         /\ Holding(d) \ {s} = Holding(d)' \ {s}
         /\ Near(d) \in SUBSET Sessions /\ Near(d)' \in SUBSET Sessions /\ Near(d) \ {s} = Near(d)' \ {s}
         /\ Quiet(s) => s \notin Busy(d) /\ s \notin Busy(d)' /\ s \notin Holding(d) /\ s \notin Holding(d)'
<1>1. Others(s)
  BY OnlyItself DEF DraftInv
<1>2. QED
  BY <1>1 DEF Others, Busy, Holding, Near, Quiet, Accepted

(* A draft changes between live and not live only without attempts.        *)
LEMMA LiveMoves ==
  ASSUME DraftInv, NEW s \in Sessions, Step(s), NEW d \in Drafts
  PROVE  /\ (Live(d) <=> Live(d)') \/ (attempts[d] = <<>> /\ attempts'[d] = <<>>)
         /\ Live(d)' /\ ~Live(d) => status[d] = "none" /\ UNCHANGED delivered
         /\ ~Live(d)' /\ Live(d) => DeleteDraft(s) /\ cur[s] = d
         /\ ~Live(d)' /\ ~Live(d) => status'[d] = status[d]
<1>1. RowsType /\ LocalType /\ Placed(s) /\ RowInv(d)
  BY TypeParts DEF DraftInv
<1>2. CASE \E e \in Drafts, first \in Generated : InsertDraft(s, e, first)
  <2>1. PICK e \in Drafts, first \in Generated : InsertDraft(s, e, first)
    BY <1>2
  <2>2. first \notin {"none", "deleted"}
    BY DEF Generated, Reviewable
  <2>3. CASE e = d
    BY <1>1, <2>1, <2>2, <2>3 DEF InsertDraft, RowsType, RowInv, Live
  <2>4. CASE e # d
    BY <1>1, <2>1, <2>4 DEF InsertDraft, RowsType, Live
  <2>5. QED
    BY <2>3, <2>4
<1>3. CASE WriteReview(s)
  BY <1>1, <1>3 DEF WriteReview, RowsType, Placed, Verdicts, Live
<1>4. CASE DeleteDraft(s)
  BY <1>1, <1>4 DEF DeleteDraft, RowsType, RowInv, Referenced, Placed, Live
<1>5. CASE UNCHANGED status
  BY <1>5 DEF Live
<1>6. \/ \E e \in Drafts, first \in Generated : InsertDraft(s, e, first)
      \/ WriteReview(s) \/ DeleteDraft(s) \/ UNCHANGED status
  BY DEF Step, StartGenerate, StartRegenerate, DeleteRaises, GenerateEnds, StartReview, WriteRaises, StartEdit,
         WriteEdit, StartAutoApproval, NextAutoApproval, StartSend, NextSend, StartSendSweep, LoadDraft,
         PassGates, SkipSend, ProviderAccepts, ProviderRefuses, AnswerLost, Answer, RecordAttempt,
         RecordRaises, Crash, rows
<1>7. QED
  BY <1>2, <1>3, <1>4, <1>5, <1>6

(* What a call and a record do to the draft they are about.                *)
LEMMA CallEffect ==
  ASSUME DraftInv, NEW s \in Sessions, Step(s), ProviderAccepts(s) \/ ProviderRefuses(s) \/ AnswerLost(s)
  PROVE  /\ pc[s] = "call" /\ pc'[s] = "record" /\ cur[s] \in Drafts /\ cur'[s] = cur[s]
         /\ outcome[s] = "none" /\ UNCHANGED <<clock, rows>>
         /\ \A d \in Drafts : d # cur[s] => delivered'[d] = delivered[d]
         /\ ProviderAccepts(s) => /\ outcome'[s] = IF slotOf[cur[s]] \in Emails THEN "sent" ELSE "enrolled"
                                  /\ delivered'[cur[s]] = delivered[cur[s]] + 1 /\ faults' = faults
         /\ ProviderRefuses(s) => outcome'[s] \notin Accepted /\ UNCHANGED <<delivered, faults>>
         /\ AnswerLost(s) => /\ outcome'[s] = "retryable" /\ faults' = faults + 1
                             /\ delivered'[cur[s]] = delivered[cur[s]] + 1
<1>1. RowsType /\ LocalType /\ Placed(s)
  BY TypeParts DEF DraftInv
<1>2. pc[s] = "call"
  BY DEF ProviderAccepts, ProviderRefuses, AnswerLost
<1>3. PICK a : Answer(s, a)
  BY DEF ProviderAccepts, ProviderRefuses, AnswerLost
<1>4. cur[s] \in Drafts /\ outcome[s] = "none"
  BY <1>1, <1>2 DEF Placed
<1>5. pc'[s] = "record" /\ cur'[s] = cur[s] /\ UNCHANGED <<clock, rows>>
  BY <1>1, <1>3 DEF Answer, Goto, LocalType
<1>6. Deliver(cur[s]) =>
        /\ delivered'[cur[s]] = delivered[cur[s]] + 1
        /\ \A d \in Drafts : d # cur[s] => delivered'[d] = delivered[d]
  BY <1>1, <1>4 DEF Deliver, RowsType
<1>7. \A b : Answer(s, b) => outcome'[s] = b
  BY <1>1 DEF Answer, LocalType
<1>8. QED
  BY <1>2, <1>4, <1>5, <1>6, <1>7 DEF ProviderAccepts, ProviderRefuses, AnswerLost, Accepted

LEMMA RecordEffect ==
  ASSUME DraftInv, NEW s \in Sessions, Step(s), RecordAttempt(s)
  PROVE  /\ pc[s] = "record" /\ pc'[s] \notin {"gate", "call", "record"}
         /\ cur[s] \in Drafts /\ Live(cur[s]) /\ cur'[s] = NoDraft
         /\ outcome[s] \in Answers /\ outcome'[s] = "none"
         /\ UNCHANGED <<clock, status, slotOf, delivered, faults>>
         /\ attempts[cur[s]] \in Seq(Entry)
         /\ [answer |-> outcome[s], at |-> clock] \in Entry
         /\ attempts'[cur[s]] = Append(attempts[cur[s]], [answer |-> outcome[s], at |-> clock])
         /\ \A d \in Drafts : d # cur[s] => attempts'[d] = attempts[d]
<1>1. RowsType /\ LocalType /\ Placed(s)
  BY TypeParts DEF DraftInv
<1>2. pc[s] = "record" /\ cur[s] \in Drafts /\ outcome[s] \in Answers
  BY <1>1 DEF RecordAttempt, Placed, LocalType
<1>3. attempts[cur[s]] \in Seq(Entry) /\ [answer |-> outcome[s], at |-> clock] \in Entry
  BY <1>1, <1>2 DEF RowsType, Entry
<1>4. Left(s, todo[s])
  BY <1>1, LeaveLeft DEF RecordAttempt, Done
<1>5. attempts' = [attempts EXCEPT ![cur[s]] = Append(@, [answer |-> outcome[s], at |-> clock])]
  BY DEF RecordAttempt
<1>6. /\ attempts'[cur[s]] = Append(attempts[cur[s]], [answer |-> outcome[s], at |-> clock])
      /\ \A d \in Drafts : d # cur[s] => attempts'[d] = attempts[d]
  BY <1>1, <1>2, <1>5 DEF RowsType
<1>7. QED
  BY <1>2, <1>3, <1>4, <1>6 DEF RecordAttempt, Left

(* The bound on a draft's attempts, with the attempts still under way.     *)
AttemptsInv ==
  \A d \in Drafts : Len(attempts[d]) + Cardinality(Busy(d)) <= MaxAttempts + Cardinality(Sessions) - 1

LEMMA AttemptsStep ==
  ASSUME DraftInv, AttemptsInv, NEW s \in Sessions, Step(s) PROVE AttemptsInv'
<1>1. SUFFICES ASSUME NEW d \in Drafts
               PROVE  Len(attempts'[d]) + Cardinality(Busy(d)') <= MaxAttempts + Cardinality(Sessions) - 1
  BY DEF AttemptsInv
<1>2. /\ Busy(d) \in SUBSET Sessions /\ Busy(d)' \in SUBSET Sessions /\ Busy(d) \ {s} = Busy(d)' \ {s}
      /\ Quiet(s) => s \notin Busy(d) /\ s \notin Busy(d)'
  BY SetsMove
<1> DEFINE m == Cardinality(Busy(d))  n == Cardinality(Busy(d)')  k == Cardinality(Sessions)
<1>3. /\ m \in Nat /\ n \in Nat /\ k \in Nat /\ m <= k /\ n <= k
      /\ s \in Busy(d) /\ s \notin Busy(d)' => m = n + 1
      /\ (s \in Busy(d) <=> s \in Busy(d)') => m = n
  BY <1>2, OneMoves
<1>4. RowsType /\ LocalType /\ attempts[d] \in Seq(Entry) /\ Len(attempts[d]) \in Nat /\ MaxAttempts \in Nat \ {0}
  BY TypeParts, DraftAssumption DEF DraftInv, RowsType
<1>5. Len(attempts[d]) + m <= MaxAttempts + k - 1
  BY DEF AttemptsInv
<1>b. SUFFICES Len(attempts'[d]) + n <= MaxAttempts + k - 1
  OBVIOUS
<1> HIDE DEF m, n, k
<1>6. CASE Quiet(s)
  BY <1>2, <1>3, <1>4, <1>5, <1>6 DEF Quiet
<1>7. CASE PassGates(s)
  <2>1. attempts' = attempts
    BY <1>7 DEF PassGates, rows
  <2>2. CASE cur[s] = d
    <3>1. Len(attempts[d]) < MaxAttempts
      BY <1>7, <2>2 DEF PassGates, Sendable
    <3>2. QED
      BY <1>3, <1>4, <2>1, <3>1
  <2>3. CASE cur[s] # d
    <3>1. s \notin Busy(d) /\ s \notin Busy(d)'
      BY <1>7, <2>3 DEF PassGates, Busy
    <3>2. QED
      BY <1>3, <1>4, <1>5, <2>1, <3>1
  <2>4. QED
    BY <2>2, <2>3
<1>8. CASE ProviderAccepts(s) \/ ProviderRefuses(s) \/ AnswerLost(s)
  <2>1. pc[s] = "call" /\ pc'[s] = "record" /\ cur'[s] = cur[s] /\ attempts' = attempts
    BY <1>8, CallEffect DEF rows
  <2>2. s \in Busy(d) <=> s \in Busy(d)'
    BY <2>1 DEF Busy
  <2>3. QED
    BY <1>3, <1>4, <1>5, <2>1, <2>2
<1>9. CASE RecordAttempt(s)
  <2>1. s \notin Busy(d)' /\ (s \in Busy(d) <=> cur[s] = d)
    BY <1>9, RecordEffect DEF Busy
  <2>2. CASE cur[s] = d
    <3>1. Len(attempts'[d]) = Len(attempts[d]) + 1
      <4>1. /\ [answer |-> outcome[s], at |-> clock] \in Entry
            /\ attempts'[d] = Append(attempts[d], [answer |-> outcome[s], at |-> clock])
        BY <1>9, <2>2, RecordEffect
      <4>2. QED
        BY <1>4, <4>1
    <3>2. QED
      BY <1>3, <1>4, <1>5, <2>1, <2>2, <3>1
  <2>3. CASE cur[s] # d
    <3>1. attempts'[d] = attempts[d]
      BY <1>9, <2>3, RecordEffect
    <3>2. QED
      BY <1>3, <1>4, <1>5, <2>1, <2>3, <3>1
  <2>4. QED
    BY <2>2, <2>3
<1>10. CASE Drops(s)
  <2>1. s \notin Busy(d)' /\ attempts' = attempts
    BY <1>10 DEF Drops, Busy, rows
  <2>2. QED
    BY <1>3, <1>4, <1>5, <2>1
<1>11. QED
  BY <1>6, <1>7, <1>8, <1>9, <1>10, StepKinds

(* What a provider accepted, and the rows and sessions that know of it.    *)
OutcomeInv ==
  \A d \in Drafts : Live(d) =>
    delivered[d] <= faults + Cardinality(AcceptedIn(attempts[d])) + Cardinality(Holding(d))

LEMMA OutcomeStep ==
  ASSUME DraftInv, OutcomeInv, NEW s \in Sessions, Step(s) PROVE OutcomeInv'
<1>1. SUFFICES ASSUME NEW d \in Drafts, Live(d)'
               PROVE  delivered'[d] <= faults' + Cardinality(AcceptedIn(attempts'[d])) + Cardinality(Holding(d)')
  BY DEF OutcomeInv
<1>2. /\ Holding(d) \in SUBSET Sessions /\ Holding(d)' \in SUBSET Sessions
      /\ Holding(d) \ {s} = Holding(d)' \ {s}
      /\ Quiet(s) => s \notin Holding(d) /\ s \notin Holding(d)'
  BY SetsMove
<1>a. DraftInv'
  BY DraftInvStep DEF Next
<1> DEFINE m == Cardinality(Holding(d))  n == Cardinality(Holding(d)')
           a == Cardinality(AcceptedIn(attempts[d]))  b == Cardinality(AcceptedIn(attempts'[d]))
<1>3. /\ m \in Nat /\ n \in Nat
      /\ s \in Holding(d) /\ s \notin Holding(d)' => m = n + 1
      /\ s \notin Holding(d) /\ s \in Holding(d)' => n = m + 1
      /\ (s \in Holding(d) <=> s \in Holding(d)') => m = n
  BY <1>2, OneMoves
<1>4. RowsType /\ RowsType' /\ LocalType /\ attempts[d] \in Seq(Entry) /\ attempts'[d] \in Seq(Entry)
  BY <1>a, TypeParts, TypePartsNext DEF DraftInv, RowsType
<1>5. /\ a \in Nat /\ b \in Nat /\ faults \in Nat /\ faults' \in Nat
      /\ delivered[d] \in Nat /\ delivered'[d] \in Nat
  BY <1>4, AcceptedFinite DEF RowsType
<1>6. attempts'[d] = attempts[d] => a = b
  OBVIOUS
<1>7. Live(d) => delivered[d] <= faults + a + m
  BY DEF OutcomeInv
<1>b. SUFFICES delivered'[d] <= faults' + b + n
  OBVIOUS
<1> HIDE DEF m, n, a, b
<1>8. CASE ~Live(d)
  <2>1. status[d] = "none" /\ UNCHANGED delivered
    BY <1>1, <1>8, LiveMoves
  <2>2. delivered'[d] = 0
    BY <2>1 DEF DraftInv, RowInv
  <2>3. n \in Nat /\ b \in Nat /\ faults' \in Nat
    BY <1>3, <1>5
  <2>4. \A x, y, z \in Nat : 0 <= x + y + z
    OBVIOUS
  <2>5. 0 <= faults' + b + n
    BY <2>3, <2>4
  <2>6. QED
    BY <2>2, <2>5
<1>9. CASE Live(d)
  <2>1. CASE Quiet(s) \/ PassGates(s)
    <3>1. UNCHANGED <<attempts, delivered, faults>>
      BY <2>1 DEF Quiet, PassGates, rows
    <3>2. s \in Holding(d) <=> s \in Holding(d)'
      BY <1>2, <2>1 DEF PassGates, Holding
    <3>3. QED
      BY <1>3, <1>5, <1>6, <1>7, <1>9, <3>1, <3>2
  <2>2. CASE ProviderAccepts(s) \/ ProviderRefuses(s) \/ AnswerLost(s)
    <3>1. a = b
      BY <1>6, <2>2, CallEffect DEF rows
    <3>2. s \notin Holding(d) /\ (d # cur[s] => s \notin Holding(d)' /\ delivered'[d] = delivered[d])
      BY <2>2, CallEffect DEF Holding, Accepted
    <3>3. CASE ProviderAccepts(s)
      <4>1. faults' = faults /\ (d = cur[s] => s \in Holding(d)' /\ delivered'[d] = delivered[d] + 1)
        BY <3>3, CallEffect DEF Holding, Accepted
      <4>2. QED
        BY <1>3, <1>5, <1>7, <1>9, <3>1, <3>2, <4>1
    <3>4. CASE ProviderRefuses(s)
      <4>1. s \notin Holding(d)' /\ UNCHANGED <<delivered, faults>>
        BY <3>4, CallEffect DEF Holding
      <4>2. QED
        BY <1>3, <1>5, <1>7, <1>9, <3>1, <3>2, <4>1
    <3>5. CASE AnswerLost(s)
      <4>1. /\ s \notin Holding(d)' /\ faults' = faults + 1
            /\ d = cur[s] => delivered'[d] = delivered[d] + 1
        BY <3>5, CallEffect DEF Holding, Accepted
      <4>2. QED
        BY <1>3, <1>5, <1>7, <1>9, <3>1, <3>2, <4>1
    <3>6. QED
      BY <2>2, <3>3, <3>4, <3>5
  <2>3. CASE RecordAttempt(s)
    <3>1. /\ UNCHANGED <<delivered, faults>> /\ s \notin Holding(d)'
          /\ s \in Holding(d) <=> cur[s] = d /\ outcome[s] \in Accepted
      BY <2>3, RecordEffect DEF Holding, Accepted
    <3>2. CASE cur[s] = d
      <4>1. b = a + (IF outcome[s] \in Accepted THEN 1 ELSE 0)
        <5>1. /\ [answer |-> outcome[s], at |-> clock] \in Entry
              /\ attempts'[d] = Append(attempts[d], [answer |-> outcome[s], at |-> clock])
          BY <2>3, <3>2, RecordEffect
        <5>2. QED
          BY <1>4, <5>1, AcceptedAppend DEF a, b
      <4>2. QED
        BY <1>3, <1>5, <1>7, <1>9, <3>1, <3>2, <4>1
    <3>3. CASE cur[s] # d
      <4>1. a = b
        BY <1>6, <2>3, <3>3, RecordEffect
      <4>2. QED
        BY <1>3, <1>5, <1>7, <1>9, <3>1, <3>3, <4>1
    <3>4. QED
      BY <3>2, <3>3
  <2>4. CASE Drops(s)
    <3>1. UNCHANGED <<attempts, delivered>> /\ s \notin Holding(d)'
      BY <2>4 DEF Drops, Holding, rows, Accepted
    <3>2. faults' = faults + 1 \/ (faults' = faults /\ s \notin Holding(d))
      BY <1>9, <2>4 DEF Drops, Holding
    <3>3. QED
      BY <1>3, <1>5, <1>6, <1>7, <1>9, <3>1, <3>2
  <2>5. QED
    BY <2>1, <2>2, <2>3, <2>4, StepKinds
<1>10. QED
  BY <1>8, <1>9

(* An opportunity is closed by the first success on record, and no success *)
(* is ever taken off.                                                      *)
LEMMA ConvertedStep ==
  ASSUME DraftInv, ConvertedHasSend, NEW s \in Sessions, Step(s) PROVE ConvertedHasSend'
<1>a. RowsType /\ RowsType'
  <2>1. DraftInv'
    BY DraftInvStep DEF Next
  <2>2. QED
    BY <2>1, TypeParts, TypePartsNext DEF DraftInv
<1>b. \A d \in Drafts : attempts[d] = <<>> => ~HasSuccessfulSend(d)
  BY DEF HasSuccessfulSend, Rows
<1>1. CASE Quiet(s) \/ PassGates(s) \/ ProviderAccepts(s) \/ ProviderRefuses(s) \/ AnswerLost(s) \/ Drops(s)
  <2>1. UNCHANGED <<opportunity, attempts>>
    BY <1>1, CallEffect DEF Quiet, PassGates, Drops, rows
  <2>2. \A d \in Drafts : HasSuccessfulSend(d) <=> HasSuccessfulSend(d)'
    BY <2>1 DEF HasSuccessfulSend, Rows
  <2>3. \A d \in Drafts : (Live(d) <=> Live(d)') \/ attempts[d] = <<>>
    BY LiveMoves
  <2>4. QED
    BY <1>b, <2>1, <2>2, <2>3 DEF ConvertedHasSend
<1>2. CASE RecordAttempt(s)
  <2>1. \A d \in Drafts : Live(d) <=> Live(d)'
    BY <1>2, RecordEffect DEF Live
  <2>0. PICK c \in Drafts : c = cur[s]
    BY <1>2, RecordEffect
  <2>2. /\ c \in Drafts /\ Live(c) /\ attempts[c] \in Seq(Entry)
        /\ [answer |-> outcome[s], at |-> clock] \in Entry
        /\ attempts'[c] = Append(attempts[c], [answer |-> outcome[s], at |-> clock])
        /\ \A d \in Drafts : d # c => attempts'[d] = attempts[d]
    BY <1>2, <2>0, RecordEffect
  <2>3. \A d \in Drafts : d # c => (HasSuccessfulSend(d) <=> HasSuccessfulSend(d)')
    BY <2>2 DEF HasSuccessfulSend, Rows
  <2>4. HasSuccessfulSend(c)' <=> HasSuccessfulSend(c) \/ outcome[s] \in {"enrolled", "request_submitted"}
    <3>1. /\ DOMAIN attempts'[c] = DOMAIN attempts[c] \cup {Len(attempts[c]) + 1}
          /\ attempts'[c][Len(attempts[c]) + 1] = [answer |-> outcome[s], at |-> clock]
          /\ \A i \in DOMAIN attempts[c] : attempts'[c][i] = attempts[c][i]
      BY <2>2
    <3>2. HasSuccessfulSend(c)' <=> \E i \in DOMAIN attempts'[c] : Success(attempts'[c][i])
      BY DEF HasSuccessfulSend, Rows, Success
    <3>3. HasSuccessfulSend(c) <=> \E i \in DOMAIN attempts[c] : Success(attempts[c][i])
      BY DEF HasSuccessfulSend, Rows, Success
    <3>4. Success([answer |-> outcome[s], at |-> clock]) <=> outcome[s] \in {"enrolled", "request_submitted"}
      BY DEF Success
    <3>5. QED
      BY <3>1, <3>2, <3>3, <3>4
  <2>5. opportunity' = IF outcome[s] \in {"enrolled", "request_submitted"} THEN "converted" ELSE opportunity
    BY <1>2 DEF RecordAttempt
  <2>6. QED
    BY <2>1, <2>2, <2>3, <2>4, <2>5 DEF ConvertedHasSend
<1>3. QED
  BY <1>1, <1>2, StepKinds

LEMMA RecordsInit ==
  Init => AttemptsInv /\ OutcomeInv /\ ConvertedHasSend
<1>1. SUFFICES ASSUME Init PROVE AttemptsInv /\ OutcomeInv /\ ConvertedHasSend
  OBVIOUS
<1>2. ASSUME NEW d \in Drafts PROVE Len(attempts[d]) = 0 /\ Busy(d) = {} /\ ~Live(d)
  BY <1>1 DEF Init, Busy, Live
<1>3. IsFiniteSet(Sessions) /\ MaxAttempts \in Nat \ {0}
  BY DraftAssumption
<1>4. Cardinality(Sessions) \in Nat /\ Cardinality({}) = 0
  BY <1>3, FS_CardinalityType, FS_EmptySet
<1>5. AttemptsInv
  <2>1. SUFFICES ASSUME NEW d \in Drafts
                 PROVE  Len(attempts[d]) + Cardinality(Busy(d)) <= MaxAttempts + Cardinality(Sessions) - 1
    BY DEF AttemptsInv
  <2>2. Len(attempts[d]) = 0 /\ Cardinality(Busy(d)) = 0
    BY <1>2, <1>4
  <2>3. 0 <= MaxAttempts + Cardinality(Sessions) - 1
    BY <1>3, <1>4
  <2>4. QED
    BY <2>2, <2>3
<1>6. QED
  BY <1>1, <1>2, <1>5 DEF Init, OutcomeInv, ConvertedHasSend

(* The attempts on record are true and bounded, for every number of        *)
(* sessions that race and every crash: SendRecordsSound.                   *)
RecordsInv == DraftInv /\ AttemptsInv /\ OutcomeInv /\ ConvertedHasSend

LEMMA RecordsStep == RecordsInv /\ [Next]_vars => RecordsInv'
<1>1. SUFFICES ASSUME RecordsInv, [Next]_vars PROVE RecordsInv'
  OBVIOUS
<1>2. DraftInv'
  BY <1>1, DraftInvStep DEF RecordsInv
<1>3. CASE UNCHANGED <<rows, local, delivered, faults>>
  <2>1. \A d \in Drafts : /\ Busy(d)' = Busy(d) /\ Holding(d)' = Holding(d) /\ Live(d)' = Live(d)
                          /\ HasSuccessfulSend(d)' = HasSuccessfulSend(d)
    BY <1>3 DEF Busy, Holding, rows, local, Live, HasSuccessfulSend, Rows
  <2>2. UNCHANGED <<opportunity, attempts, delivered, faults>>
    BY <1>3 DEF rows
  <2>3. AttemptsInv'
    BY <1>1, <2>1, <2>2 DEF RecordsInv, AttemptsInv
  <2>4. OutcomeInv'
    BY <1>1, <2>1, <2>2 DEF RecordsInv, OutcomeInv
  <2>5. ConvertedHasSend'
    BY <1>1, <2>1, <2>2 DEF RecordsInv, ConvertedHasSend
  <2>6. QED
    BY <1>2, <2>3, <2>4, <2>5 DEF RecordsInv
<1>4. ASSUME NEW s \in Sessions, Step(s) PROVE RecordsInv'
  BY <1>1, <1>2, <1>4, AttemptsStep, OutcomeStep, ConvertedStep DEF RecordsInv
<1>5. QED
  BY <1>1, <1>3, <1>4 DEF Next, Tick, vars

LEMMA RecordsSound == RecordsInv => SendRecordsSound
<1>1. SUFFICES ASSUME RecordsInv PROVE AttemptsBounded /\ OutcomePersisted
  BY DEF RecordsInv, DraftInv, SendRecordsSound
<1>2. AttemptsBounded
  <2>1. SUFFICES ASSUME NEW d \in Drafts PROVE Len(attempts[d]) <= MaxAttempts + Cardinality(Sessions) - 1
    BY DEF AttemptsBounded
  <2>2. Cardinality(Busy(d)) \in Nat /\ Cardinality(Sessions) \in Nat
    <3>1. IsFiniteSet(Sessions) /\ Busy(d) \in SUBSET Sessions
      BY DraftAssumption DEF Busy
    <3>2. QED
      BY <3>1, FS_Subset, FS_CardinalityType
  <2>3. attempts[d] \in Seq(Entry) /\ Len(attempts[d]) \in Nat /\ MaxAttempts \in Nat
    BY <1>1, TypeParts, DraftAssumption DEF RecordsInv, DraftInv, RowsType
  <2>4. Len(attempts[d]) + Cardinality(Busy(d)) <= MaxAttempts + Cardinality(Sessions) - 1
    BY <1>1 DEF RecordsInv, AttemptsInv
  <2>5. QED
    BY <2>2, <2>3, <2>4
<1>3. OutcomePersisted
  BY <1>1 DEF RecordsInv, OutcomeInv, OutcomePersisted, AcceptedIn, Holding
<1>4. QED
  BY <1>2, <1>3

(* The opportunity is closed exactly when a draft that exists has a send   *)
(* on record, the attempts of a draft stay within the retry limit plus one *)
(* for each other session, and every acceptance is on record, in the hands *)
(* of its session, or lost by a counted fault.                             *)
THEOREM RecordsHold == Spec => []SendRecordsSound
<1>1. Init => RecordsInv
  BY DraftInvInit, RecordsInit DEF RecordsInv
<1>2. QED
  BY <1>1, RecordsStep, RecordsSound, PTL DEF Spec

---------------------------------------------------------------------------
(* Duplicates on LinkedIn: while a draft lives, its acceptances on record  *)
(* and the sessions past its gates are no more than there are sessions;    *)
(* once deleted, no further session reaches its provider.                  *)
SentInv ==
  \A d \in Drafts : slotOf[d] \notin Emails =>
    /\ Live(d) => Cardinality(AcceptedIn(attempts[d])) + Cardinality(Busy(d)) <= Cardinality(Sessions)
    /\ status[d] = "deleted" => delivered[d] + Cardinality(Near(d)) <= faults + Cardinality(Sessions)

LEMMA HoldingBusy ==
  ASSUME DraftInv, NEW d \in Drafts
  PROVE  /\ Cardinality(Holding(d)) <= Cardinality(Busy(d))
         /\ Cardinality(Holding(d)) + Cardinality(Near(d)) <= Cardinality(Sessions)
         /\ Cardinality(Holding(d)) \in Nat /\ Cardinality(Busy(d)) \in Nat
         /\ Cardinality(Near(d)) \in Nat /\ Cardinality(Sessions) \in Nat
<1>1. /\ IsFiniteSet(Sessions) /\ Busy(d) \in SUBSET Sessions /\ Near(d) \in SUBSET Sessions
      /\ Holding(d) \in SUBSET Sessions
  BY DraftAssumption DEF Busy, Near, Holding
<1>2. \A s \in Sessions : outcome[s] \in Accepted => pc[s] = "record"
  BY DEF DraftInv, Placed, Accepted
<1>3. Holding(d) \in SUBSET Busy(d) /\ Holding(d) \cap Near(d) = {}
  BY <1>2 DEF Holding, Busy, Near
<1>4. /\ IsFiniteSet(Busy(d)) /\ IsFiniteSet(Near(d)) /\ IsFiniteSet(Holding(d))
      /\ Cardinality(Holding(d)) <= Cardinality(Busy(d))
  BY <1>1, <1>3, FS_Subset
<1>5. /\ Cardinality(Holding(d)) \in Nat /\ Cardinality(Busy(d)) \in Nat
      /\ Cardinality(Near(d)) \in Nat /\ Cardinality(Sessions) \in Nat
  BY <1>1, <1>4, FS_CardinalityType
<1>6. Cardinality(Holding(d)) + Cardinality(Near(d)) <= Cardinality(Sessions)
  <2>1. Cardinality(Holding(d) \cup Near(d)) <= Cardinality(Sessions)
    <3>1. Holding(d) \cup Near(d) \in SUBSET Sessions
      BY <1>1
    <3>2. QED
      BY <1>1, <3>1, FS_Subset
  <2>2. Cardinality(Holding(d) \cup Near(d))
          = Cardinality(Holding(d)) + Cardinality(Near(d)) - Cardinality(Holding(d) \cap Near(d))
    BY <1>4, FS_Union
  <2>3. Cardinality(Holding(d) \cap Near(d)) = 0
    BY <1>3, FS_EmptySet
  <2>4. QED
    BY <1>5, <2>1, <2>2, <2>3
<1>7. QED
  BY <1>4, <1>5, <1>6

LEMMA NothingAccepted ==
  ASSUME DraftInv, NEW d \in Drafts,
         attempts[d] = <<>> \/ (slotOf[d] \notin Emails /\ ~HasSuccessfulSend(d))
  PROVE  Cardinality(AcceptedIn(attempts[d])) = 0
<1>1. AcceptedIn(attempts[d]) = {}
  BY DEF AcceptedIn, Accepted, DraftInv, RowInv, HasSuccessfulSend, Rows, Success
<1>2. QED
  BY <1>1, FS_EmptySet

(* The live half of SentInv.                                               *)
LEMMA SentLive ==
  ASSUME DraftInv, SentInv, NEW s \in Sessions, Step(s), NEW d \in Drafts, slotOf'[d] \notin Emails, Live(d)'
  PROVE  Cardinality(AcceptedIn(attempts'[d])) + Cardinality(Busy(d)') <= Cardinality(Sessions)
<1>1. /\ Busy(d) \in SUBSET Sessions /\ Busy(d)' \in SUBSET Sessions /\ Busy(d) \ {s} = Busy(d)' \ {s}
      /\ Quiet(s) => s \notin Busy(d) /\ s \notin Busy(d)'
  BY SetsMove
<1>2. DraftInv'
  BY DraftInvStep DEF Next
<1> DEFINE m == Cardinality(Busy(d))  n == Cardinality(Busy(d)')  k == Cardinality(Sessions)
           a == Cardinality(AcceptedIn(attempts[d]))  b == Cardinality(AcceptedIn(attempts'[d]))
<1>3. /\ m \in Nat /\ n \in Nat /\ k \in Nat /\ n <= k
      /\ s \in Busy(d) /\ s \notin Busy(d)' => m = n + 1
      /\ (s \in Busy(d) <=> s \in Busy(d)') => m = n
  BY <1>1, OneMoves
<1>4. attempts[d] \in Seq(Entry) /\ attempts'[d] \in Seq(Entry)
  BY <1>2, TypeParts, TypePartsNext DEF DraftInv, RowsType
<1>5. a \in Nat /\ b \in Nat
  BY <1>4, AcceptedFinite
<1>6. attempts'[d] = attempts[d] => a = b
  OBVIOUS
<1>7. Live(d) => slotOf[d] = slotOf'[d]
  BY RowsLast DEF Live
<1>8. Live(d) => a + m <= k
  BY <1>7 DEF SentInv
<1>9. attempts[d] = <<>> /\ attempts'[d] = <<>> => b = 0
  BY FS_EmptySet DEF AcceptedIn
<1>10. Live(d) /\ ~HasSuccessfulSend(d) => a = 0
  BY <1>7, NothingAccepted
<1>11. SUFFICES b + n <= k
  OBVIOUS
<1> HIDE DEF m, n, k, a, b
<1>12. CASE ~Live(d)
  <2>1. b = 0
    BY <1>9, <1>12, LiveMoves
  <2>2. QED
    BY <1>3, <2>1
<1>13. CASE Live(d) /\ Quiet(s)
  <2>1. attempts' = attempts
    BY <1>13 DEF Quiet
  <2>2. QED
    BY <1>1, <1>3, <1>5, <1>6, <1>8, <1>13, <2>1
<1>14. CASE Live(d) /\ PassGates(s)
  <2>1. attempts' = attempts
    BY <1>14 DEF PassGates, rows
  <2>2. CASE cur[s] = d
    <3>1. ~HasSuccessfulSend(d)
      BY <1>14, <2>2 DEF PassGates, Sendable
    <3>2. b = 0
      BY <1>6, <1>10, <1>14, <2>1, <3>1
    <3>3. QED
      BY <1>3, <3>2
  <2>3. CASE cur[s] # d
    <3>1. s \notin Busy(d) /\ s \notin Busy(d)'
      BY <1>14, <2>3 DEF PassGates, Busy
    <3>2. QED
      BY <1>3, <1>5, <1>6, <1>8, <1>14, <2>1, <3>1
  <2>4. QED
    BY <2>2, <2>3
<1>15. CASE Live(d) /\ (ProviderAccepts(s) \/ ProviderRefuses(s) \/ AnswerLost(s))
  <2>1. pc[s] = "call" /\ pc'[s] = "record" /\ cur'[s] = cur[s] /\ attempts' = attempts
    BY <1>15, CallEffect DEF rows
  <2>2. s \in Busy(d) <=> s \in Busy(d)'
    BY <2>1 DEF Busy
  <2>3. QED
    BY <1>3, <1>5, <1>6, <1>8, <1>15, <2>1, <2>2
<1>16. CASE Live(d) /\ RecordAttempt(s)
  <2>1. s \notin Busy(d)' /\ (s \in Busy(d) <=> cur[s] = d)
    BY <1>16, RecordEffect DEF Busy
  <2>2. CASE cur[s] = d
    <3>1. b <= a + 1
      <4>1. /\ [answer |-> outcome[s], at |-> clock] \in Entry
            /\ attempts'[d] = Append(attempts[d], [answer |-> outcome[s], at |-> clock])
        BY <1>16, <2>2, RecordEffect
      <4>2. b = a + (IF outcome[s] \in Accepted THEN 1 ELSE 0)
        BY <1>4, <4>1, AcceptedAppend DEF a, b
      <4>3. QED
        BY <1>5, <4>2
    <3>2. QED
      BY <1>3, <1>5, <1>8, <1>16, <2>1, <2>2, <3>1
  <2>3. CASE cur[s] # d
    <3>1. a = b
      BY <1>6, <1>16, <2>3, RecordEffect
    <3>2. QED
      BY <1>3, <1>5, <1>8, <1>16, <2>1, <2>3, <3>1
  <2>4. QED
    BY <2>2, <2>3
<1>17. CASE Live(d) /\ Drops(s)
  <2>1. s \notin Busy(d)' /\ attempts' = attempts
    BY <1>17 DEF Drops, Busy, rows
  <2>2. QED
    BY <1>3, <1>5, <1>6, <1>8, <1>17, <2>1
<1>18. QED
  BY <1>12, <1>13, <1>14, <1>15, <1>16, <1>17, StepKinds

(* The half about deleted drafts.                                          *)
LEMMA SentDeleted ==
  ASSUME RecordsInv, SentInv, NEW s \in Sessions, Step(s), NEW d \in Drafts, slotOf'[d] \notin Emails,
         status'[d] = "deleted"
  PROVE  delivered'[d] + Cardinality(Near(d)') <= faults' + Cardinality(Sessions)
<1>0. DraftInv /\ DraftInv'
  BY DraftInvStep DEF RecordsInv, Next
<1>1. Near(d) \in SUBSET Sessions /\ Near(d)' \in SUBSET Sessions /\ Near(d) \ {s} = Near(d)' \ {s}
  BY <1>0, SetsMove
<1> DEFINE m == Cardinality(Near(d))  n == Cardinality(Near(d)')  k == Cardinality(Sessions)
<1>3. /\ m \in Nat /\ n \in Nat /\ k \in Nat /\ n <= k
      /\ s \in Near(d) /\ s \notin Near(d)' => m = n + 1
      /\ (s \in Near(d) <=> s \in Near(d)') => m = n
  BY <1>1, OneMoves
<1>4. /\ faults \in Nat /\ faults' \in Nat /\ delivered[d] \in Nat /\ delivered'[d] \in Nat
  BY <1>0, TypeParts, TypePartsNext DEF DraftInv, RowsType
<1>5. status[d] = "none" \/ Live(d) \/ status[d] = "deleted"
  BY DEF Live
<1>6. status[d] # "none" => slotOf[d] = slotOf'[d]
  BY <1>0, RowsLast
<1>7. status[d] # "none"
  <2>1. ~Live(d)'
    BY DEF Live
  <2>2. QED
    BY <1>0, <2>1, LiveMoves DEF Live
<1>8. status[d] = "deleted" => delivered[d] + m <= faults + k
  BY <1>6, <1>7 DEF SentInv
<1>11. SUFFICES delivered'[d] + n <= faults' + k
  OBVIOUS
<1>12. CASE Live(d)
  <2>1. DeleteDraft(s) /\ cur[s] = d
    <3>1. ~Live(d)'
      BY DEF Live
    <3>2. QED
      BY <1>0, <1>12, <3>1, LiveMoves
  <2>2. pc[s] = "delete" /\ attempts[d] = <<>> /\ UNCHANGED <<delivered, faults>> /\ cur'[s] = NoDraft
    BY <1>0, <2>1, TypeParts DEF DeleteDraft, Referenced, DraftInv, LocalType
  <2>3. s \notin Near(d) /\ s \notin Near(d)'
    <3>1. NoDraft \notin Drafts
      BY DraftAssumption
    <3>2. QED
      BY <2>2, <3>1 DEF Near
  <2>4. m = n
    BY <1>3, <2>3
  <2>5. Cardinality(AcceptedIn(attempts[d])) = 0
    BY <1>0, <2>2, NothingAccepted
  <2> DEFINE h == Cardinality(Holding(d))
  <2>6. delivered[d] <= faults + 0 + h
    BY <1>12, <2>5 DEF RecordsInv, OutcomeInv
  <2>7. h + m <= k /\ h \in Nat
    BY <1>0, HoldingBusy
  <2> HIDE DEF h, m, n, k
  <2>8. QED
    BY <1>3, <1>4, <2>2, <2>4, <2>6, <2>7
<1> HIDE DEF m, n, k
<1>13. CASE status[d] = "deleted"
  <2>0. ~Approved(d)
    BY <1>13 DEF Approved
  <2>1. CASE Quiet(s) \/ PassGates(s)
    <3>1. UNCHANGED <<delivered, faults>>
      BY <2>1 DEF Quiet, PassGates
    <3>2. s \in Near(d)' => s \in Near(d)
      BY <2>0, <2>1 DEF Quiet, PassGates, Goto, Near
    <3>3. QED
      BY <1>3, <1>4, <1>8, <1>13, <3>1, <3>2
  <2>2. CASE ProviderAccepts(s) \/ ProviderRefuses(s) \/ AnswerLost(s)
    <3>1. s \notin Near(d)' /\ (s \in Near(d) <=> cur[s] = d)
      BY <1>0, <2>2, CallEffect DEF Near
    <3>2. faults' = faults \/ faults' = faults + 1
      BY <1>0, <2>2, CallEffect
    <3>3. CASE d # cur[s]
      <4>1. delivered'[d] = delivered[d]
        BY <1>0, <2>2, <3>3, CallEffect
      <4>2. QED
        BY <1>3, <1>4, <1>8, <1>13, <3>1, <3>2, <3>3, <4>1
    <3>4. CASE d = cur[s]
      <4>1. delivered'[d] = delivered[d] \/ delivered'[d] = delivered[d] + 1
        BY <1>0, <2>2, <3>4, CallEffect
      <4>2. QED
        BY <1>3, <1>4, <1>8, <1>13, <3>1, <3>2, <3>4, <4>1
    <3>5. QED
      BY <3>3, <3>4
  <2>3. CASE RecordAttempt(s) \/ Drops(s)
    <3>1. delivered' = delivered /\ (faults' = faults \/ faults' = faults + 1)
      BY <1>0, <2>3, RecordEffect DEF Drops
    <3>2. s \notin Near(d)'
      BY <1>0, <2>3, RecordEffect DEF Drops, Near
    <3>3. QED
      BY <1>3, <1>4, <1>8, <1>13, <3>1, <3>2
  <2>4. QED
    BY <1>0, <2>1, <2>2, <2>3, StepKinds
<1>14. QED
  BY <1>5, <1>7, <1>12, <1>13

LEMMA SentStep == RecordsInv /\ SentInv /\ [Next]_vars => SentInv'
<1>1. SUFFICES ASSUME RecordsInv, SentInv, [Next]_vars PROVE SentInv'
  OBVIOUS
<1>2. CASE UNCHANGED <<rows, local, delivered, faults>>
  <2>1. \A d \in Drafts : Busy(d)' = Busy(d) /\ Near(d)' = Near(d) /\ Live(d)' = Live(d)
    BY <1>2 DEF Busy, Near, rows, local, Live
  <2>2. UNCHANGED <<status, slotOf, attempts, delivered, faults>>
    BY <1>2 DEF rows
  <2>3. QED
    BY <1>1, <2>1, <2>2 DEF SentInv
<1>3. ASSUME NEW s \in Sessions, Step(s) PROVE SentInv'
  BY <1>1, <1>3, SentLive, SentDeleted DEF SentInv, RecordsInv
<1>4. QED
  BY <1>1, <1>2, <1>3 DEF Next, Tick, vars

LEMMA SentInit == Init => SentInv
<1>1. \A d \in Drafts : Init => status[d] = "none"
  BY DEF Init
<1>2. QED
  BY <1>1 DEF SentInv, Live

LEMMA SentSound == RecordsInv /\ SentInv => DuplicateNeedsFault
<1>1. SUFFICES ASSUME RecordsInv, SentInv, NEW d \in Drafts, slotOf[d] \notin Emails
               PROVE  delivered[d] <= Cardinality(Sessions) + faults
  BY DEF DuplicateNeedsFault
<1>2. DraftInv /\ RowsType /\ RowInv(d)
  BY <1>1, TypeParts DEF RecordsInv, DraftInv
<1> DEFINE h == Cardinality(Holding(d))  b == Cardinality(Busy(d))  k == Cardinality(Sessions)
           a == Cardinality(AcceptedIn(attempts[d]))  n == Cardinality(Near(d))
<1>3. h <= b /\ h \in Nat /\ b \in Nat /\ k \in Nat /\ n \in Nat
  BY <1>2, HoldingBusy
<1>4. delivered[d] \in Nat /\ faults \in Nat /\ a \in Nat
  BY <1>2, AcceptedFinite DEF RowsType
<1>5. Live(d) => delivered[d] <= faults + a + h /\ a + b <= k
  BY <1>1 DEF RecordsInv, OutcomeInv, SentInv
<1>6. status[d] = "deleted" => delivered[d] + n <= faults + k
  BY <1>1 DEF SentInv
<1>7. status[d] = "none" => delivered[d] = 0
  BY <1>2 DEF RowInv
<1>8. Live(d) \/ status[d] = "deleted" \/ status[d] = "none"
  BY DEF Live
<1>9. SUFFICES delivered[d] <= k + faults
  OBVIOUS
<1> HIDE DEF h, b, k, a, n
<1>10. CASE Live(d)
  BY <1>3, <1>4, <1>5, <1>10
<1>11. CASE status[d] = "deleted"
  BY <1>3, <1>4, <1>6, <1>11
<1>12. CASE status[d] = "none"
  <2>1. 0 <= k + faults
    BY <1>3, <1>4
  <2>2. QED
    BY <1>7, <1>12, <2>1
<1>13. QED
  BY <1>8, <1>10, <1>11, <1>12

(* A LinkedIn draft reaches its prospect at most once for each session     *)
(* that races and once more for each fault: the sweeps and retries alone   *)
(* never repeat it.                                                        *)
THEOREM DuplicatesNeedFaults == Spec => []DuplicateNeedsFault
<1>1. Init => RecordsInv /\ SentInv
  BY DraftInvInit, RecordsInit, SentInit DEF RecordsInv
<1>2. QED
  BY <1>1, RecordsStep, SentStep, SentSound, PTL DEF Spec

---------------------------------------------------------------------------
(* One session at a time: what it is about to send is approved, what it is *)
(* about to review is waiting for it, and no draft that was delivered goes *)
(* back.                                                                   *)
ApprovedInv ==
  Cardinality(Sessions) = 1 =>
    /\ \A s \in Sessions : /\ pc[s] \in {"gate", "call"} => Approved(cur[s])
                           /\ pc[s] = "write" => status[cur[s]] = Reviewable
    /\ \A d \in Drafts : delivered[d] > 0 => status[d] \in {"approved", "deleted"}

(* A review is begun on a draft that waits for it.                         *)
LEMMA WriteBegins ==
  ASSUME DraftInv, NEW s \in Sessions, Step(s), pc'[s] = "write"
  PROVE  UNCHANGED rows /\ cur'[s] \in Drafts /\ status[cur'[s]] = Reviewable
<1>1. LocalType
  BY TypeParts DEF DraftInv
<1>2. ASSUME NEW rest, Leave(s, rest) PROVE FALSE
  BY <1>1, <1>2, LeaveLeft DEF Left
<1>3. ASSUME NEW l \in PCs \ {"write"}, Goto(s, l) PROVE FALSE
  BY <1>1, <1>3 DEF Goto, LocalType
<1>4. CASE \E d \in Drafts, v \in Verdicts : StartReview(s, d, v)
  BY <1>1, <1>4 DEF StartReview, LocalType
<1>5. CASE \E d \in Drafts : StartAutoApproval(s, d)
  <2>1. PICK d \in Drafts : StartAutoApproval(s, d)
    BY <1>5
  <2>2. cur'[s] = d /\ status[d] = Reviewable /\ UNCHANGED rows
    BY <1>1, <2>1 DEF StartAutoApproval, LocalType, Unreviewed
  <2>3. QED
    BY <2>2
<1>6. CASE \E d \in Drafts : NextAutoApproval(s, d)
  <2>1. PICK d \in Drafts : NextAutoApproval(s, d)
    BY <1>6
  <2>2. status[d] = Reviewable
    BY <1>2, <2>1 DEF NextAutoApproval
  <2>3. cur'[s] = d /\ UNCHANGED rows
    BY <1>1, <2>1, <2>2 DEF NextAutoApproval, LocalType
  <2>4. QED
    BY <2>2, <2>3
<1>7. CASE DeleteRaises(s) \/ GenerateEnds(s) \/ WriteRaises(s) \/ SkipSend(s) \/ RecordAttempt(s)
           \/ RecordRaises(s) \/ Crash(s) \/ WriteEdit(s)
           \/ \E d \in Drafts, first \in Generated : InsertDraft(s, d, first)
  BY <1>2, <1>7 DEF DeleteRaises, GenerateEnds, WriteRaises, SkipSend, RecordAttempt, RecordRaises,
                    Crash, WriteEdit, InsertDraft, Done
<1>8. CASE \/ \E t \in Slots : StartGenerate(s, t)
           \/ \E d \in Drafts, t \in Slots : StartRegenerate(s, d, t)
           \/ DeleteDraft(s) \/ StartSendSweep(s) \/ PassGates(s)
           \/ \E d \in Drafts : StartEdit(s, d) \/ StartSend(s, d) \/ NextSend(s, d)
           \/ ProviderAccepts(s) \/ ProviderRefuses(s) \/ AnswerLost(s)
  <2>1. \E l \in {"generate", "delete", "next", "edit", "load", "call", "record"} : Goto(s, l)
    BY <1>8 DEF StartGenerate, StartRegenerate, DeleteDraft, StartSendSweep, PassGates, StartEdit,
                StartSend, NextSend, ProviderAccepts, ProviderRefuses, AnswerLost, Answer
  <2>2. QED
    BY <1>3, <2>1 DEF PCs
<1>9. CASE WriteReview(s) \/ LoadDraft(s)
  <2>1. Goto(s, "load") \/ Goto(s, "gate") \/ Leave(s, todo[s])
    BY <1>9 DEF WriteReview, LoadDraft, Done
  <2>2. QED
    BY <1>2, <1>3, <2>1 DEF PCs
<1>10. QED
  BY <1>4, <1>5, <1>6, <1>7, <1>8, <1>9 DEF Step

LEMMA ApprovedStep ==
  ASSUME DraftInv, ApprovedInv, NEW s \in Sessions, Step(s) PROVE ApprovedInv'
<1>1. SUFFICES ASSUME Cardinality(Sessions) = 1 PROVE ApprovedInv'
  BY DEF ApprovedInv
<1>2. Sessions = {s}
  BY <1>1, DraftAssumption, FS_Singleton
<1>3. RowsType /\ LocalType /\ Placed(s)
  BY TypeParts DEF DraftInv
<1>4. /\ pc[s] \in {"gate", "call"} => Approved(cur[s])
      /\ pc[s] = "write" => status[cur[s]] = Reviewable
      /\ \A d \in Drafts : delivered[d] > 0 => status[d] \in {"approved", "deleted"}
  BY <1>1 DEF ApprovedInv
<1>5. pc'[s] = "write" => status'[cur'[s]] = Reviewable
  BY WriteBegins DEF rows
<1>6. pc'[s] \in {"gate", "call"} => Approved(cur[s])'
  <2>1. CASE Quiet(s)
    BY <2>1 DEF Quiet, Approved
  <2>2. CASE PassGates(s)
    BY <1>4, <2>2 DEF PassGates, Approved, rows
  <2>3. CASE ProviderAccepts(s) \/ ProviderRefuses(s) \/ AnswerLost(s)
    BY <2>3, CallEffect
  <2>4. CASE RecordAttempt(s) \/ Drops(s)
    BY <2>4, RecordEffect DEF Drops
  <2>5. QED
    BY <2>1, <2>2, <2>3, <2>4, StepKinds
<1>7. ASSUME NEW d \in Drafts, delivered'[d] > 0 PROVE status'[d] \in {"approved", "deleted"}
  <2>1. CASE ProviderAccepts(s) \/ ProviderRefuses(s) \/ AnswerLost(s)
    <3>1. pc[s] = "call" /\ UNCHANGED rows /\ (d # cur[s] => delivered'[d] = delivered[d])
      BY <2>1, CallEffect
    <3>2. CASE d = cur[s]
      BY <1>4, <3>1, <3>2 DEF Approved, rows
    <3>3. CASE d # cur[s]
      BY <1>4, <1>7, <3>1, <3>3 DEF rows
    <3>4. QED
      BY <3>2, <3>3
  <2>2. CASE UNCHANGED delivered
    <3>1. status[d] \in {"approved", "deleted"}
      BY <1>4, <1>7, <2>2
    <3>2. CASE \E e \in Drafts, first \in Generated : InsertDraft(s, e, first)
      BY <1>3, <3>1, <3>2 DEF InsertDraft, RowsType
    <3>3. CASE WriteReview(s)
      <4>1. pc[s] = "write" /\ cur[s] # d
        BY <1>4, <3>1, <3>3 DEF WriteReview, Reviewable
      <4>2. QED
        BY <1>3, <3>1, <3>3, <4>1 DEF WriteReview, RowsType
    <3>4. CASE DeleteDraft(s)
      BY <1>3, <3>1, <3>4 DEF DeleteDraft, RowsType
    <3>5. CASE UNCHANGED status
      BY <3>1, <3>5
    <3>6. \/ \E e \in Drafts, first \in Generated : InsertDraft(s, e, first)
          \/ WriteReview(s) \/ DeleteDraft(s) \/ UNCHANGED status
      BY DEF Step, StartGenerate, StartRegenerate, DeleteRaises, GenerateEnds, StartReview, WriteRaises, StartEdit,
             WriteEdit, StartAutoApproval, NextAutoApproval, StartSend, NextSend, StartSendSweep, LoadDraft,
             PassGates, SkipSend, ProviderAccepts, ProviderRefuses, AnswerLost, Answer, RecordAttempt,
             RecordRaises, Crash, rows
    <3>7. QED
      BY <3>2, <3>3, <3>4, <3>5, <3>6
  <2>3. QED
    BY <2>1, <2>2, StepKinds, RecordEffect DEF Quiet, PassGates, Drops
<1>8. QED
  BY <1>2, <1>5, <1>6, <1>7 DEF ApprovedInv, Approved

(* With one session at a time, what reached a prospect had been approved,  *)
(* and is still unless a regeneration deleted it.                          *)
THEOREM DeliveredApproved == Spec => []DeliveredWasApproved
<1>1. Init => ApprovedInv
  BY DEF Init, ApprovedInv
<1>2. DraftInv /\ ApprovedInv /\ [Next]_vars => ApprovedInv'
  <2>1. CASE UNCHANGED <<rows, local, delivered>>
    BY <2>1 DEF ApprovedInv, rows, local, Approved
  <2>2. QED
    BY <2>1, ApprovedStep DEF Next, Tick, vars
<1>3. ApprovedInv => DeliveredWasApproved
  BY DEF ApprovedInv, DeliveredWasApproved
<1>4. QED
  BY <1>1, <1>2, <1>3, DraftInvHolds, PTL DEF Spec

---------------------------------------------------------------------------
(* One session at a time: what is on record is not of the future, and a    *)
(* session past the gates finds every recorded success a cooldown ago.     *)
CoolInv ==
  Cardinality(Sessions) = 1 =>
    /\ \A d \in Drafts : \A i \in DOMAIN attempts[d] : attempts[d][i].at <= clock
    /\ \A s \in Sessions : pc[s] \in {"call", "record"} =>
         \A d \in Drafts : \A i \in DOMAIN attempts[d] :
           Success(attempts[d][i]) => attempts[d][i].at + Cooldown <= clock

LEMMA EntryTypes ==
  ASSUME RowsType, NEW d \in Drafts, NEW i \in DOMAIN attempts[d]
  PROVE  attempts[d][i] \in Entry /\ attempts[d][i].at \in Nat
<1>1. attempts[d] \in Seq(Entry)
  BY DEF RowsType
<1>2. attempts[d][i] \in Entry
  BY <1>1
<1>3. QED
  BY <1>2 DEF Entry

(* No step but a record changes what is on record.                         *)
LEMMA OnlyRecords ==
  ASSUME DraftInv, NEW s \in Sessions, Step(s), ~RecordAttempt(s)
  PROVE  UNCHANGED <<attempts, clock>>
BY StepKinds, CallEffect DEF Quiet, PassGates, Drops, rows

LEMMA CoolStep ==
  ASSUME DraftInv, CoolInv, CooldownKept, Cardinality(Sessions) = 1, NEW s \in Sessions, Step(s)
  PROVE  CoolInv' /\ CooldownKept'
<1>1. Sessions = {s}
  BY DraftAssumption, FS_Singleton
<1>2. RowsType /\ LocalType /\ Cooldown \in Nat /\ clock \in Nat
  BY TypeParts, DraftAssumption DEF DraftInv, RowsType
<1>3. /\ \A d \in Drafts : \A i \in DOMAIN attempts[d] : attempts[d][i].at <= clock
      /\ pc[s] \in {"call", "record"} =>
           \A d \in Drafts : \A i \in DOMAIN attempts[d] :
             Success(attempts[d][i]) => attempts[d][i].at + Cooldown <= clock
  BY DEF CoolInv
<1>4. CASE ~RecordAttempt(s)
  <2>1. UNCHANGED <<attempts, clock>>
    BY <1>4, OnlyRecords
  <2>2. CooldownKept'
    BY <2>1 DEF CooldownKept, Success
  <2>3. ASSUME pc'[s] \in {"call", "record"}, NEW d \in Drafts, NEW i \in DOMAIN attempts[d],
               Success(attempts[d][i])
        PROVE  attempts[d][i].at + Cooldown <= clock
    <3>1. CASE pc[s] \in {"call", "record"}
      BY <1>3, <2>3, <3>1
    <3>2. CASE pc[s] \notin {"call", "record"}
      <4>1. PassGates(s)
        BY <1>4, <2>3, <3>2, StepKinds, CallEffect DEF Quiet, Drops
      <4>2. ~(clock < attempts[d][i].at + Cooldown)
        BY <2>3, <4>1 DEF PassGates, Sendable, WithinCooldown, Rows
      <4>3. attempts[d][i].at \in Nat
        BY <1>2, EntryTypes
      <4>4. QED
        BY <1>2, <4>2, <4>3
    <3>3. QED
      BY <3>1, <3>2
  <2>4. CoolInv'
    BY <1>1, <1>3, <2>1, <2>3 DEF CoolInv, Success
  <2>5. QED
    BY <2>2, <2>4
<1>5. CASE RecordAttempt(s)
  <2>1. PICK c \in Drafts : c = cur[s]
    BY <1>5, RecordEffect
  <2>2. PICK e \in Entry : e = [answer |-> outcome[s], at |-> clock]
    BY <1>5, RecordEffect
  <2>3. /\ attempts[c] \in Seq(Entry) /\ attempts'[c] = Append(attempts[c], e) /\ e.at = clock
        /\ \A d \in Drafts : d # c => attempts'[d] = attempts[d]
        /\ pc[s] = "record" /\ pc'[s] \notin {"call", "record"} /\ UNCHANGED clock
    BY <1>5, <2>1, <2>2, RecordEffect
  <2>4. PICK l \in Nat : l = Len(attempts[c])
    BY <2>3
  <2>5. /\ DOMAIN attempts[c] = 1 .. l /\ DOMAIN attempts'[c] = 1 .. l + 1
        /\ attempts'[c][l + 1] = e /\ \A i \in 1 .. l : attempts'[c][i] = attempts[c][i]
    BY <2>3, <2>4
  <2>6. ASSUME NEW d \in Drafts, NEW i \in DOMAIN attempts'[d]
        PROVE  \/ i \in DOMAIN attempts[d] /\ attempts'[d][i] = attempts[d][i]
               \/ d = c /\ i = l + 1 /\ attempts'[d][i] = e
    BY <2>3, <2>5
  <2>7. CoolInv'
    <3>1. \A d \in Drafts : \A i \in DOMAIN attempts'[d] : attempts'[d][i].at <= clock
      BY <1>2, <1>3, <2>3, <2>6
    <3>2. QED
      BY <1>1, <2>3, <3>1 DEF CoolInv
  <2>8. CooldownKept'
    <3>1. SUFFICES ASSUME NEW d1 \in Drafts, NEW d2 \in Drafts, NEW i \in DOMAIN attempts'[d1],
                          NEW j \in DOMAIN attempts'[d2], Success(attempts'[d1][i]), Success(attempts'[d2][j]),
                          <<d1, i>> # <<d2, j>>
                   PROVE  \/ attempts'[d1][i].at + Cooldown <= attempts'[d2][j].at
                          \/ attempts'[d2][j].at + Cooldown <= attempts'[d1][i].at
      BY DEF CooldownKept, Success
    <3>2. CASE /\ i \in DOMAIN attempts[d1] /\ attempts'[d1][i] = attempts[d1][i]
               /\ j \in DOMAIN attempts[d2] /\ attempts'[d2][j] = attempts[d2][j]
      BY <3>1, <3>2 DEF CooldownKept
    <3>3. CASE /\ i \in DOMAIN attempts[d1] /\ attempts'[d1][i] = attempts[d1][i]
               /\ attempts'[d2][j] = e
      BY <1>3, <2>3, <3>1, <3>3
    <3>4. CASE /\ attempts'[d1][i] = e
               /\ j \in DOMAIN attempts[d2] /\ attempts'[d2][j] = attempts[d2][j]
      BY <1>3, <2>3, <3>1, <3>4
    <3>5. CASE d1 = c /\ i = l + 1 /\ d2 = c /\ j = l + 1
      BY <3>1, <3>5
    <3>6. QED
      BY <2>6, <3>2, <3>3, <3>4, <3>5
  <2>9. QED
    BY <2>7, <2>8
<1>6. QED
  BY <1>4, <1>5

(* With one session at a time, recorded pushes into the company keep the   *)
(* cooldown, over all its drafts and for every length of the history.      *)
THEOREM CooldownHolds == Spec => []CooldownKept
<1>1. Init => CoolInv /\ CooldownKept
  BY DEF Init, CoolInv, CooldownKept
<1>2. DraftInv /\ CoolInv /\ CooldownKept /\ [Next]_vars => CoolInv' /\ CooldownKept'
  <2>1. SUFFICES ASSUME DraftInv, CoolInv, CooldownKept, [Next]_vars, Cardinality(Sessions) = 1
                 PROVE  CoolInv' /\ CooldownKept'
    BY DEF CoolInv, CooldownKept
  <2>2. CASE Tick
    <3>1. UNCHANGED <<attempts, pc>> /\ clock' = clock + 1
      BY <2>2 DEF Tick, rows, local
    <3>2. CooldownKept'
      BY <2>1, <3>1 DEF CooldownKept, Success
    <3>3. RowsType /\ clock \in Nat /\ Cooldown \in Nat
      BY <2>1, TypeParts, DraftAssumption DEF DraftInv, RowsType
    <3>4. ASSUME NEW d \in Drafts, NEW i \in DOMAIN attempts[d]
          PROVE  /\ attempts[d][i].at <= clock'
                 /\ attempts[d][i].at + Cooldown <= clock => attempts[d][i].at + Cooldown <= clock'
      <4>1. attempts[d][i].at \in Nat /\ attempts[d][i].at <= clock
        BY <2>1, <3>3, EntryTypes DEF CoolInv
      <4>2. QED
        BY <3>1, <3>3, <4>1
    <3>5. CoolInv'
      BY <2>1, <3>1, <3>4 DEF CoolInv, Success
    <3>6. QED
      BY <3>2, <3>5
  <2>3. CASE UNCHANGED vars
    BY <2>1, <2>3 DEF CoolInv, CooldownKept, vars, rows, local, Success
  <2>4. QED
    BY <2>1, <2>2, <2>3, CoolStep DEF Next
<1>3. QED
  BY <1>1, <1>2, DraftInvHolds, PTL DEF Spec


-----------------------------------------------------------------------------
(* A contact is drafted, or a writer is about to; and whether it may be:   *)
(* it is eligible, and each better-ranked one was tried.                   *)
Begins(c) == Drafted(c) \/ \E w \in Sequencers : writer[w].contact = c
MayBegin(c) == c \in Eligible /\ \A b \in Eligible : b < c => Over(b)

(* A writer that found no eligible contact drafts without one.             *)
ForNobody(w) == writer[w].next = "primary" /\ writer[w].contact = 0

(* The types, and who is written to is known; a reply comes from a contact *)
(* that was sent something.                                                *)
Attached ==
  /\ \A c \in Ranks : Drafted(c) => c \in known
  /\ \A w \in Sequencers :
       /\ writer[w].next = "nothing" => writer[w].contact = 0
       /\ writer[w].next = "other" => writer[w].contact # 0
       /\ writer[w].contact # 0 => writer[w].contact \in known

(* While the eligible contacts are those that drafting began with, only    *)
(* contacts whose turn it is are written to, and there is a draft for      *)
(* nobody only as nobody is eligible.                                      *)
InTurn ==
  ~reshuffled =>
    /\ \A c \in Ranks : Begins(c) => MayBegin(c)
    /\ orphan \/ (\E w \in Sequencers : ForNobody(w)) => Eligible = {}

SequenceInv == SequenceTypeOK /\ Attached /\ InTurn

(* The best of some ranks is one of them, and none is better.              *)
LEMMA BestIsBest ==
  ASSUME NEW S \in SUBSET Nat, S # {}
  PROVE  BestOf(S) \in S /\ \A b \in S : BestOf(S) <= b
<1>1. PICK x \in S : \A y \in S : ~ (<<y, x>> \in OpToRel(<, Nat))
  BY WFMin, NatLessThanWellFounded, Zenon
<1>2. ASSUME NEW y \in S PROVE x <= y
  <2>1. CASE y < x
    <3>1. <<y, x>> \in Nat \X Nat /\ <<y, x>>[1] < <<y, x>>[2]
      BY <2>1
    <3>2. <<y, x>> \in OpToRel(<, Nat)
      BY <3>1 DEF OpToRel
    <3>3. QED
      BY <1>1, <3>2
  <2>2. QED
    BY <2>1
<1>3. QED
  BY <1>2 DEF BestOf

(* What a step that leaves the contacts alone may do to drafts and writers *)
(* without anyone coming out of turn.                                      *)
Orderly ==
  /\ known' = known /\ suppressed' = suppressed /\ reshuffled' = reshuffled
  /\ \A c \in Ranks : (Drafted(c)' => Begins(c)) /\ (Over(c) => Over(c)')
  /\ \A w \in Sequencers : writer'[w].contact \in {0, writer[w].contact} \/ MayBegin(writer'[w].contact)
  /\ orphan' \/ (\E w \in Sequencers : ForNobody(w)') =>
       orphan \/ (\E w \in Sequencers : ForNobody(w)) \/ Eligible = {}

(* Such a step leaves everyone in turn.                                    *)
LEMMA OrderlyInTurn == ASSUME SequenceInv, Orderly PROVE InTurn'
<1>1. SUFFICES ASSUME ~reshuffled'
      PROVE  /\ \A c \in Ranks : Begins(c)' => MayBegin(c)'
             /\ orphan' \/ (\E w \in Sequencers : ForNobody(w)') => Eligible' = {}
  BY DEF InTurn
<1>2. /\ \A c \in Ranks : Begins(c) => MayBegin(c)
      /\ orphan \/ (\E w \in Sequencers : ForNobody(w)) => Eligible = {}
      /\ Eligible' = Eligible /\ Eligible \subseteq Ranks
  BY <1>1 DEF SequenceInv, InTurn, Orderly, Eligible, SequenceTypeOK
<1>3. ASSUME NEW c \in Ranks, Begins(c)' PROVE MayBegin(c)'
  <2>1. c # 0
    BY SequenceAssumption
  <2>2. Begins(c) \/ MayBegin(c)
    BY <1>3, <2>1 DEF Begins, Orderly
  <2>3. MayBegin(c)
    BY <1>2, <2>2
  <2>4. QED
    BY <1>2, <2>3 DEF MayBegin, Orderly
<1>4. orphan' \/ (\E w \in Sequencers : ForNobody(w)') => Eligible' = {}
  BY <1>2 DEF Orderly
<1>5. QED
  BY <1>3, <1>4

(* A row that changes keeps the others; a draft stays one, and over.       *)
LEMMA RowMoves ==
  ASSUME SequenceTypeOK, NEW c \in Ranks, NEW k \in Kinds, NEW to \in {"empty", "unsent", "sent", "waited", "failed"},
         RowTo(c, k, to)
  PROVE  /\ rowOf' \in [Ranks \X Kinds -> {"none", "empty", "unsent", "sent", "waited", "failed"}]
         /\ rowOf'[<<c, k>>] = to
         /\ \A b \in Ranks, j \in Kinds : <<b, j>> # <<c, k>> => rowOf'[<<b, j>>] = rowOf[<<b, j>>]
BY DEF SequenceTypeOK, RowTo

(* The contacts change: drafting has not begun, or they are reshuffled.    *)
LEMMA ContactsChange ==
  ASSUME SequenceInv, NEW c \in Ranks, DiscoverContact(c) \/ SetSuppressed(c)
  PROVE  SequenceInv'
<1>1. /\ known' \in SUBSET Ranks /\ known \subseteq known' /\ suppressed' \in SUBSET known'
      /\ reshuffled' = (reshuffled \/ Begun) /\ UNCHANGED <<rowOf, orphan, replied, meeting, cooling, writer>>
  BY DEF DiscoverContact, SetSuppressed, SequenceInv, SequenceTypeOK
<1>2. SequenceTypeOK'
  <2>1. Begun \in BOOLEAN
    BY DEF Begun
  <2>2. QED
    BY <1>1, <2>1 DEF SequenceInv, SequenceTypeOK
<1>3. Attached'
  BY <1>1 DEF SequenceInv, Attached, Drafted
<1>4. InTurn'
  <2>1. SUFFICES ASSUME ~Begun PROVE InTurn'
    BY <1>1 DEF InTurn
  <2>2. ~orphan /\ (\A d \in Ranks : ~Drafted(d)) /\ \A w \in Sequencers : writer[w].next = "nothing"
    BY <2>1 DEF Begun
  <2>3. \A w \in Sequencers : writer[w].contact = 0
    BY <2>2 DEF SequenceInv, Attached
  <2>4. \A d \in Ranks : ~Begins(d)'
    BY <1>1, <2>2, <2>3, SequenceAssumption DEF Begins, Drafted
  <2>5. ~orphan' /\ \A w \in Sequencers : ~ForNobody(w)'
    BY <1>1, <2>2 DEF ForNobody
  <2>6. QED
    BY <2>4, <2>5 DEF InTurn
<1>5. QED
  BY <1>2, <1>3, <1>4 DEF SequenceInv

(* A draft that is sent, fails or is waited for stays a draft.             *)
LEMMA RowsAdvance ==
  ASSUME SequenceInv, NEW c \in Ranks, NEW k \in Kinds,
         FallbackDelayPasses(c, k) \/ \E result \in {"sent", "failed"} : SendRow(c, k, result)
  PROVE  SequenceInv'
<1>1. PICK to \in {"sent", "waited", "failed"} :
        /\ RowTo(c, k, to) /\ (rowOf[<<c, k>>] = "unsent" \/ (rowOf[<<c, k>>] = "sent" /\ to = "waited"))
        /\ cooling' \in BOOLEAN /\ UNCHANGED <<known, suppressed, orphan, replied, meeting, writer, reshuffled>>
  BY DEF FallbackDelayPasses, SendRow, SequenceInv, SequenceTypeOK
<1>2. /\ rowOf' \in [Ranks \X Kinds -> {"none", "empty", "unsent", "sent", "waited", "failed"}]
      /\ rowOf'[<<c, k>>] = to
      /\ \A b \in Ranks, j \in Kinds : <<b, j>> # <<c, k>> => rowOf'[<<b, j>>] = rowOf[<<b, j>>]
  BY <1>1, RowMoves DEF SequenceInv
<1>3. \A b \in Ranks, j \in Kinds :
        /\ rowOf'[<<b, j>>] # "none" => rowOf[<<b, j>>] # "none"
        /\ rowOf[<<b, j>>] \in {"waited", "failed"} => rowOf'[<<b, j>>] \in {"waited", "failed"}
        /\ rowOf[<<b, j>>] \in {"sent", "waited"} => rowOf'[<<b, j>>] \in {"sent", "waited"}
  BY <1>1, <1>2
<1>4. SequenceTypeOK'
  BY <1>1, <1>2, <1>3 DEF SequenceInv, SequenceTypeOK
<1>5. Attached'
  BY <1>1, <1>3 DEF SequenceInv, Attached, Drafted
<1>6. Orderly
  BY <1>1, <1>3 DEF Orderly, Drafted, Over, Begins, ForNobody
<1>7. QED
  BY <1>4, <1>5, <1>6, OrderlyInTurn DEF SequenceInv

(* Replies and meetings move no draft.                                     *)
LEMMA RepliesKeep ==
  ASSUME SequenceInv, CoolingEnds \/ RecordMeeting \/ \E c \in Ranks : RecordReply(c)
  PROVE  SequenceInv'
<1>1. /\ UNCHANGED <<known, suppressed, rowOf, orphan, writer, reshuffled>>
      /\ meeting' \in BOOLEAN /\ cooling' \in BOOLEAN
      /\ replied' = replied \/ \E c \in Ranks : RecordReply(c)
  BY DEF CoolingEnds, RecordMeeting, RecordReply, SequenceInv, SequenceTypeOK
<1>2. replied' \subseteq {b \in known : \E k \in Kinds : rowOf[<<b, k>>] \in {"sent", "waited"}}
  <2>1. CASE replied' = replied
    BY <2>1 DEF SequenceInv, SequenceTypeOK
  <2>2. ASSUME NEW c \in Ranks, RecordReply(c)
        PROVE  replied' \subseteq {b \in known : \E k \in Kinds : rowOf[<<b, k>>] \in {"sent", "waited"}}
    <3>1. (\E k \in Kinds : rowOf[<<c, k>>] \in {"sent", "waited"}) /\ replied' = replied \cup {c}
      BY <2>2 DEF RecordReply
    <3>2. c \in known
      BY <3>1 DEF SequenceInv, Attached, Drafted
    <3>3. QED
      BY <3>1, <3>2 DEF SequenceInv, SequenceTypeOK
  <2>3. QED
    BY <1>1, <2>1, <2>2
<1>3. SequenceTypeOK'
  BY <1>1, <1>2 DEF SequenceInv, SequenceTypeOK
<1>4. Attached' /\ InTurn'
  BY <1>1 DEF SequenceInv, Attached, InTurn, Drafted, Begins, MayBegin, Eligible, Over, ForNobody
<1>5. QED
  BY <1>3, <1>4 DEF SequenceInv

(* A writer begins with the best contact or the next one in turn.          *)
LEMMA WritersBegin ==
  ASSUME SequenceInv, NEW w \in Sequencers,
         StartPrimary(w) \/ RecoverOrphan(w) \/ \E c \in Ranks : StartFallback(w, c)
  PROVE  SequenceInv'
<1>1. PICK c \in Ranks \cup {0} :
        /\ Writes(w, "primary", c) /\ Free(w) /\ UNCHANGED rowOf /\ SequenceFrame /\ (orphan' = orphan \/ orphan' = FALSE)
        /\ IF c = 0 THEN Eligible = {} ELSE MayBegin(c)
  <2>1. Eligible \subseteq Ranks /\ Ranks \subseteq Nat /\ 0 \notin Ranks
    BY SequenceAssumption DEF SequenceInv, SequenceTypeOK, Eligible
  <2>2. IF Eligible = {} THEN BestOf(Eligible) = 0 ELSE BestOf(Eligible) \in Ranks /\ MayBegin(BestOf(Eligible))
    <3>1. CASE Eligible = {}
      BY <3>1 DEF BestOf
    <3>2. CASE Eligible # {}
      <4> DEFINE best == BestOf(Eligible)
      <4>1. best \in Eligible /\ \A b \in Eligible : best <= b
        BY <2>1, <3>2, BestIsBest
      <4> HIDE DEF best
      <4>2. ASSUME NEW b \in Eligible PROVE ~(b < best)
        <5>1. best \in Nat /\ b \in Nat /\ best <= b
          BY <2>1, <4>1
        <5>2. QED
          BY <5>1
      <4>3. best \in Ranks /\ MayBegin(best)
        BY <2>1, <4>1, <4>2 DEF MayBegin
      <4>4. QED
        BY <3>2, <4>3 DEF best
    <3>3. QED
      BY <3>1, <3>2
  <2>3. CASE StartPrimary(w)
    BY <2>1, <2>2, <2>3 DEF StartPrimary
  <2>4. CASE RecoverOrphan(w)
    BY <2>1, <2>2, <2>4 DEF RecoverOrphan
  <2>5. ASSUME NEW d \in Ranks, StartFallback(w, d)
        PROVE  /\ Writes(w, "primary", d) /\ Free(w) /\ UNCHANGED rowOf /\ SequenceFrame /\ orphan' = orphan
               /\ d # 0 /\ MayBegin(d)
    BY <2>1, <2>5 DEF StartFallback, IsFallback, Tried, MayBegin
  <2>6. QED
    BY <2>3, <2>4, <2>5
<1>2. /\ writer' \in [Sequencers -> [next : {"nothing", "primary", "other"}, contact : Ranks \cup {0}]]
      /\ writer'[w].next = "primary" /\ writer'[w].contact = c
      /\ \A v \in Sequencers : v # w => writer'[v] = writer[v]
  BY <1>1 DEF Writes, SequenceInv, SequenceTypeOK
<1>3. known' = known /\ suppressed' = suppressed /\ reshuffled' = reshuffled /\ rowOf' = rowOf /\ orphan' \in BOOLEAN
      /\ replied' = replied /\ meeting' = meeting /\ cooling' = cooling
  BY <1>1 DEF SequenceFrame, SequenceInv, SequenceTypeOK
<1>4. SequenceTypeOK'
  BY <1>2, <1>3 DEF SequenceInv, SequenceTypeOK
<1>5. Attached'
  BY <1>1, <1>2, <1>3 DEF SequenceInv, Attached, Drafted, MayBegin, Eligible
<1>6. Orderly
  BY <1>1, <1>2, <1>3 DEF Orderly, Drafted, Over, Begins, ForNobody
<1>7. QED
  BY <1>4, <1>5, <1>6, OrderlyInTurn DEF SequenceInv

(* A writer writes for its contact only, and goes on with it or stops.     *)
LEMMA WritersWrite ==
  ASSUME SequenceInv, NEW w \in Sequencers, WritePrimary(w) \/ WriteOther(w) \/ WriterFails(w)
  PROVE  SequenceInv'
<1> DEFINE c == writer[w].contact
<1>1. c \in Ranks \cup {0} /\ writer \in [Sequencers -> [next : {"nothing", "primary", "other"}, contact : Ranks \cup {0}]]
  BY DEF SequenceInv, SequenceTypeOK
<1>2. /\ SequenceFrame
      /\ (Writes(w, "other", c) /\ c # 0) \/ Writes(w, "nothing", 0)
      /\ orphan' = orphan \/ (orphan' = TRUE /\ ForNobody(w))
      /\ rowOf' = rowOf \/ \E k \in Kinds, to \in {"unsent", "empty"} : c # 0 /\ rowOf[<<c, k>>] = "none" /\ RowTo(c, k, to)
  <2>1. CASE WritePrimary(w)
    BY <2>1 DEF WritePrimary, ForNobody, Kinds
  <2>2. CASE WriteOther(w)
    BY <2>2 DEF WriteOther, SequenceInv, Attached, Kinds
  <2>3. CASE WriterFails(w)
    BY <2>3 DEF WriterFails
  <2>4. QED
    BY <2>1, <2>2, <2>3
<1>3. /\ writer' \in [Sequencers -> [next : {"nothing", "primary", "other"}, contact : Ranks \cup {0}]]
      /\ (writer'[w].next = "other" /\ writer'[w].contact = c /\ c # 0) \/ (writer'[w].next = "nothing" /\ writer'[w].contact = 0)
      /\ \A v \in Sequencers : v # w => writer'[v] = writer[v]
  BY <1>1, <1>2 DEF Writes
<1>4. /\ known' = known /\ suppressed' = suppressed /\ reshuffled' = reshuffled /\ orphan' \in BOOLEAN
      /\ replied' = replied /\ meeting' = meeting /\ cooling' = cooling
  BY <1>2 DEF SequenceFrame, SequenceInv, SequenceTypeOK
<1>5. /\ rowOf' \in [Ranks \X Kinds -> {"none", "empty", "unsent", "sent", "waited", "failed"}]
      /\ \A b \in Ranks, j \in Kinds : rowOf'[<<b, j>>] = rowOf[<<b, j>>] \/ (b = c /\ rowOf[<<b, j>>] = "none")
  <2> DEFINE Result ==
        /\ rowOf' \in [Ranks \X Kinds -> {"none", "empty", "unsent", "sent", "waited", "failed"}]
        /\ \A b \in Ranks, j \in Kinds : rowOf'[<<b, j>>] = rowOf[<<b, j>>] \/ (b = c /\ rowOf[<<b, j>>] = "none")
  <2>1. CASE rowOf' = rowOf
    BY <2>1 DEF SequenceInv, SequenceTypeOK
  <2>2. ASSUME NEW k \in Kinds, NEW to \in {"unsent", "empty"}, c # 0, rowOf[<<c, k>>] = "none", RowTo(c, k, to) PROVE Result
    <3>1. c \in Ranks /\ SequenceTypeOK
      BY <1>1, <2>2 DEF SequenceInv
    <3>2. /\ rowOf' \in [Ranks \X Kinds -> {"none", "empty", "unsent", "sent", "waited", "failed"}]
          /\ \A b \in Ranks, j \in Kinds : <<b, j>> # <<c, k>> => rowOf'[<<b, j>>] = rowOf[<<b, j>>]
      BY <2>2, <3>1, RowMoves
    <3>3. ASSUME NEW b \in Ranks, NEW j \in Kinds
          PROVE  rowOf'[<<b, j>>] = rowOf[<<b, j>>] \/ (b = c /\ rowOf[<<b, j>>] = "none")
      <4>1. CASE b = c /\ j = k
        BY <2>2, <4>1
      <4>2. CASE ~(b = c /\ j = k)
        BY <3>2, <4>2
      <4>3. QED
        BY <4>1, <4>2
    <3>4. QED
      BY <3>2, <3>3
  <2>3. QED
    BY <1>2, <2>1, <2>2
<1>6. SequenceTypeOK'
  BY <1>3, <1>4, <1>5 DEF SequenceInv, SequenceTypeOK
<1>7. Attached'
  <2>1. c # 0 => c \in known
    BY DEF SequenceInv, Attached
  <2>2. ASSUME NEW b \in Ranks, Drafted(b)' PROVE b \in known'
    <3>1. Drafted(b) \/ (b = c /\ c # 0)
      BY <1>5, <2>2, SequenceAssumption DEF Drafted
    <3>2. QED
      BY <1>4, <2>1, <3>1 DEF SequenceInv, Attached
  <2>3. ASSUME NEW v \in Sequencers
        PROVE  /\ writer'[v].next = "nothing" => writer'[v].contact = 0
               /\ writer'[v].next = "other" => writer'[v].contact # 0
               /\ writer'[v].contact # 0 => writer'[v].contact \in known'
    <3>1. CASE v = w
      BY <1>3, <1>4, <2>1, <3>1
    <3>2. CASE v # w
      BY <1>3, <1>4, <3>2 DEF SequenceInv, Attached
    <3>3. QED
      BY <3>1, <3>2
  <2>4. QED
    BY <2>2, <2>3 DEF Attached
<1>8. Orderly
  <2>1. ASSUME NEW b \in Ranks PROVE (Drafted(b)' => Begins(b)) /\ (Over(b) => Over(b)')
    BY <1>5, <2>1 DEF Drafted, Over, Begins
  <2>2. ASSUME NEW v \in Sequencers PROVE writer'[v].contact \in {0, writer[v].contact} /\ (ForNobody(v)' => ForNobody(v))
    <3>1. CASE v = w
      BY <1>3, <3>1 DEF ForNobody
    <3>2. CASE v # w
      BY <1>3, <3>2 DEF ForNobody
    <3>3. QED
      BY <3>1, <3>2
  <2>3. orphan' => orphan \/ \E v \in Sequencers : ForNobody(v)
    BY <1>2
  <2>4. QED
    BY <1>4, <2>1, <2>2, <2>3 DEF Orderly
<1>9. QED
  BY <1>6, <1>7, <1>8, OrderlyInTurn DEF SequenceInv

(* Drafting never gets ahead of the ranks, and no contact is begun once    *)
(* the company replied, for any number of contacts and of writers.         *)
LEMMA SequenceInvHolds == SequenceSpec => []SequenceInv
<1>1. SequenceInit => SequenceInv
  <2>1. SUFFICES ASSUME SequenceInit PROVE SequenceInv
    OBVIOUS
  <2>2. SequenceTypeOK
    BY <2>1 DEF SequenceInit, SequenceTypeOK
  <2>3. /\ \A c \in Ranks : ~Drafted(c) /\ c # 0
        /\ \A w \in Sequencers : writer[w].next = "nothing" /\ writer[w].contact = 0
        /\ orphan = FALSE
    BY <2>1, SequenceAssumption DEF SequenceInit, Drafted, Kinds
  <2>4. Attached /\ InTurn
    BY <2>3 DEF Attached, InTurn, Begins, ForNobody
  <2>5. QED
    BY <2>2, <2>4 DEF SequenceInv
<1>2. SequenceInv /\ [SequenceNext]_sequenceVars => SequenceInv'
  <2>1. ASSUME SequenceInv, SequenceNext PROVE SequenceInv'
    BY <2>1, ContactsChange, RowsAdvance, RepliesKeep, WritersBegin, WritersWrite DEF SequenceNext
  <2>2. ASSUME SequenceInv, UNCHANGED sequenceVars PROVE SequenceInv'
    BY <2>2 DEF SequenceInv, sequenceVars, SequenceTypeOK, Attached, InTurn, Begins, MayBegin, Drafted, Over, Eligible, ForNobody
  <2>3. QED
    BY <2>1, <2>2
<1>3. QED
  BY <1>1, <1>2, PTL DEF SequenceSpec

(* A contact that is begun when another has a draft comes after every one  *)
(* that has, and each of these was tried: none of them replied.            *)
LEMMA BegunUnengaged ==
  ASSUME SequenceInv, [SequenceNext]_sequenceVars, NEW w \in Sequencers, Free(w), writer'[w].contact # 0, ~reshuffled,
         \E c \in Ranks : Drafted(c)
  PROVE  replied = {}
<1>1. writer[w].contact = 0 /\ (\A c \in Ranks : Begins(c) => MayBegin(c)) /\ (orphan => Eligible = {})
  BY DEF SequenceInv, Attached, Free, InTurn
<1>2. \E v \in Sequencers : StartPrimary(v) \/ RecoverOrphan(v) \/ \E c \in Ranks : StartFallback(v, c)
  <2>1. writer' # writer
    BY <1>1
  <2>2. ASSUME NEW v \in Sequencers, WritePrimary(v) \/ WriteOther(v) \/ WriterFails(v) PROVE FALSE
    <3>1. writer' = [writer EXCEPT ![v] = writer'[v]] /\ ~Free(v) /\ w # v
      BY <2>2 DEF WritePrimary, WriteOther, WriterFails, Writes, Free, SequenceInv, SequenceTypeOK
    <3>2. QED
      BY <1>1, <3>1 DEF SequenceInv, SequenceTypeOK
  <2>3. QED
    BY <2>1, <2>2 DEF SequenceNext, sequenceVars, DiscoverContact, SetSuppressed, RecordReply, FallbackDelayPasses, SendRow,
                      CoolingEnds, RecordMeeting
<1>3. \E v \in Sequencers, c \in Ranks : StartFallback(v, c)
  BY <1>1, <1>2 DEF StartPrimary, RecoverOrphan
<1>4. PICK c \in Ranks : IsFallback(c)
  BY <1>3 DEF StartFallback
<1>5. ASSUME NEW b \in replied PROVE FALSE
  <2>1. b \in Ranks /\ Drafted(b) /\ Ranks \subseteq Nat
    BY SequenceAssumption DEF SequenceInv, SequenceTypeOK, Drafted
  <2>2. MayBegin(b)
    BY <1>1, <2>1 DEF Begins
  <2>3. ~(b < c)
    BY <1>4, <2>2 DEF IsFallback, Tried, MayBegin
  <2>4. b # c
    BY <1>4, <2>1 DEF IsFallback
  <2>5. c < b
    BY <2>1, <2>3, <2>4
  <2>6. Over(c)
    BY <1>4, <2>2, <2>5 DEF MayBegin, IsFallback
  <2>7. QED
    BY <1>4, <2>6 DEF IsFallback, Drafted, Over
<1>6. QED
  BY <1>5

(* Unless the eligible contacts changed, drafts follow the ranks and none  *)
(* is begun once the company replied, for any ranks and any writers.       *)
THEOREM SequenceIsHeld == SequenceSpec => SequenceHolds
<1>1. SequenceInv => SequenceTypeOK /\ FallbackComesLast
  BY DEF SequenceInv, InTurn, Begins, MayBegin, FallbackComesLast
<1>2. SequenceInv /\ [SequenceNext]_sequenceVars =>
        [\A w \in Sequencers : (Free(w) /\ writer'[w].contact # 0 /\ ~reshuffled /\ \E c \in Ranks : Drafted(c)) => replied = {}]_sequenceVars
  BY BegunUnengaged
<1>3. QED
  BY <1>1, <1>2, SequenceInvHolds, PTL DEF SequenceHolds, EngagedHolds, SequenceSpec

-----------------------------------------------------------------------------
(* The matches of companies and ICPs.                                      *)

(* The shapes of what is on file, and of what a worker has in hand.        *)
FirmRow == OrUnknown(FirmShape)
SweepTurns == [does: {"sweeps"}, todo: SUBSET Firms, on: {Unknown}]
SweepWrites ==
  [does: {"sweeps"}, todo: SUBSET Firms, on: Firms, row: FirmShape, attempts: OrUnknown(Nat), left: SUBSET Icps]
GateRuns == [does: {"gates"}, todo: SUBSET Firms, on: OrUnknown(Firms), rows: [Firms -> FirmRow], asked: BOOLEAN]
SomeRows == UNION {[S -> FirmRow] : S \in SUBSET Firms}
BackfillRuns == [does: {"backfills"}, todo: SUBSET Firms, on: OrUnknown(Firms), rows: SomeRows, asked: BOOLEAN]
IcpWork == {NoWork} \cup SweepTurns \cup SweepWrites \cup GateRuns \cup BackfillRuns

WorkTyped == icpWorker \in [IcpWorkers -> IcpWork]
FilesTyped ==
  /\ firm \in [Firms -> FirmRow] /\ evaluated \in [Firms -> Evaluation] /\ matches \subseteq Firms \X Icps
  /\ icpDay \in 0..MaxIcpDay /\ edits \in 0..MaxEdits
  /\ stale \subseteq Firms /\ mixed \subseteq Firms /\ hurried \subseteq Firms /\ misjudged \subseteq Firms
  /\ tries \in [Firms -> Nat]

(* A sweep has a company in hand: on its list, or at it.  Those it has     *)
(* alone are neither mixed up by two workers nor gone.                     *)
Sweeping(rec, c) == rec.does = "sweeps" /\ c \in rec.todo \cup {rec.on}
Writing(rec, c) == rec.does = "sweeps" /\ rec.on = c
Undisturbed == OnFile \ mixed
OneSweeps ==
  \A c \in Firms \ mixed, v, w \in IcpWorkers : Sweeping(icpWorker[v], c) /\ Sweeping(icpWorker[w], c) => v = w
ListsApart == \A w \in IcpWorkers : icpWorker[w].does = "sweeps" => icpWorker[w].on \notin icpWorker[w].todo

(* The verdicts on c as its row is, for a set of ICPs.                     *)
TrueOf(c, S) == \A i \in S : ~Missing(firm[c], i) => (<<c, i>> \in matches <=> Matched(firm[c], i))
(* Those written so far are true, and those that are complete.             *)
WrittenInv ==
  \A w \in IcpWorkers, c \in Undisturbed \ stale :
    Writing(icpWorker[w], c) => icpWorker[w].row = firm[c] /\ TrueOf(c, Icps \ icpWorker[w].left)
StillInv ==
  \A c \in Undisturbed \ stale :
    Known(evaluated[c].day) /\ (\A w \in IcpWorkers : ~Writing(icpWorker[w], c)) => TrueOf(c, Icps)

(* What a sweep has in hand is due, and its copy of the attempts is right. *)
DueInv ==
  \A w \in IcpWorkers, c \in Undisturbed :
    Sweeping(icpWorker[w], c) =>
      Due(c) /\ (icpWorker[w].on = c => icpWorker[w].attempts \in {Unknown, evaluated[c].attempts})
TriesInv ==
  \A c \in Firms \ mixed :
    /\ tries[c] <= MaxEvaluations /\ c \notin hurried
    /\ c \in OnFile => tries[c] = evaluated[c].attempts /\ (~Known(evaluated[c].day) => evaluated[c].attempts = 0)

(* A gate has the rows as they are.                                        *)
GateInv ==
  \A w \in IcpWorkers, c \in Undisturbed :
    icpWorker[w].does = "gates" /\ c \in icpWorker[w].todo \cup {icpWorker[w].on} => icpWorker[w].rows[c] = firm[c]

IcpInv ==
  /\ WorkTyped /\ FilesTyped /\ OneSweeps /\ ListsApart /\ WrittenInv /\ StillInv /\ DueInv /\ TriesInv /\ GateInv
  /\ DropIsJustified /\ NoOrphanMatch

(* What the shapes say.                                                    *)
LEMMA WorkIs ==
  ASSUME NEW rec \in IcpWork
  PROVE  /\ rec.does \in {"nothing", "sweeps", "gates", "backfills"}
         /\ rec.todo \subseteq Firms /\ rec.on \in Firms \cup {Unknown}
         /\ rec.does = "nothing" => rec = NoWork
         /\ rec.does = "sweeps" => rec \in SweepTurns \cup SweepWrites
         /\ rec.does = "sweeps" /\ Known(rec.on) => rec \in SweepWrites
         /\ rec.does = "gates" => rec \in GateRuns
         /\ rec.does = "backfills" => rec \in BackfillRuns
<1>1. CASE rec = NoWork
  BY <1>1 DEF NoWork
<1>2. CASE rec \in SweepTurns
  BY <1>2 DEF SweepTurns, Known
<1>3. CASE rec \in SweepWrites
  BY <1>3, IcpAssumption DEF SweepWrites
<1>4. CASE rec \in GateRuns
  BY <1>4 DEF GateRuns, OrUnknown
<1>5. CASE rec \in BackfillRuns
  BY <1>5 DEF BackfillRuns, OrUnknown
<1> QED
  BY <1>1, <1>2, <1>3, <1>4, <1>5 DEF IcpWork

(* A worker's record is replaced.                                          *)
LEMMA WorkPut ==
  ASSUME WorkTyped, NEW w \in IcpWorkers, NEW rec \in IcpWork, icpWorker' = [icpWorker EXCEPT ![w] = rec]
  PROVE  WorkTyped' /\ icpWorker'[w] = rec /\ \A v \in IcpWorkers : v # w => icpWorker'[v] = icpWorker[v]
BY DEF WorkTyped

(* A company on file has a row.                                            *)
LEMMA RowIs ==
  ASSUME FilesTyped, NEW c \in OnFile
  PROVE  c \in Firms /\ firm[c] \in FirmShape
BY DEF FilesTyped, OnFile, FirmRow, OrUnknown, Known

(* A worker that has finished, or does anything but sweep, changes its     *)
(* record only.                                                            *)
LEMMA RecordMoves ==
  ASSUME IcpInv, NEW w \in IcpWorkers, NEW rec \in IcpWork, icpWorker' = [icpWorker EXCEPT ![w] = rec],
         UNCHANGED <<firm, evaluated, matches, icpDay, edits, icpGhosts>>,
         icpWorker[w].does = "sweeps" => icpWorker[w].on = Unknown, rec.does # "sweeps",
         \A c \in Undisturbed : rec.does = "gates" /\ c \in rec.todo \cup {rec.on} => rec.rows[c] = firm[c]
  PROVE  IcpInv'
<1>1. WorkTyped' /\ icpWorker'[w] = rec /\ \A v \in IcpWorkers : v # w => icpWorker'[v] = icpWorker[v]
  BY WorkPut DEF IcpInv
<1>2. /\ FilesTyped' /\ DropIsJustified' /\ NoOrphanMatch' /\ TriesInv' /\ OnFile' = OnFile
      /\ Undisturbed' = Undisturbed /\ stale' = stale /\ mixed' = mixed /\ firm' = firm
      /\ evaluated' = evaluated /\ icpDay' = icpDay /\ \A c \in Firms : Due(c)' <=> Due(c)
  BY DEF IcpInv, FilesTyped, DropIsJustified, NoOrphanMatch, TriesInv, OnFile, Undisturbed, Due, icpGhosts
<1>3. Undisturbed \subseteq Firms /\ \A c \in Firms : c # Unknown
  BY IcpAssumption DEF Undisturbed, OnFile
<1>4. \A c : Sweeping(rec, c) = FALSE /\ Writing(rec, c) = FALSE
  BY DEF Sweeping, Writing
<1>5. OneSweeps' /\ ListsApart'
  BY <1>1, <1>2, <1>4 DEF IcpInv, OneSweeps, ListsApart, Sweeping
<1>6. \A c \in Firms, S \in SUBSET Icps : TrueOf(c, S)' <=> TrueOf(c, S)
  BY DEF TrueOf
<1>7. WrittenInv'
  BY <1>1, <1>2, <1>3, <1>4, <1>6 DEF IcpInv, WrittenInv
<1>8. StillInv'
  <2>1. \A c \in Firms : ~Writing(icpWorker[w], c)
    BY <1>3 DEF Writing
  <2> QED
    BY <1>1, <1>2, <1>3, <1>6, <2>1 DEF IcpInv, StillInv
<1>9. DueInv'
  BY <1>1, <1>2, <1>3, <1>4 DEF IcpInv, DueInv, Sweeping
<1>10. GateInv'
  BY <1>1, <1>2 DEF IcpInv, GateInv
<1> QED
  BY <1>1, <1>2, <1>5, <1>7, <1>8, <1>9, <1>10 DEF IcpInv

(* A gate begins.                                                          *)
LEMMA GateBegins ==
  ASSUME IcpInv, NEW w \in IcpWorkers, gate_batch_before_decision_makers(w)
  PROVE  IcpInv'
<1> DEFINE rec == [does |-> "gates", todo |-> OnFile, on |-> Unknown, rows |-> firm, asked |-> FALSE]
<1>1. rec \in IcpWork
  BY DEF IcpInv, FilesTyped, IcpWork, GateRuns, OrUnknown, OnFile
<1>2. icpWorker' = [icpWorker EXCEPT ![w] = rec] /\ icpWorker[w].does = "nothing"
  BY DEF gate_batch_before_decision_makers, Idle
<1>3. UNCHANGED <<firm, evaluated, matches, icpDay, edits, icpGhosts>>
  BY DEF gate_batch_before_decision_makers
<1> QED
  BY <1>1, <1>2, <1>3, RecordMoves

(* It takes a company of its batch.                                        *)
LEMMA GateTakesKeeps ==
  ASSUME IcpInv, NEW w \in IcpWorkers, NEW c \in Firms, GateTakes(w, c)
  PROVE  IcpInv'
<1> DEFINE rec == [icpWorker[w] EXCEPT !.todo = @ \ {c}, !.on = c, !.asked = FALSE]
<1>1. icpWorker[w] \in GateRuns /\ c \in icpWorker[w].todo
  BY WorkIs DEF GateTakes, Between, IcpInv, WorkTyped
<1>2. /\ rec \in GateRuns /\ rec.does = "gates" /\ rec.rows = icpWorker[w].rows /\ rec.on = c
      /\ rec.todo = icpWorker[w].todo \ {c}
  BY <1>1 DEF GateRuns, OrUnknown
<1>3. rec \in IcpWork
  BY <1>2 DEF IcpWork
<1>4. icpWorker' = [icpWorker EXCEPT ![w] = rec] /\ UNCHANGED <<firm, evaluated, matches, icpDay, edits, icpGhosts>>
  BY <1>1 DEF GateTakes, IcpInv, WorkTyped
<1>5. icpWorker[w].does = "gates"
  BY <1>1 DEF GateRuns
<1> HIDE DEF rec
<1>6. \A d \in Undisturbed : rec.does = "gates" /\ d \in rec.todo \cup {rec.on} => rec.rows[d] = firm[d]
  BY <1>1, <1>2, <1>5 DEF IcpInv, GateInv
<1> QED
  BY <1>2, <1>3, <1>4, <1>5, <1>6, RecordMoves

(* A list without rows.                                                    *)
LEMMA NoRows ==
  <<>> \in SomeRows
<1>1. <<>> \in [{} -> FirmRow]
  OBVIOUS
<1> QED
  BY <1>1 DEF SomeRows

(* A backfill begins with companies that have no figure.                   *)
LEMMA BackfillBegins ==
  ASSUME IcpInv, NEW w \in IcpWorkers, run_revenue_backfill_sweep(w)
  PROVE  IcpInv'
<1>1. PICK S \in SUBSET Firms : icpWorker' = [icpWorker EXCEPT ![w] =
            [does |-> "backfills", todo |-> S, on |-> Unknown, rows |-> <<>>, asked |-> FALSE]]
  BY DEF run_revenue_backfill_sweep, OnFile
<1> DEFINE rec == [does |-> "backfills", todo |-> S, on |-> Unknown, rows |-> <<>>, asked |-> FALSE]
<1>2. rec \in IcpWork
  BY NoRows DEF IcpWork, BackfillRuns, OrUnknown
<1>3. icpWorker[w].does = "nothing" /\ UNCHANGED <<firm, evaluated, matches, icpDay, edits, icpGhosts>>
  BY DEF run_revenue_backfill_sweep, Idle
<1> QED
  BY <1>1, <1>2, <1>3, RecordMoves

(* It takes a company, and reads its row.                                  *)
LEMMA BackfillTakesKeeps ==
  ASSUME IcpInv, NEW w \in IcpWorkers, NEW c \in Firms, BackfillTakes(w, c)
  PROVE  IcpInv'
<1> DEFINE copies == [d \in {c} |-> firm[c]]
           at == IF c \in OnFile THEN c ELSE Unknown
           rec == [icpWorker[w] EXCEPT !.todo = @ \ {c}, !.on = at, !.rows = copies, !.asked = FALSE]
<1>1. icpWorker[w] \in BackfillRuns
  BY WorkIs DEF BackfillTakes, Between, IcpInv, WorkTyped
<1>2. copies \in SomeRows /\ at \in OrUnknown(Firms)
  <2>1. copies \in [{c} -> FirmRow]
    BY DEF IcpInv, FilesTyped
  <2> QED
    BY <2>1 DEF SomeRows, OrUnknown
<1>3. icpWorker' = [icpWorker EXCEPT ![w] = rec] /\ UNCHANGED <<firm, evaluated, matches, icpDay, edits, icpGhosts>>
  BY <1>1 DEF BackfillTakes, IcpInv, WorkTyped
<1> HIDE DEF copies, at
<1>4. rec \in BackfillRuns /\ rec.does = "backfills" /\ icpWorker[w].does = "backfills"
  BY <1>1, <1>2 DEF BackfillRuns, OrUnknown
<1> QED
  BY <1>3, <1>4, RecordMoves DEF IcpWork

(* It goes on to the next.                                                 *)
LEMMA BackfillNextKeeps ==
  ASSUME IcpInv, NEW w \in IcpWorkers, BackfillNext(w)
  PROVE  IcpInv'
<1> DEFINE rec == [icpWorker[w] EXCEPT !.on = Unknown, !.rows = <<>>]
<1>1. icpWorker[w] \in BackfillRuns
  BY WorkIs DEF BackfillNext, Has, IcpInv, WorkTyped
<1>2. icpWorker' = [icpWorker EXCEPT ![w] = rec] /\ UNCHANGED <<firm, evaluated, matches, icpDay, edits, icpGhosts>>
  BY <1>1 DEF BackfillNext, IcpInv, WorkTyped
<1>3. rec \in BackfillRuns /\ rec.does = "backfills" /\ icpWorker[w].does = "backfills"
  BY <1>1, NoRows DEF BackfillRuns, OrUnknown
<1> QED
  BY <1>2, <1>3, RecordMoves DEF IcpWork

(* A worker ends.                                                          *)
LEMMA WorkEndsKeeps ==
  ASSUME IcpInv, NEW w \in IcpWorkers, WorkEnds(w)
  PROVE  IcpInv'
<1>1. NoWork \in IcpWork /\ NoWork.does = "nothing"
  BY DEF IcpWork, NoWork
<1>2. icpWorker' = [icpWorker EXCEPT ![w] = NoWork] /\ UNCHANGED <<firm, evaluated, matches, icpDay, edits, icpGhosts>>
      /\ (icpWorker[w].does = "sweeps" => icpWorker[w].on = Unknown)
  BY DEF WorkEnds, Between, Known
<1> QED
  BY <1>1, <1>2, RecordMoves

(* A sweep selects companies; those that another sweep has are mixed up.   *)
LEMMA SweepBegins ==
  ASSUME IcpInv, NEW w \in IcpWorkers, run_icp_matching_sweep(w)
  PROVE  IcpInv'
<1>1. PICK S \in SUBSET Firms :
        /\ S \subseteq DueFirms
        /\ icpWorker' = [icpWorker EXCEPT ![w] = [does |-> "sweeps", todo |-> S, on |-> Unknown]]
        /\ mixed' = mixed \cup {c \in S : \E v \in Holders(c) : icpWorker[v].does = "sweeps"}
  BY DEF run_icp_matching_sweep, Selections, DueFirms, OnFile
<1> DEFINE rec == [does |-> "sweeps", todo |-> S, on |-> Unknown]
<1>2. rec \in IcpWork /\ rec.does = "sweeps" /\ rec.todo = S /\ rec.on = Unknown
  BY DEF IcpWork, SweepTurns
<1>3. /\ icpWorker[w].does = "nothing"
      /\ UNCHANGED <<firm, evaluated, matches, icpDay, edits, stale, tries, hurried, misjudged>>
  BY DEF run_icp_matching_sweep, Idle
<1>4. icpWorker' = [icpWorker EXCEPT ![w] = rec]
  BY <1>1
<1> HIDE DEF rec
<1>5. WorkTyped' /\ icpWorker'[w] = rec /\ \A v \in IcpWorkers : v # w => icpWorker'[v] = icpWorker[v]
  BY <1>2, <1>4, WorkPut DEF IcpInv
<1>6. mixed \subseteq mixed' /\ mixed' \subseteq Firms
  BY <1>1 DEF IcpInv, FilesTyped
<1>7. /\ FilesTyped' /\ DropIsJustified' /\ NoOrphanMatch' /\ TriesInv' /\ OnFile' = OnFile
      /\ Undisturbed' \subseteq Undisturbed /\ Undisturbed' \cap mixed' = {}
      /\ stale' = stale /\ firm' = firm /\ evaluated' = evaluated /\ icpDay' = icpDay
      /\ \A c \in Firms : Due(c)' <=> Due(c)
  BY <1>3, <1>6 DEF IcpInv, FilesTyped, DropIsJustified, NoOrphanMatch, TriesInv, OnFile, Undisturbed, Due
<1>8. Undisturbed \subseteq Firms /\ \A c \in Firms : c # Unknown
  BY IcpAssumption DEF Undisturbed, OnFile
<1>9. \A c \in Firms : (Sweeping(rec, c) <=> c \in S) /\ ~Writing(rec, c) /\ ~Writing(icpWorker[w], c)
  BY <1>2, <1>3, <1>8 DEF Sweeping, Writing
<1>10. \A c \in Firms, S2 \in SUBSET Icps : TrueOf(c, S2)' <=> TrueOf(c, S2)
  BY <1>3 DEF TrueOf
<1>11. OneSweeps'
  <2>1. \A c \in S, v \in IcpWorkers : Sweeping(icpWorker[v], c) => c \in mixed'
    BY <1>1 DEF Sweeping, Holders
  <2> QED
    BY <1>5, <1>6, <1>9, <2>1 DEF IcpInv, OneSweeps
<1>12. ListsApart'
  BY <1>2, <1>5, <1>8 DEF IcpInv, ListsApart
<1>13. WrittenInv'
  BY <1>5, <1>7, <1>8, <1>9, <1>10 DEF IcpInv, WrittenInv
<1>14. StillInv'
  BY <1>5, <1>7, <1>8, <1>9, <1>10 DEF IcpInv, StillInv
<1>15. DueInv'
  <2>1. \A c \in S : Due(c)
    BY <1>1 DEF DueFirms
  <2> QED
    BY <1>2, <1>5, <1>7, <1>8, <1>9, <2>1 DEF IcpInv, DueInv
<1>16. GateInv'
  BY <1>2, <1>5, <1>7 DEF IcpInv, GateInv
<1> QED
  BY <1>5, <1>7, <1>11, <1>12, <1>13, <1>14, <1>15, <1>16 DEF IcpInv

(* A company is read, and evaluated on paper; or it is gone.               *)
LEMMA EvaluateKeeps ==
  ASSUME IcpInv, NEW w \in IcpWorkers, NEW c \in Firms, evaluate_icp_matches_for_company(w, c)
  PROVE  IcpInv'
<1> DEFINE rest == icpWorker[w].todo \ {c}
           writes == [does |-> "sweeps", todo |-> rest, on |-> c, row |-> firm[c], attempts |-> evaluated[c].attempts,
                      left |-> {i \in Icps : ~Missing(firm[c], i)}]
           turns == [does |-> "sweeps", todo |-> rest, on |-> Unknown]
           rec == IF Known(firm[c]) THEN writes ELSE turns
<1>1. /\ icpWorker[w].does = "sweeps" /\ icpWorker[w].on = Unknown /\ c \in icpWorker[w].todo
      /\ icpWorker' = [icpWorker EXCEPT ![w] = rec] /\ stale' = stale \ {c}
      /\ UNCHANGED <<firm, evaluated, matches, icpDay, edits, mixed, tries, hurried, misjudged>>
  BY DEF evaluate_icp_matches_for_company, Between, Known
<1>2. /\ rec \in IcpWork /\ rec.does = "sweeps" /\ rec.todo = rest
      /\ c \in OnFile => rec.on = c /\ rec.row = firm[c] /\ rec.attempts = evaluated[c].attempts
                         /\ rec.left = {i \in Icps : ~Missing(firm[c], i)}
      /\ c \notin OnFile => rec.on = Unknown
  <2>1. rest \subseteq Firms
    BY WorkIs DEF IcpInv, WorkTyped
  <2>2. CASE Known(firm[c])
    <3>1. c \in OnFile /\ firm[c] \in FirmShape /\ evaluated[c].attempts \in OrUnknown(Nat)
      BY <2>2, RowIs DEF OnFile, IcpInv, FilesTyped, Evaluation, OrUnknown
    <3> HIDE DEF rest
    <3>2. writes \in SweepWrites
      BY <2>1, <3>1 DEF SweepWrites
    <3> QED
      BY <2>2, <3>1, <3>2 DEF IcpWork
  <2>3. CASE ~Known(firm[c])
    BY <2>1, <2>3 DEF IcpWork, SweepTurns, OnFile
  <2> QED
    BY <2>2, <2>3
<1> HIDE DEF rec
<1>3. WorkTyped' /\ icpWorker'[w] = rec /\ \A v \in IcpWorkers : v # w => icpWorker'[v] = icpWorker[v]
  BY <1>1, <1>2, WorkPut DEF IcpInv
<1>4. /\ FilesTyped' /\ DropIsJustified' /\ NoOrphanMatch' /\ TriesInv' /\ OnFile' = OnFile
      /\ Undisturbed' = Undisturbed /\ mixed' = mixed /\ firm' = firm
      /\ evaluated' = evaluated /\ icpDay' = icpDay /\ \A d \in Firms : Due(d)' <=> Due(d)
  BY <1>1 DEF IcpInv, FilesTyped, DropIsJustified, NoOrphanMatch, TriesInv, OnFile, Undisturbed, Due
<1>5. /\ Undisturbed \subseteq OnFile /\ OnFile \subseteq Firms /\ Undisturbed \cap mixed = {}
      /\ \A d \in Firms : d # Unknown
  BY IcpAssumption DEF Undisturbed, OnFile
<1>6. \A d \in Firms, S \in SUBSET Icps : TrueOf(d, S)' <=> TrueOf(d, S)
  BY <1>1 DEF TrueOf
<1>7. \A d \in Firms : /\ Sweeping(rec, d) => Sweeping(icpWorker[w], d)
                       /\ Writing(rec, d) => d = c /\ c \in OnFile
                       /\ ~Writing(icpWorker[w], d)
  BY <1>1, <1>2, <1>5 DEF Sweeping, Writing
<1>8. Sweeping(icpWorker[w], c)
  BY <1>1 DEF Sweeping
<1>9. OneSweeps'
  BY <1>3, <1>4, <1>7 DEF IcpInv, OneSweeps
<1>10. ListsApart'
  <2>1. rec.on \notin rec.todo
    BY <1>1, <1>2, <1>5, WorkIs DEF IcpInv, WorkTyped
  <2> QED
    BY <1>3, <2>1 DEF IcpInv, ListsApart
<1>11. WrittenInv'
  <2>1. c \in OnFile => TrueOf(c, Icps \ rec.left)
    BY <1>2 DEF TrueOf
  <2>2. \A v \in IcpWorkers : v # w /\ c \notin mixed => ~Writing(icpWorker[v], c)
    BY <1>8 DEF IcpInv, OneSweeps, Sweeping, Writing
  <2> SUFFICES ASSUME NEW v \in IcpWorkers, NEW d \in Undisturbed \ (stale \ {c}), Writing(icpWorker'[v], d)
               PROVE  icpWorker'[v].row = firm[d] /\ TrueOf(d, Icps \ icpWorker'[v].left)
    BY <1>1, <1>4, <1>5, <1>6 DEF WrittenInv
  <2>3. CASE v = w
    BY <1>2, <1>3, <1>5, <1>7, <2>1, <2>3
  <2>4. CASE v # w
    BY <1>3, <1>5, <2>2, <2>4 DEF IcpInv, WrittenInv
  <2> QED
    BY <2>3, <2>4
<1>12. StillInv'
  <2> SUFFICES ASSUME NEW d \in Undisturbed \ (stale \ {c}), Known(evaluated[d].day),
                      \A v \in IcpWorkers : ~Writing(icpWorker'[v], d)
               PROVE  TrueOf(d, Icps)
    BY <1>1, <1>4, <1>5, <1>6 DEF StillInv
  <2>1. d # c
    BY <1>2, <1>3, <1>5 DEF Writing
  <2>2. \A v \in IcpWorkers : ~Writing(icpWorker[v], d)
    BY <1>3, <1>5, <1>7
  <2> QED
    BY <2>1, <2>2 DEF IcpInv, StillInv
<1>13. DueInv'
  <2> SUFFICES ASSUME NEW v \in IcpWorkers, NEW d \in Undisturbed, Sweeping(icpWorker'[v], d)
               PROVE  /\ Due(d)
                      /\ icpWorker'[v].on = d => icpWorker'[v].attempts \in {Unknown, evaluated[d].attempts}
    BY <1>4, <1>5 DEF DueInv
  <2>1. CASE v = w
    <3>1. Due(d)
      BY <1>3, <1>5, <1>7, <2>1 DEF IcpInv, DueInv
    <3>2. rec.on = d => d = c /\ rec.attempts = evaluated[d].attempts
      BY <1>2, <1>5
    <3> QED
      BY <1>3, <2>1, <3>1, <3>2
  <2>2. CASE v # w
    BY <1>3, <2>2 DEF IcpInv, DueInv
  <2> QED
    BY <2>1, <2>2
<1>14. GateInv'
  BY <1>2, <1>3, <1>4 DEF IcpInv, GateInv
<1> QED
  BY <1>3, <1>4, <1>9, <1>10, <1>11, <1>12, <1>13, <1>14 DEF IcpInv

(* A verdict is written.                                                   *)
LEMMA RecordKeeps ==
  ASSUME IcpInv, NEW w \in IcpWorkers, record_icp_match(w)
  PROVE  IcpInv'
<1> DEFINE me == icpWorker[w]
           c == me.on
<1>1. me \in SweepWrites /\ me.does = "sweeps" /\ c \in Firms /\ me.left \subseteq Icps
  <2>1. me \in SweepWrites
    BY WorkIs DEF record_icp_match, Has, IcpInv, WorkTyped
  <2> QED
    BY <2>1 DEF SweepWrites
<1>2. PICK i \in me.left :
        LET pair == <<c, i>>
            writes == Matched(me.row, i) \/ pair \in matches
        IN /\ Matched(me.row, i) => c \in OnFile
           /\ matches' = IF Matched(me.row, i) THEN matches \cup {pair} ELSE matches \ {pair}
           /\ icpWorker' = [icpWorker EXCEPT ![w].left = @ \ {i}, ![w].attempts = IF writes THEN Unknown ELSE @]
  BY DEF record_icp_match
<1>3. UNCHANGED <<firm, evaluated, icpDay, edits, icpGhosts>>
  BY DEF record_icp_match
<1> DEFINE tried == IF Matched(me.row, i) \/ <<c, i>> \in matches THEN Unknown ELSE me.attempts
           rec == [me EXCEPT !.left = @ \ {i}, !.attempts = tried]
<1>4. icpWorker' = [icpWorker EXCEPT ![w] = rec]
  BY <1>1, <1>2 DEF IcpInv, WorkTyped
<1>5. tried \in {Unknown, me.attempts} /\ tried \in OrUnknown(Nat)
  BY <1>1 DEF SweepWrites, OrUnknown
<1> HIDE DEF tried
<1>6. /\ rec \in SweepWrites /\ rec.does = "sweeps" /\ rec.todo = me.todo /\ rec.on = c /\ rec.row = me.row
      /\ rec.attempts \in {Unknown, me.attempts} /\ rec.left = me.left \ {i}
  BY <1>1, <1>5 DEF SweepWrites
<1> HIDE DEF rec
<1>7. WorkTyped' /\ icpWorker'[w] = rec /\ \A v \in IcpWorkers : v # w => icpWorker'[v] = icpWorker[v]
  BY <1>4, <1>6, WorkPut DEF IcpInv, IcpWork
<1>8. /\ DropIsJustified' /\ TriesInv' /\ OnFile' = OnFile /\ Undisturbed' = Undisturbed
      /\ mixed' = mixed /\ stale' = stale
      /\ firm' = firm /\ evaluated' = evaluated /\ icpDay' = icpDay /\ \A d \in Firms : Due(d)' <=> Due(d)
  BY <1>3 DEF IcpInv, DropIsJustified, TriesInv, OnFile, Undisturbed, Due, icpGhosts
<1>9. FilesTyped' /\ NoOrphanMatch'
  BY <1>1, <1>2, <1>3, <1>8 DEF IcpInv, FilesTyped, NoOrphanMatch, icpGhosts
<1>10. /\ Undisturbed \subseteq OnFile /\ OnFile \subseteq Firms /\ Undisturbed \cap mixed = {}
       /\ \A d \in Firms : d # Unknown
  BY IcpAssumption DEF Undisturbed, OnFile
<1>11. \A d : (Sweeping(rec, d) <=> Sweeping(me, d)) /\ (Writing(rec, d) <=> d = c) /\ (Writing(me, d) <=> d = c)
  BY <1>1, <1>6 DEF Sweeping, Writing
<1>12. \A d \in Firms, S \in SUBSET Icps : d # c => (TrueOf(d, S)' <=> TrueOf(d, S))
  BY <1>2, <1>8 DEF TrueOf
<1>13. OneSweeps' /\ ListsApart'
  BY <1>1, <1>6, <1>7, <1>8, <1>11 DEF IcpInv, OneSweeps, ListsApart
<1>14. WrittenInv'
  <2> SUFFICES ASSUME NEW v \in IcpWorkers, NEW d \in Undisturbed \ stale, Writing(icpWorker'[v], d)
               PROVE  /\ icpWorker'[v].row = firm[d]
                      /\ \A k \in Icps \ icpWorker'[v].left :
                           ~Missing(firm[d], k) => (<<d, k>> \in matches' <=> Matched(firm[d], k))
    BY <1>8 DEF WrittenInv, TrueOf
  <2>1. CASE v = w
    <3>1. d = c /\ me.row = firm[c] /\ TrueOf(c, Icps \ me.left)
      BY <1>7, <1>11, <2>1 DEF IcpInv, WrittenInv
    <3>2. \A k \in Icps \ rec.left : ~Missing(firm[c], k) => (<<c, k>> \in matches' <=> Matched(firm[c], k))
      BY <1>2, <1>6, <3>1 DEF TrueOf
    <3> QED
      BY <1>6, <1>7, <2>1, <3>1, <3>2
  <2>2. CASE v # w
    <3>1. d # c
      <4>1. Sweeping(icpWorker[v], d) /\ Sweeping(me, c)
        BY <1>1, <1>7, <2>2 DEF Sweeping, Writing
      <4> QED
        BY <1>10, <2>2, <4>1 DEF IcpInv, OneSweeps
    <3>2. icpWorker[v].row = firm[d] /\ TrueOf(d, Icps \ icpWorker[v].left)
      BY <1>7, <2>2 DEF IcpInv, WrittenInv
    <3>3. \A k \in Icps : <<d, k>> \in matches' <=> <<d, k>> \in matches
      BY <1>2, <3>1
    <3> QED
      BY <1>7, <2>2, <3>2, <3>3 DEF TrueOf
  <2> QED
    BY <2>1, <2>2
<1>15. StillInv'
  BY <1>7, <1>8, <1>10, <1>11, <1>12 DEF IcpInv, StillInv
<1>16. DueInv'
  <2> SUFFICES ASSUME NEW v \in IcpWorkers, NEW d \in Undisturbed, Sweeping(icpWorker'[v], d)
               PROVE  /\ Due(d)
                      /\ icpWorker'[v].on = d => icpWorker'[v].attempts \in {Unknown, evaluated[d].attempts}
    BY <1>8, <1>10 DEF DueInv
  <2>1. Sweeping(icpWorker[v], d)
    BY <1>7, <1>11
  <2>2. Due(d) /\ (icpWorker[v].on = d => icpWorker[v].attempts \in {Unknown, evaluated[d].attempts})
    BY <2>1 DEF IcpInv, DueInv
  <2> QED
    BY <1>6, <1>7, <2>2
<1>17. GateInv'
  BY <1>6, <1>7, <1>8 DEF IcpInv, GateInv
<1> QED
  BY <1>7, <1>8, <1>9, <1>13, <1>14, <1>15, <1>16, <1>17 DEF IcpInv

(* One more company is over for a sweep, w, that was at it: the company is *)
(* stale, or all verdicts stand.  The evaluation of that one may change.   *)
LEMMA SweepMovesOn ==
  ASSUME IcpInv, NEW w \in IcpWorkers, Has(w, "sweeps"),
         icpWorker' = [icpWorker EXCEPT ![w] = [does |-> "sweeps", todo |-> icpWorker[w].todo, on |-> Unknown]],
         UNCHANGED <<firm, matches, icpDay, mixed>>, stale \subseteq stale',
         \A d \in Firms : d # icpWorker[w].on => evaluated'[d] = evaluated[d],
         icpWorker[w].on \in stale' \/ icpWorker[w].left = {}
  PROVE  WorkTyped' /\ OneSweeps' /\ ListsApart' /\ WrittenInv' /\ StillInv' /\ DueInv' /\ GateInv' /\ NoOrphanMatch'
<1> DEFINE me == icpWorker[w]
           c == me.on
           rec == [does |-> "sweeps", todo |-> me.todo, on |-> Unknown]
<1>1. me \in SweepWrites /\ me.does = "sweeps" /\ c \in Firms /\ me.todo \subseteq Firms
  <2>1. me \in SweepWrites
    BY WorkIs DEF Has, IcpInv, WorkTyped
  <2> QED
    BY <2>1 DEF SweepWrites
<1>2. rec \in IcpWork /\ rec.does = "sweeps" /\ rec.todo = me.todo /\ rec.on = Unknown
  BY <1>1 DEF IcpWork, SweepTurns
<1>3. icpWorker' = [icpWorker EXCEPT ![w] = rec]
  OBVIOUS
<1> HIDE DEF rec
<1>4. WorkTyped' /\ icpWorker'[w] = rec /\ \A v \in IcpWorkers : v # w => icpWorker'[v] = icpWorker[v]
  BY <1>2, <1>3, WorkPut DEF IcpInv
<1>5. /\ Undisturbed \subseteq OnFile /\ OnFile \subseteq Firms /\ Undisturbed \cap mixed = {}
      /\ \A d \in Firms : d # Unknown
  BY IcpAssumption DEF Undisturbed, OnFile
<1>6. OnFile' = OnFile /\ Undisturbed' = Undisturbed /\ NoOrphanMatch'
  BY DEF IcpInv, OnFile, Undisturbed, NoOrphanMatch
<1>7. \A d \in Firms : d # c => (Due(d)' <=> Due(d))
  BY DEF Due
<1>8. \A d \in Firms, S \in SUBSET Icps : TrueOf(d, S)' <=> TrueOf(d, S)
  BY DEF TrueOf
<1>9. c \notin me.todo
  BY <1>1 DEF IcpInv, ListsApart
<1>10. \A d \in Firms : (Sweeping(rec, d) <=> d \in me.todo) /\ ~Writing(rec, d) /\ (Writing(me, d) <=> d = c)
  BY <1>1, <1>2, <1>5 DEF Sweeping, Writing
<1>11. \A d \in Firms : Sweeping(rec, d) => Sweeping(me, d) /\ d # c
  BY <1>1, <1>9, <1>10 DEF Sweeping
<1>12. Sweeping(me, c)
  BY <1>1 DEF Sweeping
<1>13. OneSweeps'
  BY <1>4, <1>5, <1>11 DEF IcpInv, OneSweeps
<1>14. ListsApart'
  BY <1>1, <1>2, <1>4, <1>5 DEF IcpInv, ListsApart
<1>15. WrittenInv'
  BY <1>4, <1>5, <1>6, <1>8, <1>10 DEF IcpInv, WrittenInv
<1>16. StillInv'
  <2> SUFFICES ASSUME NEW d \in Undisturbed \ stale', Known(evaluated'[d].day),
                      \A v \in IcpWorkers : ~Writing(icpWorker'[v], d)
               PROVE  TrueOf(d, Icps)
    BY <1>5, <1>6, <1>8 DEF StillInv
  <2>1. CASE d = c
    <3>1. me.left = {} /\ c \in Undisturbed \ stale
      BY <2>1
    <3>2. TrueOf(c, Icps \ me.left)
      BY <1>5, <1>10, <3>1 DEF IcpInv, WrittenInv
    <3> QED
      BY <2>1, <3>1, <3>2 DEF TrueOf
  <2>2. CASE d # c
    <3>1. \A v \in IcpWorkers : ~Writing(icpWorker[v], d)
      BY <1>4, <1>5, <1>10, <2>2
    <3> QED
      BY <1>5, <2>2, <3>1 DEF IcpInv, StillInv
  <2> QED
    BY <2>1, <2>2
<1>17. DueInv'
  <2> SUFFICES ASSUME NEW v \in IcpWorkers, NEW d \in Undisturbed, Sweeping(icpWorker'[v], d)
               PROVE  /\ Due(d)'
                      /\ icpWorker'[v].on = d => icpWorker'[v].attempts \in {Unknown, evaluated'[d].attempts}
    BY <1>5, <1>6 DEF DueInv
  <2>1. CASE v = w
    BY <1>2, <1>4, <1>5, <1>7, <1>11, <2>1 DEF IcpInv, DueInv
  <2>2. CASE v # w
    <3>1. d # c
      BY <1>4, <1>5, <1>12, <2>2 DEF IcpInv, OneSweeps
    <3>2. Due(d) /\ (icpWorker[v].on = d => icpWorker[v].attempts \in {Unknown, evaluated[d].attempts})
      BY <1>4, <2>2 DEF IcpInv, DueInv
    <3> QED
      BY <1>4, <1>5, <1>7, <2>2, <3>1, <3>2
  <2> QED
    BY <2>1, <2>2
<1>18. GateInv'
  BY <1>2, <1>4, <1>6 DEF IcpInv, GateInv
<1> QED
  BY <1>4, <1>6, <1>13, <1>14, <1>15, <1>16, <1>17, <1>18

(* An evaluation fails.                                                    *)
LEMMA EvaluationFailsKeeps ==
  ASSUME IcpInv, NEW w \in IcpWorkers, EvaluationFails(w)
  PROVE  IcpInv'
<1>1. /\ Has(w, "sweeps") /\ stale' = stale \cup {icpWorker[w].on}
      /\ UNCHANGED <<firm, evaluated, matches, icpDay, edits, mixed, tries, hurried, misjudged>>
      /\ icpWorker' = [icpWorker EXCEPT ![w] = [does |-> "sweeps", todo |-> icpWorker[w].todo, on |-> Unknown]]
  BY DEF EvaluationFails
<1>2. icpWorker[w].on \in Firms
  BY <1>1, WorkIs DEF IcpInv, WorkTyped, Has, Known
<1>3. FilesTyped' /\ TriesInv' /\ DropIsJustified'
  BY <1>1, <1>2 DEF IcpInv, FilesTyped, TriesInv, DropIsJustified, OnFile
<1>4. WorkTyped' /\ OneSweeps' /\ ListsApart' /\ WrittenInv' /\ StillInv' /\ DueInv' /\ GateInv' /\ NoOrphanMatch'
  BY <1>1, SweepMovesOn
<1> QED
  BY <1>3, <1>4 DEF IcpInv

(* The evaluation is complete, and on record.                              *)
LEMMA StampKeeps ==
  ASSUME IcpInv, NEW w \in IcpWorkers, StampEvaluation(w)
  PROVE  IcpInv'
<1> DEFINE me == icpWorker[w]
           c == me.on
           lacks == \E i \in Icps : Missing(me.row, i)
           tried == IF Known(me.attempts) THEN me.attempts ELSE evaluated[c].attempts
           after == [day |-> icpDay, missing |-> lacks,
                     attempts |-> IF lacks THEN tried + 1 ELSE evaluated[c].attempts]
<1>1. /\ Has(w, "sweeps") /\ me.left = {} /\ c \in OnFile /\ c \in Firms
      /\ evaluated' = [evaluated EXCEPT ![c] = after]
      /\ tries' = IF lacks THEN [tries EXCEPT ![c] = @ + 1] ELSE tries
      /\ hurried' = IF Known(evaluated[c].day) /\ icpDay <= evaluated[c].day + RetryAfter
                    THEN hurried \cup {c} ELSE hurried
      /\ icpWorker' = [icpWorker EXCEPT ![w] = [does |-> "sweeps", todo |-> me.todo, on |-> Unknown]]
      /\ UNCHANGED <<firm, matches, icpDay, edits, stale, mixed, misjudged>>
  BY DEF StampEvaluation, OnFile
<1>2. me \in SweepWrites /\ me.does = "sweeps"
  <2>1. me \in SweepWrites
    BY <1>1, WorkIs DEF Has, IcpInv, WorkTyped
  <2> QED
    BY <2>1 DEF SweepWrites
<1>3. /\ evaluated[c] \in Evaluation /\ evaluated[c].attempts \in Nat /\ tried \in Nat /\ icpDay \in 0..MaxIcpDay
      /\ icpDay \in Nat
  BY <1>1, <1>2, IcpAssumption DEF IcpInv, FilesTyped, Evaluation, SweepWrites, OrUnknown, Known
<1> HIDE DEF lacks, tried
<1>4. lacks \in BOOLEAN /\ after \in Evaluation
  <2>1. lacks \in BOOLEAN
    BY DEF lacks
  <2> QED
    BY <1>3, <2>1 DEF Evaluation, OrUnknown
<1>5. c \in Undisturbed => /\ tried = evaluated[c].attempts /\ tries[c] = tried /\ tried < MaxEvaluations
                           /\ ~(Known(evaluated[c].day) /\ icpDay <= evaluated[c].day + RetryAfter)
  <2> SUFFICES ASSUME c \in Undisturbed
               PROVE  /\ tried = evaluated[c].attempts /\ tries[c] = tried /\ tried < MaxEvaluations
                      /\ ~(Known(evaluated[c].day) /\ icpDay <= evaluated[c].day + RetryAfter)
    OBVIOUS
  <2>1. Due(c) /\ me.attempts \in {Unknown, evaluated[c].attempts}
    BY <1>2 DEF IcpInv, DueInv, Sweeping
  <2>2. tried = evaluated[c].attempts
    BY <2>1 DEF tried, Known
  <2>3. c \notin mixed /\ tries[c] = evaluated[c].attempts /\ (~Known(evaluated[c].day) => evaluated[c].attempts = 0)
    BY <1>1 DEF IcpInv, TriesInv, Undisturbed
  <2>4. evaluated[c].attempts < MaxEvaluations
    BY <2>1, <2>3, IcpAssumption DEF Due
  <2>5. Known(evaluated[c].day) => evaluated[c].day \in Nat /\ evaluated[c].day < icpDay - RetryAfter
    BY <1>3, <2>1 DEF Due, Evaluation, OrUnknown, Known
  <2>6. Known(evaluated[c].day) => ~(icpDay <= evaluated[c].day + RetryAfter)
    BY <1>3, <2>5, IcpAssumption
  <2> QED
    BY <2>2, <2>3, <2>4, <2>6
<1>6. /\ evaluated' \in [Firms -> Evaluation] /\ evaluated'[c] = after /\ Known(after.day)
      /\ after.attempts = IF lacks THEN tried + 1 ELSE evaluated[c].attempts
      /\ \A d \in Firms : d # c => evaluated'[d] = evaluated[d]
  <2>1. evaluated \in [Firms -> Evaluation]
    BY DEF IcpInv, FilesTyped
  <2>2. Known(icpDay)
    BY <1>3, IcpAssumption DEF Known
  <2> HIDE DEF after
  <2>3. /\ evaluated' \in [Firms -> Evaluation] /\ evaluated'[c] = after
        /\ \A d \in Firms : d # c => evaluated'[d] = evaluated[d]
    BY <1>1, <1>4, <2>1
  <2> QED
    BY <2>2, <2>3 DEF after
<1>7. /\ tries' \in [Firms -> Nat] /\ tries'[c] = IF lacks THEN tries[c] + 1 ELSE tries[c]
      /\ \A d \in Firms : d # c => tries'[d] = tries[d]
  <2>1. tries \in [Firms -> Nat] /\ tries[c] \in Nat
    BY <1>1 DEF IcpInv, FilesTyped
  <2> QED
    BY <1>1, <2>1
<1>8. hurried' \subseteq Firms
  BY <1>1 DEF IcpInv, FilesTyped
<1>9. FilesTyped'
  BY <1>1, <1>6, <1>7, <1>8 DEF IcpInv, FilesTyped
<1>10. OnFile' = OnFile /\ mixed' = mixed /\ DropIsJustified'
  BY <1>1 DEF IcpInv, OnFile, DropIsJustified
<1>11. TriesInv'
  <2> SUFFICES ASSUME NEW d \in Firms \ mixed
               PROVE  /\ tries'[d] <= MaxEvaluations /\ d \notin hurried'
                      /\ d \in OnFile => /\ tries'[d] = evaluated'[d].attempts
                                         /\ ~Known(evaluated'[d].day) => evaluated'[d].attempts = 0
    BY <1>10 DEF TriesInv
  <2>1. /\ tries[d] <= MaxEvaluations /\ d \notin hurried
        /\ d \in OnFile => tries[d] = evaluated[d].attempts /\ (~Known(evaluated[d].day) => evaluated[d].attempts = 0)
    BY DEF IcpInv, TriesInv
  <2>2. CASE d # c
    BY <1>1, <1>6, <1>7, <2>1, <2>2
  <2>3. CASE d = c
    <3>1. c \in Undisturbed
      BY <1>1, <2>3 DEF Undisturbed
    <3>2. d \notin hurried'
      BY <1>1, <1>5, <2>1, <3>1
    <3>3. tries'[d] <= MaxEvaluations
      BY <1>3, <1>5, <1>7, <2>1, <2>3, <3>1, IcpAssumption
    <3>4. tries'[d] = evaluated'[d].attempts
      BY <1>5, <1>6, <1>7, <2>3, <3>1
    <3> HIDE DEF after
    <3> QED
      BY <1>6, <2>3, <3>2, <3>3, <3>4
  <2> QED
    BY <2>2, <2>3
<1>12. WorkTyped' /\ OneSweeps' /\ ListsApart' /\ WrittenInv' /\ StillInv' /\ DueInv' /\ GateInv' /\ NoOrphanMatch'
  <2> HIDE DEF after
  <2> QED
    BY <1>1, <1>6, SweepMovesOn
<1> QED
  BY <1>9, <1>10, <1>11, <1>12 DEF IcpInv

(* The row of c changes, by worker w, which is not a sweep, or by nobody's *)
(* worker.                                                                 *)
LEMMA RowChanges ==
  ASSUME IcpInv, NEW c \in OnFile, NEW w, NEW row \in FirmShape, Changed(c, w, row), WorkTyped', edits' \in 0..MaxEdits,
         UNCHANGED <<evaluated, matches, icpDay, tries, hurried, misjudged>>,
         \A v \in IcpWorkers : v # w => icpWorker'[v] = icpWorker[v],
         \A v \in IcpWorkers : v = w => icpWorker[v].does # "sweeps" /\ icpWorker'[v].does = icpWorker[v].does,
         \A v \in IcpWorkers : v = w /\ icpWorker'[v].does = "gates" => icpWorker'[v].rows = firm'
  PROVE  IcpInv'
<1>1. c \in Firms /\ Known(row) /\ Known(firm[c])
  BY IcpAssumption DEF OnFile, Known
<1>2. /\ firm' \in [Firms -> FirmRow] /\ firm'[c] = row /\ \A d \in Firms : d # c => firm'[d] = firm[d]
  BY <1>1 DEF Changed, IcpInv, FilesTyped, FirmRow, OrUnknown
<1>3. /\ stale \subseteq stale' /\ mixed \subseteq mixed' /\ stale' \subseteq Firms /\ mixed' \subseteq Firms
      /\ Known(evaluated[c].day) \/ Holders(c) # {} => c \in stale'
      /\ GateHolds(c, w) => c \in mixed'
  BY <1>1 DEF Changed, IcpInv, FilesTyped
<1>4. FilesTyped'
  BY <1>2, <1>3 DEF IcpInv, FilesTyped
<1>5. OnFile' = OnFile /\ Undisturbed' \subseteq Undisturbed /\ Undisturbed' \cap mixed' = {}
  BY <1>1, <1>2, <1>3 DEF OnFile, Undisturbed
<1>6. NoOrphanMatch' /\ DropIsJustified' /\ TriesInv'
  BY <1>3, <1>5 DEF IcpInv, NoOrphanMatch, DropIsJustified, TriesInv
<1>7. Undisturbed \subseteq Firms /\ \A d \in Firms : d # Unknown
  BY IcpAssumption DEF Undisturbed, OnFile
<1>8. \A v \in IcpWorkers, d \in Firms : /\ Sweeping(icpWorker'[v], d) => icpWorker'[v] = icpWorker[v]
                                         /\ Writing(icpWorker'[v], d) => icpWorker'[v] = icpWorker[v]
                                         /\ Writing(icpWorker[v], d) => icpWorker'[v] = icpWorker[v]
  BY DEF Sweeping, Writing
<1>9. OneSweeps'
  BY <1>3, <1>8 DEF IcpInv, OneSweeps
<1>10. ListsApart'
  BY DEF IcpInv, ListsApart
<1>11. \A d \in Firms, S \in SUBSET Icps : d # c => (TrueOf(d, S)' <=> TrueOf(d, S))
  BY <1>2 DEF TrueOf
<1>12. \A v \in IcpWorkers : Writing(icpWorker[v], c) => c \in stale'
  BY <1>3 DEF Writing, Holders
<1>13. WrittenInv'
  <2> SUFFICES ASSUME NEW v \in IcpWorkers, NEW d \in Undisturbed' \ stale', Writing(icpWorker'[v], d)
               PROVE  icpWorker'[v].row = firm'[d] /\ \A i \in Icps \ icpWorker'[v].left :
                         ~Missing(firm'[d], i) => (<<d, i>> \in matches' <=> Matched(firm'[d], i))
    BY DEF WrittenInv, TrueOf
  <2>1. icpWorker'[v] = icpWorker[v] /\ d # c /\ d \in Undisturbed \ stale
    BY <1>3, <1>5, <1>7, <1>8, <1>12
  <2>2. icpWorker[v].row = firm[d] /\ TrueOf(d, Icps \ icpWorker[v].left)
    BY <2>1 DEF IcpInv, WrittenInv
  <2> QED
    BY <1>2, <1>7, <2>1, <2>2 DEF TrueOf
<1>14. StillInv'
  <2> SUFFICES ASSUME NEW d \in Undisturbed' \ stale', Known(evaluated[d].day),
                      \A v \in IcpWorkers : ~Writing(icpWorker'[v], d)
               PROVE  TrueOf(d, Icps)'
    BY DEF StillInv
  <2>1. d # c /\ d \in Undisturbed \ stale
    BY <1>3, <1>5
  <2>2. \A v \in IcpWorkers : ~Writing(icpWorker[v], d)
    BY <1>7, <1>8, <2>1
  <2> QED
    BY <1>7, <1>11, <2>1, <2>2 DEF IcpInv, StillInv
<1>15. DueInv'
  <2>1. \A d : Due(d)' <=> Due(d)
    BY DEF Due
  <2> SUFFICES ASSUME NEW v \in IcpWorkers, NEW d \in Undisturbed', Sweeping(icpWorker'[v], d)
               PROVE  Due(d) /\ (icpWorker'[v].on = d => icpWorker'[v].attempts \in {Unknown, evaluated[d].attempts})
    BY <2>1 DEF DueInv
  <2> QED
    BY <1>5, <1>7, <1>8 DEF IcpInv, DueInv
<1>16. GateInv'
  <2> SUFFICES ASSUME NEW v \in IcpWorkers, NEW d \in Undisturbed', icpWorker'[v].does = "gates",
                      d \in icpWorker'[v].todo \cup {icpWorker'[v].on}
               PROVE  icpWorker'[v].rows[d] = firm'[d]
    BY DEF GateInv
  <2>1. CASE v = w
    BY <2>1
  <2>2. CASE v # w
    <3>1. icpWorker'[v] = icpWorker[v] /\ d \in Undisturbed /\ icpWorker[v].rows[d] = firm[d]
      BY <1>5, <2>2 DEF IcpInv, GateInv
    <3>2. d # c
      <4>1. d = c => GateHolds(c, w)
        BY <2>2, <3>1 DEF GateHolds, Holders
      <4> QED
        BY <1>3, <1>5, <4>1
    <3> QED
      BY <1>2, <1>7, <3>1, <3>2
  <2> QED
    BY <2>1, <2>2
<1> QED
  BY <1>4, <1>6, <1>9, <1>10, <1>13, <1>14, <1>15, <1>16 DEF IcpInv

(* A figure leaves a row.                                                  *)
LEMMA RowWith ==
  ASSUME NEW f \in FirmShape, NEW lower \in OrUnknown(Nat), NEW higher \in OrUnknown(Nat)
  PROVE  [f EXCEPT !.lower = lower, !.higher = higher] \in FirmShape
BY DEF FirmShape

(* Facts that were not on file leave a row.                                *)
LEMMA RowFilled ==
  ASSUME NEW f \in FirmShape, NEW g \in FirmShape
  PROVE  [f EXCEPT !.employees = g.employees, !.salesShare = g.salesShare, !.role = g.role] \in FirmShape
BY DEF FirmShape

(* An operator edits a row.                                                *)
LEMMA EditKeeps ==
  ASSUME IcpInv, NEW c \in Firms, NEW row \in FirmShape, Edit, c \in OnFile, Changed(c, Unknown, row),
         UNCHANGED <<evaluated, matches, icpWorker, icpDay, tries, hurried, misjudged>>
  PROVE  IcpInv'
<1>1. WorkTyped'
  BY DEF IcpInv, WorkTyped
<1>2. edits' \in 0..MaxEdits
  BY IcpAssumption DEF Edit, IcpInv, FilesTyped
<1>3. \A v \in IcpWorkers : v # Unknown
  BY IcpAssumption
<1> QED
  BY <1>1, <1>2, <1>3, RowChanges

(* An operator, or an enrichment by hand, does.                            *)
LEMMA OperatorKeeps ==
  ASSUME IcpInv, NEW c \in Firms, enrich_company(c) \/ \E figure \in Figures : set_company_real_revenue(c, figure)
  PROVE  IcpInv'
<1>1. CASE enrich_company(c)
  <2>1. PICK f \in FirmFacts :
          Changed(c, Unknown, [firm[c] EXCEPT !.employees = f.employees, !.salesShare = f.salesShare, !.role = f.role])
    BY <1>1 DEF enrich_company
  <2>2. Edit /\ c \in OnFile /\ UNCHANGED <<evaluated, matches, icpWorker, icpDay, tries, hurried, misjudged>>
    BY <1>1 DEF enrich_company
  <2>3. firm[c] \in FirmShape /\ f \in FirmShape
    BY <2>2, RowIs, FactsAssumption DEF IcpInv
  <2> QED
    BY <2>1, <2>2, <2>3, RowFilled, EditKeeps
<1>2. ASSUME NEW figure \in Figures, set_company_real_revenue(c, figure) PROVE IcpInv'
  <2>1. /\ Edit /\ c \in OnFile /\ UNCHANGED <<evaluated, matches, icpWorker, icpDay, tries, hurried, misjudged>>
        /\ Changed(c, Unknown, [firm[c] EXCEPT !.lower = figure, !.higher = figure])
    BY <1>2 DEF set_company_real_revenue
  <2>2. firm[c] \in FirmShape /\ figure \in OrUnknown(Nat)
    BY <2>1, RowIs, IcpAssumption DEF IcpInv, OrUnknown
  <2> QED
    BY <2>1, <2>2, RowWith, EditKeeps
<1> QED
  BY <1>1, <1>2

(* A gate or a backfill asks for a figure.                                 *)
LEMMA EstimateKeeps ==
  ASSUME IcpInv, NEW w \in IcpWorkers, estimate_company_revenue(w)
  PROVE  IcpInv'
<1> DEFINE me == icpWorker[w]
           c == me.on
<1>1. (me \in GateRuns /\ me.does = "gates") \/ (me \in BackfillRuns /\ me.does = "backfills")
  <2>1. me \in IcpWork
    BY DEF IcpInv, WorkTyped
  <2> QED
    BY <2>1, WorkIs DEF estimate_company_revenue, Asks, Has
<1>2. UNCHANGED <<evaluated, matches, icpDay, edits, tries, hurried, misjudged>>
  BY DEF estimate_company_revenue
<1>3. CASE UNCHANGED <<firm, stale, mixed>> /\ icpWorker' = [icpWorker EXCEPT ![w].asked = TRUE]
  <2> DEFINE rec == [me EXCEPT !.asked = TRUE]
  <2>1. icpWorker' = [icpWorker EXCEPT ![w] = rec]
    BY <1>3 DEF IcpInv, WorkTyped
  <2>2. rec \in IcpWork /\ rec.does = me.does /\ rec.todo = me.todo /\ rec.on = me.on /\ rec.rows = me.rows
    <3>1. CASE me \in GateRuns
      BY <3>1 DEF GateRuns, IcpWork
    <3>2. CASE me \in BackfillRuns
      BY <3>2 DEF BackfillRuns, IcpWork
    <3> QED
      BY <1>1, <3>1, <3>2
  <2> HIDE DEF rec
  <2>3. \A d \in Undisturbed : rec.does = "gates" /\ d \in rec.todo \cup {rec.on} => rec.rows[d] = firm[d]
    BY <2>2 DEF IcpInv, GateInv
  <2>4. UNCHANGED <<firm, evaluated, matches, icpDay, edits, icpGhosts>>
    BY <1>2, <1>3 DEF icpGhosts
  <2> QED
    BY <1>1, <2>1, <2>2, <2>3, <2>4, RecordMoves
<1>4. ASSUME NEW figure \in Figures, c \in OnFile,
             Changed(c, w, [firm[c] EXCEPT !.lower = figure, !.higher = figure]),
             icpWorker' = [icpWorker EXCEPT ![w].asked = TRUE, ![w].rows = IF me.does = "gates" THEN firm' ELSE @]
      PROVE  IcpInv'
  <2> DEFINE row == [firm[c] EXCEPT !.lower = figure, !.higher = figure]
  <2>1. row \in FirmShape
    <3>1. firm[c] \in FirmShape /\ figure \in OrUnknown(Nat)
      BY <1>4, RowIs, IcpAssumption DEF IcpInv, OrUnknown
    <3> QED
      BY <3>1, RowWith
  <2> HIDE DEF row
  <2>2. firm' \in [Firms -> FirmRow]
    BY <1>4, <2>1 DEF Changed, IcpInv, FilesTyped, FirmRow, OrUnknown, row
  <2>3. PICK copies : copies = IF me.does = "gates" THEN firm' ELSE me.rows
    OBVIOUS
  <2> DEFINE rec == [me EXCEPT !.asked = TRUE, !.rows = copies]
  <2>4. icpWorker' = [icpWorker EXCEPT ![w] = rec]
    BY <1>4, <2>3 DEF IcpInv, WorkTyped
  <2>5. rec \in IcpWork /\ rec.does = me.does /\ rec.rows = copies
    <3>1. CASE me \in GateRuns /\ me.does = "gates"
      BY <2>2, <2>3, <3>1 DEF GateRuns, IcpWork
    <3>2. CASE me \in BackfillRuns /\ me.does = "backfills"
      BY <2>3, <3>2 DEF BackfillRuns, IcpWork
    <3> QED
      BY <1>1, <3>1, <3>2
  <2> HIDE DEF rec
  <2>6. WorkTyped' /\ icpWorker'[w] = rec /\ \A v \in IcpWorkers : v # w => icpWorker'[v] = icpWorker[v]
    BY <2>4, <2>5, WorkPut DEF IcpInv
  <2>7. edits' \in 0..MaxEdits
    BY <1>2 DEF IcpInv, FilesTyped
  <2>8. me.does # "sweeps" /\ (rec.does = "gates" => rec.rows = firm')
    BY <1>1, <2>3, <2>5
  <2>9. Changed(c, w, row)
    BY <1>4 DEF row
  <2>10. /\ \A v \in IcpWorkers : v # w => icpWorker'[v] = icpWorker[v]
         /\ \A v \in IcpWorkers : v = w => icpWorker[v].does # "sweeps" /\ icpWorker'[v].does = icpWorker[v].does
         /\ \A v \in IcpWorkers : v = w /\ icpWorker'[v].does = "gates" => icpWorker'[v].rows = firm'
    BY <2>5, <2>6, <2>8
  <2>11. c \in OnFile /\ WorkTyped' /\ UNCHANGED <<evaluated, matches, icpDay, tries, hurried, misjudged>>
    BY <1>2, <1>4, <2>6
  <2> HIDE DEF c, me
  <2> QED
    BY <2>1, <2>7, <2>9, <2>10, <2>11, RowChanges
<1> QED
  BY <1>3, <1>4 DEF estimate_company_revenue

(* The gate judges a company by its row as it has it.                      *)
LEMMA GateJudgesKeeps ==
  ASSUME IcpInv, NEW w \in IcpWorkers, GateJudges(w)
  PROVE  IcpInv'
<1> DEFINE me == icpWorker[w]
           c == me.on
<1>1. me \in GateRuns /\ me.does = "gates" /\ c \in Firms /\ me.todo \subseteq Firms
  <2>1. me \in GateRuns
    BY WorkIs DEF GateJudges, Has, IcpInv, WorkTyped
  <2> QED
    BY <2>1 DEF GateRuns, GateJudges, Has, OrUnknown, Known
<1>2. UNCHANGED <<icpDay, edits, stale, mixed, tries, hurried>>
  BY DEF GateJudges
<1>3. CASE ~FailsOnRevenue(me.rows[c])
  <2> DEFINE rec == [me EXCEPT !.on = Unknown]
  <2>1. /\ icpWorker' = [icpWorker EXCEPT ![w] = rec]
        /\ UNCHANGED <<firm, evaluated, matches, icpDay, edits, icpGhosts>>
    BY <1>1, <1>2, <1>3 DEF GateJudges, icpGhosts, IcpInv, WorkTyped
  <2>2. rec \in IcpWork /\ rec.todo = me.todo /\ rec.on = Unknown /\ rec.rows = me.rows /\ rec.does = "gates"
    BY <1>1 DEF GateRuns, OrUnknown, IcpWork
  <2> HIDE DEF rec
  <2>3. \A d \in Undisturbed : rec.does = "gates" /\ d \in rec.todo \cup {rec.on} => rec.rows[d] = firm[d]
    <3>1. \A d \in Undisturbed : d # Unknown
      BY IcpAssumption DEF Undisturbed, OnFile
    <3> QED
      BY <1>1, <2>2, <3>1 DEF IcpInv, GateInv
  <2> QED
    BY <1>1, <2>1, <2>2, <2>3, RecordMoves
<1>4. CASE FailsOnRevenue(me.rows[c])
  <2>1. /\ firm' = [firm EXCEPT ![c] = Unknown] /\ evaluated' = [evaluated EXCEPT ![c] = NotEvaluated]
        /\ matches' = {m \in matches : m[1] # c}
        /\ misjudged' = IF c \in OnFile /\ (~Reported(firm[c]) \/ AnyMatch(firm[c]))
                        THEN misjudged \cup {c} ELSE misjudged
        /\ icpWorker' = [icpWorker EXCEPT ![w].on = Unknown, ![w].rows = firm']
    BY <1>4 DEF GateJudges
  <2>2. /\ firm' \in [Firms -> FirmRow] /\ firm'[c] = Unknown /\ \A d \in Firms : d # c => firm'[d] = firm[d]
    BY <1>1, <2>1 DEF IcpInv, FilesTyped, FirmRow, OrUnknown
  <2>3. evaluated' \in [Firms -> Evaluation] /\ \A d \in Firms : d # c => evaluated'[d] = evaluated[d]
    <3>1. NotEvaluated \in Evaluation
      BY DEF NotEvaluated, Evaluation, OrUnknown
    <3> QED
      BY <1>1, <2>1, <3>1 DEF IcpInv, FilesTyped
  <2>4. FilesTyped'
    BY <1>1, <1>2, <2>1, <2>2, <2>3 DEF IcpInv, FilesTyped
  <2>5. OnFile' = OnFile \ {c} /\ Undisturbed' = Undisturbed \ {c} /\ Undisturbed \subseteq Firms
        /\ \A d \in Firms : d # Unknown
    BY <1>1, <1>2, <2>2, IcpAssumption DEF OnFile, Undisturbed, Known
  <2> DEFINE rec == [me EXCEPT !.on = Unknown, !.rows = firm']
  <2>6. icpWorker' = [icpWorker EXCEPT ![w] = rec]
    BY <2>1 DEF IcpInv, WorkTyped
  <2>7. rec \in IcpWork /\ rec.does = "gates" /\ rec.todo = me.todo /\ rec.on = Unknown /\ rec.rows = firm'
    BY <1>1, <2>2 DEF GateRuns, OrUnknown, IcpWork
  <2> HIDE DEF rec
  <2>8. WorkTyped' /\ icpWorker'[w] = rec /\ \A v \in IcpWorkers : v # w => icpWorker'[v] = icpWorker[v]
    BY <2>6, <2>7, WorkPut DEF IcpInv
  <2>9. \A v \in IcpWorkers, d \in Firms : /\ Sweeping(icpWorker'[v], d) => v # w
                                           /\ Writing(icpWorker'[v], d) => v # w
                                           /\ ~Writing(icpWorker[w], d)
    BY <1>1, <2>7, <2>8 DEF Sweeping, Writing
  <2>10. \A d \in Firms, S \in SUBSET Icps : d # c => (TrueOf(d, S)' <=> TrueOf(d, S))
    BY <2>1, <2>2 DEF TrueOf
  <2>11. \A d \in Firms : d # c => (Due(d)' <=> Due(d))
    BY <1>2, <2>3 DEF Due
  <2>12. NoOrphanMatch'
    BY <2>1, <2>5 DEF IcpInv, NoOrphanMatch
  <2>13. DropIsJustified'
    <3>1. c \in Undisturbed => firm[c] = me.rows[c]
      BY <1>1 DEF IcpInv, GateInv
    <3>2. c \in Undisturbed => Reported(firm[c]) /\ ~AnyMatch(firm[c])
      BY <1>4, <3>1 DEF FailsOnRevenue, Reported
    <3> QED
      BY <1>2, <2>1, <3>2 DEF IcpInv, DropIsJustified, Undisturbed
  <2>14. TriesInv'
    BY <1>2, <2>3, <2>5 DEF IcpInv, TriesInv
  <2>15. OneSweeps'
    BY <1>2, <2>8, <2>9 DEF IcpInv, OneSweeps
  <2>16. ListsApart'
    BY <2>7, <2>8 DEF IcpInv, ListsApart
  <2>17. WrittenInv'
    <3> SUFFICES ASSUME NEW v \in IcpWorkers, NEW d \in (Undisturbed \ {c}) \ stale, Writing(icpWorker'[v], d)
                 PROVE  icpWorker'[v].row = firm'[d] /\ \A i \in Icps \ icpWorker'[v].left :
                           ~Missing(firm'[d], i) => (<<d, i>> \in matches' <=> Matched(firm'[d], i))
      BY <1>2, <2>5 DEF WrittenInv, TrueOf
    <3>1. icpWorker'[v] = icpWorker[v] /\ d \in Firms /\ d # c
      BY <2>5, <2>8, <2>9
    <3>2. icpWorker[v].row = firm[d] /\ TrueOf(d, Icps \ icpWorker[v].left)
      BY <3>1 DEF IcpInv, WrittenInv
    <3> QED
      BY <2>1, <2>2, <3>1, <3>2 DEF TrueOf
  <2>18. StillInv'
    <3> SUFFICES ASSUME NEW d \in (Undisturbed \ {c}) \ stale, Known(evaluated'[d].day),
                        \A v \in IcpWorkers : ~Writing(icpWorker'[v], d)
                 PROVE  TrueOf(d, Icps)'
      BY <1>2, <2>5 DEF StillInv
    <3>1. d \in Firms /\ d # c /\ Known(evaluated[d].day)
      BY <2>3, <2>5
    <3>2. \A v \in IcpWorkers : ~Writing(icpWorker[v], d)
      BY <2>8, <2>9, <3>1
    <3> QED
      BY <2>10, <3>1, <3>2 DEF IcpInv, StillInv
  <2>19. DueInv'
    <3> SUFFICES ASSUME NEW v \in IcpWorkers, NEW d \in Undisturbed \ {c}, Sweeping(icpWorker'[v], d)
                 PROVE  /\ Due(d)'
                        /\ icpWorker'[v].on = d => icpWorker'[v].attempts \in {Unknown, evaluated'[d].attempts}
      BY <2>5 DEF DueInv
    <3>1. icpWorker'[v] = icpWorker[v] /\ d \in Firms /\ d # c
      BY <2>5, <2>8, <2>9
    <3> QED
      BY <2>3, <2>11, <3>1 DEF IcpInv, DueInv
  <2>20. GateInv'
    <3> SUFFICES ASSUME NEW v \in IcpWorkers, NEW d \in Undisturbed \ {c}, icpWorker'[v].does = "gates",
                        d \in icpWorker'[v].todo \cup {icpWorker'[v].on}
                 PROVE  icpWorker'[v].rows[d] = firm'[d]
      BY <2>5 DEF GateInv
    <3>1. CASE v = w
      BY <2>7, <2>8, <3>1
    <3>2. CASE v # w
      BY <2>2, <2>5, <2>8, <3>2 DEF IcpInv, GateInv
    <3> QED
      BY <3>1, <3>2
  <2> QED
    BY <2>4, <2>8, <2>12, <2>13, <2>14, <2>15, <2>16, <2>17, <2>18, <2>19, <2>20 DEF IcpInv
<1> QED
  BY <1>3, <1>4

(* A day passes: what was due is due.                                      *)
LEMMA IcpDayKeeps ==
  ASSUME IcpInv, IcpDayPasses
  PROVE  IcpInv'
<1>1. /\ icpDay' = icpDay + 1 /\ icpDay \in Nat /\ icpDay' \in 0..MaxIcpDay
      /\ UNCHANGED <<firm, evaluated, matches, icpWorker, edits, icpGhosts>>
  BY IcpAssumption DEF IcpDayPasses, IcpInv, FilesTyped
<1>2. WorkTyped' /\ FilesTyped' /\ OneSweeps' /\ ListsApart' /\ TriesInv' /\ DropIsJustified' /\ NoOrphanMatch'
      /\ OnFile' = OnFile /\ Undisturbed' = Undisturbed /\ Undisturbed \subseteq Firms
  BY <1>1 DEF IcpInv, WorkTyped, FilesTyped, OneSweeps, ListsApart, TriesInv, DropIsJustified, NoOrphanMatch,
     OnFile, Undisturbed, icpGhosts
<1>3. WrittenInv' /\ StillInv' /\ GateInv'
  BY <1>1, <1>2 DEF IcpInv, WrittenInv, StillInv, GateInv, TrueOf, icpGhosts
<1>4. \A c \in Firms : Due(c) => Due(c)'
  <2> SUFFICES ASSUME NEW c \in Firms, Due(c) PROVE Due(c)'
    OBVIOUS
  <2>1. CASE ~Known(evaluated[c].day)
    BY <1>1, <2>1 DEF Due
  <2>2. CASE Known(evaluated[c].day)
    <3>1. evaluated[c].day \in Nat /\ evaluated[c].day < icpDay - RetryAfter
      BY <2>2 DEF Due, IcpInv, FilesTyped, Evaluation, OrUnknown, Known
    <3>2. evaluated'[c].day < icpDay' - RetryAfter
      BY <1>1, <3>1, IcpAssumption
    <3>3. evaluated'[c].missing /\ evaluated'[c].attempts < MaxEvaluations
      BY <1>1, <2>2 DEF Due
    <3> QED
      BY <3>2, <3>3 DEF Due
  <2> QED
    BY <2>1, <2>2
<1>5. DueInv'
  BY <1>1, <1>2, <1>4 DEF IcpInv, DueInv, icpGhosts
<1> QED
  BY <1>2, <1>3, <1>5 DEF IcpInv

(* Nothing moves.                                                          *)
LEMMA IcpRests ==
  ASSUME IcpInv, UNCHANGED icpVars
  PROVE  IcpInv'
<1>1. WorkTyped' /\ FilesTyped' /\ OneSweeps' /\ ListsApart' /\ TriesInv' /\ DropIsJustified' /\ NoOrphanMatch'
  BY DEF IcpInv, WorkTyped, FilesTyped, OneSweeps, ListsApart, TriesInv, DropIsJustified, NoOrphanMatch, OnFile,
     icpVars, icpGhosts
<1>2. WrittenInv' /\ StillInv' /\ GateInv' /\ DueInv'
  BY DEF IcpInv, WrittenInv, StillInv, GateInv, DueInv, Due, TrueOf, Undisturbed, OnFile, icpVars, icpGhosts
<1> QED
  BY <1>1, <1>2 DEF IcpInv

(* At the start nothing is evaluated, and nobody at work.                  *)
LEMMA IcpStarts ==
  ASSUME IcpInit
  PROVE  IcpInv
<1>1. NoWork \in IcpWork /\ NoWork.does = "nothing" /\ NotEvaluated \in Evaluation
      /\ NotEvaluated.day = Unknown /\ NotEvaluated.attempts = 0
  BY DEF IcpWork, NoWork, NotEvaluated, Evaluation, OrUnknown
<1>2. \A w \in IcpWorkers : icpWorker[w].does = "nothing"
  BY <1>1 DEF IcpInit
<1>3. firm \in [Firms -> FirmRow]
  BY FactsAssumption DEF IcpInit, FirmRow, OrUnknown
<1>4. FilesTyped
  BY <1>1, <1>3, IcpAssumption DEF IcpInit, FilesTyped
<1>5. WorkTyped
  BY <1>1 DEF IcpInit, WorkTyped
<1>6. OneSweeps /\ ListsApart /\ WrittenInv /\ DueInv /\ GateInv
  BY <1>2 DEF OneSweeps, ListsApart, WrittenInv, DueInv, GateInv, Sweeping, Writing
<1>7. \A c \in Firms : evaluated[c].day = Unknown /\ evaluated[c].attempts = 0 /\ tries[c] = 0
  BY <1>1 DEF IcpInit
<1>8. StillInv
  BY <1>7 DEF StillInv, Undisturbed, OnFile, Known
<1>9. TriesInv
  BY <1>7, IcpAssumption DEF TriesInv, IcpInit
<1>10. DropIsJustified /\ NoOrphanMatch
  BY DEF IcpInit, DropIsJustified, NoOrphanMatch
<1> QED
  BY <1>4, <1>5, <1>6, <1>8, <1>9, <1>10 DEF IcpInv

(* The invariant has the rules of the matches.                             *)
LEMMA IcpRulesFollow ==
  ASSUME IcpInv
  PROVE  IcpRules
<1>1. IcpTypeOK
  <2>1. \A c \in Firms : Known(firm[c]) => firm[c] \in FirmShape
    BY DEF IcpInv, FilesTyped, FirmRow, OrUnknown, Known
  <2>2. \A w \in IcpWorkers : icpWorker[w].does \in {"nothing", "sweeps", "gates", "backfills"}
    BY WorkIs DEF IcpInv, WorkTyped
  <2> QED
    BY <2>1, <2>2 DEF IcpInv, FilesTyped, Evaluation, IcpTypeOK
<1>2. SettledMatchIsTrue
  <2> SUFFICES ASSUME NEW c \in OnFile \ (stale \cup mixed), Known(evaluated[c].day),
                      \A w \in Holders(c) : icpWorker[w].does # "sweeps"
               PROVE  TrueOf(c, Icps)
    BY DEF SettledMatchIsTrue, TrueOf
  <2>1. \A w \in IcpWorkers : ~Writing(icpWorker[w], c)
    BY DEF Writing, Holders
  <2> QED
    BY <2>1 DEF IcpInv, StillInv, Undisturbed
<1>3. RetriesAreBounded
  BY DEF IcpInv, TriesInv, RetriesAreBounded
<1> QED
  BY <1>1, <1>2, <1>3 DEF IcpInv, IcpRules

(* The matches that stand are what the rules say of a company's row as it  *)
(* is, a company that lacks information is evaluated a bounded number of   *)
(* times and apart, and a company goes only for a reported figure that     *)
(* fails, with its matches: unless two workers had it at once, or its row  *)
(* changed since.  IcpRules, for every family of ICPs and companies, any   *)
(* number of workers, days and edits.                                      *)
THEOREM IcpRulesHold == IcpSpec => []IcpRules
<1>1. IcpInit => IcpInv
  BY IcpStarts
<1>2. IcpInv /\ [IcpNext]_icpVars => IcpInv'
  <2> SUFFICES ASSUME IcpInv, [IcpNext]_icpVars PROVE IcpInv'
    OBVIOUS
  <2>1. CASE IcpDayPasses \/ UNCHANGED icpVars
    BY <2>1, IcpDayKeeps, IcpRests
  <2>2. ASSUME NEW w \in IcpWorkers,
               \/ run_icp_matching_sweep(w) \/ record_icp_match(w) \/ StampEvaluation(w) \/ EvaluationFails(w)
               \/ \E c \in Firms : evaluate_icp_matches_for_company(w, c)
        PROVE  IcpInv'
    BY <2>2, SweepBegins, RecordKeeps, StampKeeps, EvaluationFailsKeeps, EvaluateKeeps
  <2>3. ASSUME NEW w \in IcpWorkers,
               \/ gate_batch_before_decision_makers(w) \/ run_revenue_backfill_sweep(w) \/ estimate_company_revenue(w)
               \/ BackfillNext(w) \/ GateJudges(w) \/ WorkEnds(w)
               \/ \E c \in Firms : GateTakes(w, c) \/ BackfillTakes(w, c)
        PROVE  IcpInv'
    BY <2>3, GateBegins, BackfillBegins, EstimateKeeps, BackfillNextKeeps, GateJudgesKeeps, WorkEndsKeeps,
       GateTakesKeeps, BackfillTakesKeeps
  <2>4. ASSUME NEW c \in Firms, enrich_company(c) \/ \E figure \in Figures : set_company_real_revenue(c, figure)
        PROVE  IcpInv'
    BY <2>4, OperatorKeeps
  <2> QED
    BY <2>1, <2>2, <2>3, <2>4 DEF IcpNext
<1> QED
  BY <1>1, <1>2, IcpRulesFollow, PTL DEF IcpSpec
=============================================================================
