-------------------------- MODULE LlmRouterProofs --------------------------
(***************************************************************************)
(* What the router of LLM calls keeps for any number of threads, processes *)
(* and models: a thread meets the same dead model once a day, and only a   *)
(* PerDay rejection ever retires one.  A thread alone passes the daily     *)
(* budget by less than two walks over the models.                          *)
(***************************************************************************)
EXTENDS LlmRouter, FiniteSetTheorems, WellFoundedInduction, TLAPS

InFlight(c, m) == call[c].at = m /\ call[c].pc \in {"read", "write", "ask"}
Marking(c, m) == call[c].at = m /\ call[c].pc = "mark"

(* A thread that has met as many rejections of m as it may is writing the  *)
(* last one down, or finds it in the table before it asks again.           *)
Charged ==
  \A c \in Callers, m \in Models :
    /\ rejected[c][m] <= lapses + 1
    /\ rejected[c][m] = lapses + 1 =>
         Marking(c, m) \/ (day \in exhausted[m] /\ ~InFlight(c, m))

(* Whoever retires a model has met its rejection.                          *)
HeardOf(m, d) == \E e \in goneOn[m] : e <= d

Evidence ==
  /\ \A m \in Models : \A d \in exhausted[m] : HeardOf(m, d)
  /\ \A i \in Instances, m \in Models : memo[i][m] # Never => HeardOf(m, memo[i][m])
  /\ \A c \in Callers : call[c].pc = "mark" => HeardOf(call[c].at, day)

(* The threads' steps, without the ones of the environment.                *)
ThreadStep(c) ==
  \/ StartCall(c) \/ Refuse(c) \/ GateFailsOpen(c) \/ CheckFailsOpen(c)
  \/ RecordFails(c) \/ MarkFails(c) \/ Proceed(c)

(* NextModel keeps a call's record well formed, at a model or past them.   *)
LEMMA NextModelType ==
  ASSUME NEW r \in Calls
  PROVE  NextModel(r) \in Calls /\ NextModel(r).pc \in {"check", "sleep", "claude"}
<1>1. CASE r.at < ModelCount
  <2>1. NextModel(r) = [r EXCEPT !.pc = "check", !.at = @ + 1]
    BY <1>1 DEF NextModel
  <2>2. r.at + 1 \in Models
    BY <1>1, RouterAssumption DEF Calls, Models
  <2> QED BY <2>1, <2>2 DEF Calls
<1>2. CASE ~(r.at < ModelCount)
  BY <1>2 DEF NextModel, Calls
<1> QED BY <1>1, <1>2

(* Moving a thread to a label keeps the records of all threads.            *)
LEMMA GotoType ==
  ASSUME call \in [Callers -> Calls], NEW c \in Callers,
         NEW label \in {"check", "read", "mark", "claude"}, Goto(c, label)
  PROVE  call' \in [Callers -> Calls]
<1>1. [call[c] EXCEPT !.pc = label] \in Calls
  BY DEF Calls
<1> QED BY <1>1 DEF Goto

(* Counting an attempt keeps the records of all threads.                   *)
LEMMA CountedType ==
  ASSUME call \in [Callers -> Calls], NEW c \in Callers, Counted(c)
  PROVE  call' \in [Callers -> Calls]
<1>1. 0 \in Days
  BY RouterAssumption DEF Days
<1>2. [call[c] EXCEPT !.pc = "ask", !.on = 0, !.seen = 0] \in Calls
  BY <1>1 DEF Calls
<1> QED BY <1>2 DEF Counted

(* Type correctness is inductive.                                          *)
LEMMA TypeStep == ASSUME TypeOK, [Next]_vars PROVE TypeOK'
<1> USE RouterAssumption DEF TypeOK
<1>1. CASE UNCHANGED vars
  BY <1>1 DEF vars
<1>2. CASE Midnight
  BY <1>2 DEF Midnight, Days
<1>3. ASSUME NEW m \in Models, QuotaGone(m) PROVE TypeOK'
  BY <1>3 DEF QuotaGone
<1>4. ASSUME NEW i \in Instances, Restart(i) PROVE TypeOK'
  <2>1. Idle \in Calls
    BY DEF Idle, Calls, Models, Days
  <2>2. call' \in [Callers -> Calls] /\ memo' \in [Instances -> [Models -> Days \cup {Never}]]
    BY <1>4, <2>1 DEF Restart
  <2>3. lapses' \in Nat /\ restarts' \in Nat
    BY <1>4 DEF Restart, Lapse
  <2> QED BY <1>4, <2>2, <2>3 DEF Restart
<1>5. ASSUME NEW c \in Callers, ThreadStep(c) PROVE TypeOK'
  <2> DEFINE m == call[c].at
  <2>0. /\ call[c] \in Calls /\ m \in Models /\ Home[c] \in Instances
        /\ call[c].on \in Days /\ call[c].seen \in Nat
    BY DEF Calls
  <2>1. Idle \in Calls
    BY DEF Idle, Calls, Models, Days
  <2>2. NextModel(call[c]) \in Calls
    BY <2>0, NextModelType
  <2>3. CASE StartCall(c) \/ TryModel(c) \/ OtherError(c)
    BY <2>3, GotoType DEF StartCall, TryModel, OtherError
  <2>4. CASE GateFailsOpen(c) \/ CheckFailsOpen(c)
    BY <2>4, GotoType DEF GateFailsOpen, CheckFailsOpen, Lapse
  <2>5. CASE SkipModel(c)
    BY <2>2, <2>5 DEF SkipModel, Advance
  <2>6. CASE ReadCount(c)
    <3>1. count[m][day] \in Nat
      BY <2>0
    <3>2. [call[c] EXCEPT !.pc = "write", !.on = day, !.seen = count[m][day]] \in Calls
      BY <2>0, <3>1 DEF Calls
    <3>3. call' \in [Callers -> Calls]
      BY <2>6, <3>2 DEF ReadCount
    <3> QED BY <2>6, <3>3 DEF ReadCount
  <2>7. CASE WriteCount(c)
    <3>2. call' \in [Callers -> Calls]
      BY <2>7, CountedType DEF WriteCount
    <3>3. count' \in [Models -> [Days -> Nat]] /\ uncounted' \in Int
      BY <2>0, <2>7 DEF WriteCount
    <3> QED BY <2>7, <3>2, <3>3 DEF WriteCount
  <2>8. CASE RecordFails(c)
    <3>2. call' \in [Callers -> Calls]
      BY <2>8, CountedType DEF RecordFails
    <3> QED BY <2>8, <3>2 DEF RecordFails, Lapse
  <2>9. CASE Answered(c) \/ Fallback(c)
    BY <2>1, <2>9 DEF Answered, Fallback
  <2>10. CASE MinuteLimited(c)
    <3>1. [call[c] EXCEPT !.limited = TRUE] \in Calls
      BY <2>0 DEF Calls
    <3>2. NextModel([call[c] EXCEPT !.limited = TRUE]) \in Calls
      BY <3>1, NextModelType
    <3> QED BY <2>10, <3>2 DEF MinuteLimited
  <2>11. CASE DayLimited(c)
    BY <2>0, <2>11, GotoType DEF DayLimited
  <2>12. CASE MarkExhausted(c) \/ MarkFails(c)
    <3>1. memo' \in [Instances -> [Models -> Days \cup {Never}]]
      <4>1. Remember(c)
        BY <2>12 DEF MarkExhausted, MarkFails
      <4> QED BY <2>0, <4>1 DEF Remember
    <3>2. call' \in [Callers -> Calls]
      <4>1. Advance(c)
        BY <2>12 DEF MarkExhausted, MarkFails
      <4> QED BY <2>2, <4>1 DEF Advance
    <3>3. exhausted' \in [Models -> SUBSET Days]
      BY <2>0, <2>12 DEF MarkExhausted, MarkFails
    <3>4. lapses' \in Nat
      BY <2>12 DEF MarkExhausted, MarkFails, Lapse
    <3> QED BY <2>12, <3>1, <3>2, <3>3, <3>4 DEF MarkExhausted, MarkFails
  <2>13. CASE Wake(c)
    <3>1. [Idle EXCEPT !.pc = "check", !.pass = 2] \in Calls
      BY <2>1 DEF Calls
    <3> QED BY <2>13, <3>1 DEF Wake
  <2>14. CASE Refuse(c)
    BY <2>14 DEF Refuse, vars
  <2> QED
    BY <1>5, <2>3, <2>4, <2>5, <2>6, <2>7, <2>8, <2>9, <2>10, <2>11, <2>12, <2>13, <2>14
    DEF ThreadStep, Proceed
<1> QED
  BY <1>1, <1>2, <1>3, <1>4, <1>5 DEF Next, ThreadStep

---------------------------------------------------------------------------
(* The charge a thread bears for one model survives every step.            *)
LEMMA ChargedStep ==
  ASSUME TypeOK, Charged, [Next]_vars, NEW k \in Callers, NEW m \in Models
  PROVE  /\ rejected'[k][m] <= lapses' + 1
         /\ rejected'[k][m] = lapses' + 1 =>
              Marking(k, m)' \/ (day' \in exhausted'[m] /\ ~InFlight(k, m)')
<1> DEFINE Bound == rejected[k][m] <= lapses + 1
           Paid == Marking(k, m) \/ (day \in exhausted[m] /\ ~InFlight(k, m))
<1>0. /\ Bound
      /\ rejected[k][m] = lapses + 1 => Paid
      /\ rejected[k][m] \in Nat /\ lapses \in Nat
      /\ call[k] \in Calls
  BY DEF Charged, TypeOK
<1> HIDE DEF Paid
<1>1. CASE UNCHANGED vars
  BY <1>0, <1>1 DEF vars, Paid, Marking, InFlight
<1>2. CASE Midnight
  <2>1. rejected'[k][m] = 0 /\ lapses' = lapses
    BY <1>2 DEF Midnight
  <2> QED BY <1>0, <2>1
<1>3. ASSUME NEW n \in Models, QuotaGone(n) PROVE Bound' /\ (rejected[k][m] = lapses + 1 => Paid)'
  BY <1>0, <1>3 DEF QuotaGone, Paid, Marking, InFlight
<1>4. ASSUME NEW i \in Instances, Restart(i) PROVE Bound' /\ (rejected[k][m] = lapses + 1 => Paid)'
  <2>1. rejected' = rejected /\ day' = day /\ exhausted' = exhausted
    BY <1>4 DEF Restart
  <2>2. CASE Home[k] = i
    <3>1. CASE Marking(k, m)
      <4>1. lapses' = lapses + 1
        BY <1>4, <2>2, <3>1 DEF Restart, Threads, At, Marking, Lapse
      <4> QED BY <1>0, <2>1, <4>1
    <3>2. CASE ~Marking(k, m)
      <4>1. call'[k] = Idle
        BY <1>4, <2>2 DEF Restart, Threads, TypeOK
      <4>2. ~InFlight(k, m)'
        BY <4>1 DEF Idle, InFlight
      <4>3. lapses' \in {lapses, lapses + 1}
        BY <1>4 DEF Restart, Lapse
      <4> QED BY <1>0, <2>1, <3>2, <4>2, <4>3 DEF Paid
    <3> QED BY <3>1, <3>2
  <2>3. CASE Home[k] # i
    <3>1. call'[k] = call[k]
      BY <1>4, <2>3 DEF Restart, Threads
    <3>2. lapses' \in {lapses, lapses + 1}
      BY <1>4 DEF Restart, Lapse
    <3> QED BY <1>0, <2>1, <3>1, <3>2 DEF Paid, Marking, InFlight
  <2> QED BY <2>2, <2>3
<1>5. ASSUME NEW c \in Callers, ThreadStep(c) PROVE Bound' /\ (rejected[k][m] = lapses + 1 => Paid)'
  <2>0. day' = day /\ Home[c] \in Instances /\ call[c] \in Calls /\ call[c].at \in Models
    BY <1>5, RouterAssumption
    DEF ThreadStep, Proceed, StartCall, Refuse, GateFailsOpen, CheckFailsOpen, RecordFails, MarkFails,
        SkipModel, TryModel, ReadCount, WriteCount, Answered, OtherError, MinuteLimited, DayLimited,
        MarkExhausted, Wake, Fallback, TypeOK, Calls, vars
  <2>1. CASE GateFailsOpen(c) \/ CheckFailsOpen(c) \/ RecordFails(c) \/ MarkFails(c)
    <3>1. lapses' = lapses + 1 /\ rejected' = rejected
      BY <2>1 DEF GateFailsOpen, CheckFailsOpen, RecordFails, MarkFails, Lapse
    <3> QED BY <1>0, <3>1
  <2>2. CASE Refuse(c)
    BY <1>0, <2>2 DEF Refuse, vars, Paid, Marking, InFlight
  <2>3. CASE DayLimited(c)
    <3>1. /\ call' = [call EXCEPT ![c].pc = "mark"]
          /\ rejected' = [rejected EXCEPT ![c][call[c].at] = @ + 1]
          /\ lapses' = lapses /\ exhausted' = exhausted /\ call[c].pc = "ask"
      BY <2>3 DEF DayLimited, Goto, At
    <3>2. CASE k = c /\ call[c].at = m
      <4>1. ~Paid
        BY <3>1, <3>2 DEF Paid, Marking, InFlight
      <4>2. rejected'[k][m] = rejected[k][m] + 1
        BY <3>1, <3>2 DEF TypeOK
      <4>3. Marking(k, m)'
        BY <3>1, <3>2 DEF Marking, TypeOK, Calls
      <4> QED BY <1>0, <3>1, <4>1, <4>2, <4>3 DEF Paid
    <3>3. CASE ~(k = c /\ call[c].at = m)
      <4>1. rejected'[k][m] = rejected[k][m]
        BY <2>0, <3>1, <3>3 DEF TypeOK
      <4>2. Paid => Paid'
        BY <2>0, <3>1, <3>3 DEF Paid, Marking, InFlight, TypeOK, Calls
      <4> QED BY <1>0, <3>1, <4>1, <4>2
    <3> QED BY <3>2, <3>3
  <2>4. CASE MarkExhausted(c)
    <3>1. /\ call' = [call EXCEPT ![c] = NextModel(call[c])]
          /\ exhausted' = [exhausted EXCEPT ![call[c].at] = @ \cup {day}]
          /\ rejected' = rejected /\ lapses' = lapses /\ call[c].pc = "mark"
      BY <2>4 DEF MarkExhausted, Advance, At
    <3>2. NextModel(call[c]).pc \in {"check", "sleep", "claude"}
      BY <2>0, NextModelType
    <3>3. Paid => Paid'
      BY <2>0, <3>1, <3>2 DEF Paid, Marking, InFlight, TypeOK
    <3> QED BY <1>0, <3>1, <3>3
  <2>5. CASE TryModel(c)
    <3>1. /\ call' = [call EXCEPT ![c].pc = "read"]
          /\ exhausted' = exhausted /\ rejected' = rejected /\ lapses' = lapses
          /\ call[c].pc = "check" /\ day \notin exhausted[call[c].at]
      BY <2>5 DEF TryModel, Goto, At, IsExhausted
    <3>2. Paid => Paid'
      BY <2>0, <3>1 DEF Paid, Marking, InFlight, TypeOK, Calls
    <3> QED BY <1>0, <3>1, <3>2
  <2>6. CASE \/ StartCall(c) \/ OtherError(c) \/ ReadCount(c) \/ WriteCount(c)
    <3>1. /\ exhausted' = exhausted /\ rejected' = rejected /\ lapses' = lapses
          /\ call' \in [Callers -> Calls]
      BY <2>6, TypeStep DEF StartCall, OtherError, ReadCount, WriteCount, TypeOK
    <3>2. /\ \A j \in Callers \ {c} : call'[j] = call[j]
          /\ call'[c].at = call[c].at /\ call[c].pc # "mark"
          /\ call[c].pc \in {"read", "write", "ask"} \/ call'[c].pc = "check"
      <4>1. CASE StartCall(c)
        BY <4>1, <2>0 DEF StartCall, Goto, At, TypeOK, Calls
      <4>2. CASE OtherError(c)
        BY <4>2, <2>0 DEF OtherError, Goto, At, TypeOK, Calls
      <4>3. CASE ReadCount(c)
        BY <4>3, <2>0 DEF ReadCount, At, TypeOK, Calls
      <4>4. CASE WriteCount(c)
        BY <4>4, <2>0 DEF WriteCount, Counted, At, TypeOK, Calls
      <4> QED BY <2>6, <4>1, <4>2, <4>3, <4>4
    <3>3. Paid => Paid'
      BY <2>0, <3>1, <3>2 DEF Paid, Marking, InFlight
    <3> QED BY <1>0, <3>1, <3>3
  <2>7. CASE SkipModel(c) \/ MinuteLimited(c) \/ Answered(c) \/ Wake(c) \/ Fallback(c)
    <3>1. exhausted' = exhausted /\ rejected' = rejected /\ lapses' = lapses /\ call[c].pc # "mark"
      BY <2>7 DEF SkipModel, MinuteLimited, Answered, Wake, Fallback, At
    <3>2. [call[c] EXCEPT !.limited = TRUE] \in Calls
      BY <2>0 DEF Calls
    <3>3. /\ \A j \in Callers \ {c} : call'[j] = call[j]
          /\ call'[c].pc \notin {"read", "write", "ask"}
      <4>1. CASE SkipModel(c)
        BY <2>0, <4>1, NextModelType DEF SkipModel, Advance, TypeOK
      <4>2. CASE MinuteLimited(c)
        <5>1. NextModel([call[c] EXCEPT !.limited = TRUE]).pc \in {"check", "sleep", "claude"}
          BY <3>2, NextModelType
        <5> QED BY <2>0, <4>2, <5>1 DEF MinuteLimited, TypeOK
      <4>3. CASE Answered(c) \/ Fallback(c)
        BY <2>0, <4>3 DEF Answered, Fallback, Idle, TypeOK
      <4>4. CASE Wake(c)
        BY <2>0, <4>4 DEF Wake, Idle, TypeOK
      <4> QED BY <2>7, <4>1, <4>2, <4>3, <4>4
    <3>4. Paid => Paid'
      BY <2>0, <3>1, <3>3 DEF Paid, Marking, InFlight
    <3> QED BY <1>0, <3>1, <3>4
  <2> QED
    BY <1>5, <2>1, <2>2, <2>3, <2>4, <2>5, <2>6, <2>7 DEF ThreadStep, Proceed
<1> QED
  BY <1>1, <1>2, <1>3, <1>4, <1>5 DEF Next, ThreadStep, Paid

---------------------------------------------------------------------------
(* The provider's verdicts only accumulate, so what was heard stays true.  *)
LEMMA HeardStays ==
  ASSUME TypeOK, [Next]_vars, NEW m \in Models, NEW d, HeardOf(m, d)
  PROVE  HeardOf(m, d)'
<1>1. goneOn[m] \subseteq goneOn'[m]
  BY DEF Next, Midnight, QuotaGone, Restart, StartCall, Refuse, GateFailsOpen, CheckFailsOpen,
         RecordFails, MarkFails, Proceed, SkipModel, TryModel, ReadCount, WriteCount, Answered,
         OtherError, MinuteLimited, DayLimited, MarkExhausted, Wake, Fallback, TypeOK, vars
<1> QED BY <1>1 DEF HeardOf

(* Evidence survives every step: a thread writes down what it has heard.   *)
LEMMA EvidenceStep == ASSUME TypeOK, Evidence, [Next]_vars PROVE Evidence'
<1> DEFINE E1 == \A m \in Models : \A d \in exhausted[m] : HeardOf(m, d)
           E2 == \A i \in Instances, m \in Models : memo[i][m] # Never => HeardOf(m, memo[i][m])
           E3 == \A c \in Callers : call[c].pc = "mark" => HeardOf(call[c].at, day)
<1>0. E1 /\ E2 /\ E3 /\ \A c \in Callers : call[c] \in Calls /\ call[c].at \in Models
  BY DEF Evidence, TypeOK, Calls
<1>1. CASE UNCHANGED <<exhausted, memo, call, day>>
  BY <1>0, <1>1, HeardStays DEF Evidence
<1>2. CASE Midnight
  <2>1. UNCHANGED <<exhausted, memo, call, goneOn>> /\ day \in Int /\ day' = day + 1
    BY <1>2 DEF Midnight, TypeOK, Days
  <2>2. E1' /\ E2'
    BY <1>0, <2>1 DEF HeardOf
  <2>3. E3'
    <3>1. \A m \in Models : goneOn[m] \subseteq Int
      BY DEF TypeOK, Days
    <3> QED BY <1>0, <2>1, <3>1 DEF HeardOf
  <2> QED BY <2>2, <2>3 DEF Evidence
<1>3. ASSUME NEW i \in Instances, Restart(i) PROVE Evidence'
  <2>1. E1'
    BY <1>0, <1>3, HeardStays DEF Restart
  <2>2. E2'
    BY <1>0, <1>3, HeardStays DEF Restart, TypeOK
  <2>3. E3'
    BY <1>0, <1>3, HeardStays DEF Restart, Threads, Idle
  <2> QED BY <2>1, <2>2, <2>3 DEF Evidence
<1>4. ASSUME NEW c \in Callers, ThreadStep(c) PROVE Evidence'
  <2>1. CASE MarkExhausted(c) \/ MarkFails(c)
    <3>0. /\ call[c].pc = "mark" /\ call[c].at \in Models /\ day' = day
          /\ Home[c] \in Instances
          /\ call' = [call EXCEPT ![c] = NextModel(call[c])]
          /\ memo' = [memo EXCEPT ![Home[c]][call[c].at] = day]
      BY <1>0, <2>1, RouterAssumption DEF MarkExhausted, MarkFails, Remember, Advance, At
    <3>1. HeardOf(call[c].at, day)
      BY <1>0, <3>0
    <3>2. E1'
      <4>1. \A m \in Models : \A d \in exhausted'[m] : d \in exhausted[m] \/ (m = call[c].at /\ d = day)
        BY <2>1, <3>0 DEF MarkExhausted, MarkFails, TypeOK
      <4> QED BY <1>0, <3>1, <4>1, HeardStays
    <3>3. E2'
      <4>1. \A i \in Instances, m \in Models : memo'[i][m] = memo[i][m] \/ (m = call[c].at /\ memo'[i][m] = day)
        BY <3>0 DEF TypeOK
      <4> QED BY <1>0, <3>1, <4>1, HeardStays
    <3>4. E3'
      <4>1. NextModel(call[c]).pc # "mark"
        BY <1>0, NextModelType
      <4> QED BY <1>0, <3>0, <4>1, HeardStays DEF TypeOK
    <3> QED BY <3>2, <3>3, <3>4 DEF Evidence
  <2>2. CASE DayLimited(c)
    <3>1. HeardOf(call[c].at, day)
      BY <2>2 DEF DayLimited, HeardOf, TypeOK, Days
    <3>2. call' = [call EXCEPT ![c].pc = "mark"] /\ day' = day /\ exhausted' = exhausted /\ memo' = memo
      BY <2>2 DEF DayLimited, Goto
    <3>3. E3'
      <4>1. \A k \in Callers : call'[k].at = call[k].at /\ (k # c => call'[k] = call[k])
        BY <1>0, <3>2 DEF TypeOK, Calls
      <4> QED BY <1>0, <3>1, <3>2, <4>1, HeardStays
    <3> QED BY <1>0, <3>2, <3>3, HeardStays DEF Evidence
  <2>3. CASE \/ StartCall(c) \/ Refuse(c) \/ GateFailsOpen(c) \/ CheckFailsOpen(c) \/ RecordFails(c)
             \/ SkipModel(c) \/ TryModel(c) \/ ReadCount(c) \/ WriteCount(c)
             \/ Answered(c) \/ OtherError(c) \/ MinuteLimited(c) \/ Wake(c) \/ Fallback(c)
    <3>1. day' = day /\ exhausted' = exhausted /\ memo' = memo
      BY <2>3 DEF StartCall, Refuse, GateFailsOpen, CheckFailsOpen, RecordFails, SkipModel, TryModel, ReadCount,
              WriteCount, Answered, OtherError, MinuteLimited, Wake, Fallback, vars
    <3>2. call' = call \/ \A k \in Callers : call'[k].pc = "mark" => call'[k] = call[k]
      <4>1. CASE StartCall(c) \/ GateFailsOpen(c) \/ CheckFailsOpen(c) \/ TryModel(c) \/ OtherError(c)
        BY <1>0, <4>1 DEF StartCall, GateFailsOpen, CheckFailsOpen, TryModel, OtherError, Goto, TypeOK, Calls
      <4>2. CASE SkipModel(c)
        BY <1>0, <4>2, NextModelType DEF SkipModel, Advance, TypeOK
      <4>3. CASE MinuteLimited(c)
        <5>1. [call[c] EXCEPT !.limited = TRUE] \in Calls
          BY <1>0 DEF Calls
        <5>2. NextModel([call[c] EXCEPT !.limited = TRUE]).pc # "mark"
          BY <5>1, NextModelType
        <5> QED BY <1>0, <4>3, <5>2 DEF MinuteLimited, TypeOK
      <4>4. CASE ReadCount(c)
        BY <1>0, <4>4 DEF ReadCount, TypeOK, Calls
      <4>5. CASE WriteCount(c) \/ RecordFails(c)
        <5>1. Counted(c)
          BY <4>5 DEF WriteCount, RecordFails
        <5> QED BY <1>0, <5>1 DEF Counted, TypeOK, Calls
      <4>6. CASE Answered(c) \/ Wake(c) \/ Fallback(c)
        <5>1. CASE Answered(c) \/ Fallback(c)
          BY <1>0, <5>1 DEF Answered, Fallback, Idle, TypeOK
        <5>2. CASE Wake(c)
          BY <1>0, <5>2 DEF Wake, Idle, TypeOK
        <5> QED BY <4>6, <5>1, <5>2
      <4>7. CASE Refuse(c)
        BY <4>7 DEF Refuse, vars
      <4> QED BY <2>3, <4>1, <4>2, <4>3, <4>4, <4>5, <4>6, <4>7
    <3> QED BY <1>0, <3>1, <3>2, HeardStays DEF Evidence
  <2> QED BY <1>4, <2>1, <2>2, <2>3 DEF ThreadStep, Proceed
<1>5. ASSUME NEW m \in Models, QuotaGone(m) PROVE Evidence'
  BY <1>1, <1>5 DEF QuotaGone
<1> QED
  BY <1>1, <1>2, <1>3, <1>4, <1>5 DEF Next, ThreadStep, vars

---------------------------------------------------------------------------
RouterInv == TypeOK /\ Charged /\ Evidence

(* The inductive invariant: well typed, no thread overcharged, every       *)
(* retirement of a model backed by a PerDay rejection.                     *)
THEOREM RouterInvariant == Spec => []RouterInv
<1>1. Init => RouterInv
  <2> SUFFICES ASSUME Init PROVE RouterInv
    OBVIOUS
  <2>1. TypeOK
    BY RouterAssumption DEF Init, TypeOK, Idle, Calls, Models, Days
  <2>2. Charged
    BY DEF Init, Charged
  <2>3. Evidence
    BY DEF Init, Evidence, Idle
  <2> QED BY <2>1, <2>2, <2>3 DEF RouterInv
<1>2. RouterInv /\ [Next]_vars => RouterInv'
  <2> SUFFICES ASSUME RouterInv, [Next]_vars PROVE RouterInv'
    OBVIOUS
  <2>1. TypeOK'
    BY TypeStep DEF RouterInv
  <2>2. Charged'
    BY ChargedStep DEF RouterInv, Charged
  <2>3. Evidence'
    BY EvidenceStep DEF RouterInv
  <2> QED BY <2>1, <2>2, <2>3 DEF RouterInv
<1> QED BY <1>1, <1>2, PTL DEF Spec

(* The router's state is well typed at all times.                          *)
THEOREM RouterTypeOK == Spec => []TypeOK
<1>1. RouterInv => TypeOK
  BY DEF RouterInv
<1> QED BY <1>1, RouterInvariant, PTL

(* A dead model costs each thread one rejection a day, plus one for every  *)
(* loss of the bookkeeping, for any number of threads and restarts.        *)
THEOREM DeadModelOnce == Spec => []DeadModelAskedOnce
<1>1. RouterInv => DeadModelAskedOnce
  BY DEF RouterInv, Charged, DeadModelAskedOnce, TypeOK
<1> QED BY <1>1, RouterInvariant, PTL

(* No model is given up for a day without a PerDay rejection behind it.    *)
THEOREM MinuteLimitsForgiven == Spec => []MinuteLimitForgiven
<1>1. RouterInv => MinuteLimitForgiven
  BY DEF RouterInv, Evidence, HeardOf, MinuteLimitForgiven
<1> QED BY <1>1, RouterInvariant, PTL

---------------------------------------------------------------------------
(* The sum behind CallsToday.  The models are finite, and so are the sets  *)
(* of them, which lose one with every model that is taken out.             *)
LEMMA ModelsFinite ==
  /\ IsFiniteSet(Models) /\ \A S \in SUBSET Models : IsFiniteSet(S) /\ Cardinality(S) \in Nat
  /\ \A S \in SUBSET Models : \A x \in S : S \ {x} \in SUBSET Models /\ Cardinality(S \ {x}) = Cardinality(S) - 1
<1>1. IsFiniteSet(Models)
  BY FS_Interval, RouterAssumption DEF Models
<1>2. QED
  BY <1>1, FS_Subset, FS_CardinalityType, FS_RemoveElement

(* A set of numbers has a least one.                                       *)
LEMMA LeastNat ==
  ASSUME NEW N \in SUBSET Nat, N # {}
  PROVE  \E n \in N : \A k \in N : n <= k
<1>1. PICK n \in N : \A y \in N : ~ (<<y, n>> \in OpToRel(<, Nat))
  BY WFMin, NatLessThanWellFounded, Zenon
<1>2. \A y \in N : ~ (y < n)
  <2>1. ASSUME NEW y \in N, y < n PROVE FALSE
    <3>1. <<y, n>> \in Nat \X Nat /\ <<y, n>>[1] < <<y, n>>[2]
      BY <2>1
    <3>2. <<y, n>> \in OpToRel(<, Nat)
      BY <3>1 DEF OpToRel
    <3>3. QED
      BY <1>1, <3>2
  <2>2. QED
    BY <2>1
<1>3. QED
  BY <1>2

(* A set of sets of models has one none of whose smaller ones is in it.    *)
LEMMA LeastSet ==
  ASSUME NEW Bad \in SUBSET (SUBSET Models), Bad # {}
  PROVE  \E S \in Bad : \A x \in S : S \ {x} \notin Bad
<1> DEFINE N == {Cardinality(S) : S \in Bad}
<1>1. N \in SUBSET Nat /\ N # {}
  BY ModelsFinite
<1>2. PICK n \in N : \A k \in N : n <= k
  BY <1>1, LeastNat
<1>3. PICK S \in Bad : n = Cardinality(S)
  OBVIOUS
<1>4. ASSUME NEW x \in S, S \ {x} \in Bad PROVE FALSE
  <2>1. Cardinality(S \ {x}) \in N
    BY <1>4
  <2>2. n <= Cardinality(S \ {x}) /\ Cardinality(S \ {x}) = n - 1 /\ n \in Nat
    BY <1>1, <1>2, <1>3, <2>1, ModelsFinite
  <2>3. QED
    BY <2>2
<1>5. QED
  BY <1>4

(* CallsToday, unfolded: a recursive sum over the sets of models.          *)
Pick(S) == CHOOSE x \in S : TRUE
SumRule(g, w) == g = [S \in SUBSET Models |-> IF S = {} THEN 0 ELSE w[Pick(S)] + g[S \ {Pick(S)}]]
SumOf(w) == (CHOOSE g : SumRule(g, w))[Models]
Today == [m \in Models |-> count[m][day]]

(* A set of models that is not empty has the one picked of it.             *)
LEMMA PickIn == \A S \in SUBSET Models : S # {} => Pick(S) \in S /\ S \ {Pick(S)} \in SUBSET Models
BY DEF Pick

(* The sum over a set is the model picked of it and the sum over the rest. *)
LEMMA SumUnfolds ==
  ASSUME NEW w, NEW g, SumRule(g, w)
  PROVE  g[{}] = 0 /\ \A S \in SUBSET Models : S # {} => g[S] = w[Pick(S)] + g[S \ {Pick(S)}]
<1>1. g = [S \in SUBSET Models |-> IF S = {} THEN 0 ELSE w[Pick(S)] + g[S \ {Pick(S)}]]
  BY DEF SumRule
<1>2. \A S \in SUBSET Models : g[S] = IF S = {} THEN 0 ELSE w[Pick(S)] + g[S \ {Pick(S)}]
  BY <1>1
<1>3. QED
  BY <1>2

(* The rule has a solution: one for the sets of up to n models, each n.    *)
UpTo(g, w, n) ==
  /\ g \in [SUBSET Models -> Nat]
  /\ \A S \in SUBSET Models :
       Cardinality(S) <= n => g[S] = IF S = {} THEN 0 ELSE w[Pick(S)] + g[S \ {Pick(S)}]

(* ... and so for all sets of models.                                      *)
LEMMA SumExists == ASSUME NEW w \in [Models -> Nat] PROVE \E g : SumRule(g, w)
<1> DEFINE Lacking == {n \in Nat : ~ \E g : UpTo(g, w, n)}
<1>1. \E g : UpTo(g, w, 0)
  <2> DEFINE g == [S \in SUBSET Models |-> 0]
  <2>1. \A S \in SUBSET Models : Cardinality(S) <= 0 => S = {}
    BY ModelsFinite, FS_EmptySet
  <2>2. UpTo(g, w, 0)
    BY <2>1 DEF UpTo
  <2>3. QED
    BY <2>2
<1>2. ASSUME NEW n \in Nat, \E g : UpTo(g, w, n) PROVE \E g : UpTo(g, w, n + 1)
  <2>1. PICK g : UpTo(g, w, n)
    BY <1>2
  <2> DEFINE h == [S \in SUBSET Models |-> IF Cardinality(S) <= n THEN g[S] ELSE w[Pick(S)] + g[S \ {Pick(S)}]]
  <2>2. g \in [SUBSET Models -> Nat]
    BY <2>1 DEF UpTo
  <2>3. \A S \in SUBSET Models : S # {} => w[Pick(S)] \in Nat /\ g[S \ {Pick(S)}] \in Nat
    BY <2>2, PickIn
  <2>4. Cardinality({}) = 0
    BY FS_EmptySet
  <2>5. ASSUME NEW S \in SUBSET Models PROVE h[S] \in Nat
    <3>1. CASE Cardinality(S) <= n
      <4>1. g[S] \in Nat
        BY <2>2
      <4>2. QED
        BY <3>1, <4>1
    <3>2. CASE ~(Cardinality(S) <= n)
      <4>1. S # {}
        BY <2>4, <3>2
      <4>2. w[Pick(S)] \in Nat /\ g[S \ {Pick(S)}] \in Nat
        BY <2>3, <4>1
      <4>3. h[S] = w[Pick(S)] + g[S \ {Pick(S)}]
        BY <3>2
      <4> HIDE DEF h
      <4>4. QED
        BY <4>2, <4>3
    <3>3. QED
      BY <3>1, <3>2
  <2>6. ASSUME NEW S \in SUBSET Models, Cardinality(S) <= n + 1, S # {}
        PROVE  h[S] = w[Pick(S)] + h[S \ {Pick(S)}]
    <3>1. Pick(S) \in S /\ S \ {Pick(S)} \in SUBSET Models /\ Cardinality(S) \in Nat
      BY <2>6, PickIn, ModelsFinite
    <3>2. Cardinality(S \ {Pick(S)}) = Cardinality(S) - 1
      BY <3>1, ModelsFinite
    <3>3. Cardinality(S \ {Pick(S)}) <= n
      BY <2>6, <3>1, <3>2
    <3>4. h[S \ {Pick(S)}] = g[S \ {Pick(S)}]
      BY <3>1, <3>3
    <3>5. Cardinality(S) <= n => g[S] = w[Pick(S)] + g[S \ {Pick(S)}]
      BY <2>1, <2>6 DEF UpTo
    <3>6. QED
      BY <3>4, <3>5
  <2>7. h[{}] = 0
    <3>1. g[{}] = 0
      BY <2>1, <2>4 DEF UpTo
    <3>2. QED
      BY <3>1, <2>4
  <2> HIDE DEF h
  <2>8. h \in [SUBSET Models -> Nat]
    <3>1. h = [S \in SUBSET Models |-> h[S]]
      BY DEF h
    <3>2. QED
      BY <2>5, <3>1
  <2>9. UpTo(h, w, n + 1)
    BY <2>6, <2>7, <2>8 DEF UpTo
  <2>10. QED
    BY <2>9
<1>3. Lacking = {}
  <2>1. SUFFICES ASSUME Lacking # {} PROVE FALSE
    OBVIOUS
  <2>2. PICK n \in Lacking : \A k \in Lacking : n <= k
    BY <2>1, LeastNat
  <2>3. n \in Nat /\ n # 0
    BY <1>1
  <2>4. n - 1 \in Nat /\ n - 1 \notin Lacking /\ (n - 1) + 1 = n
    BY <2>2, <2>3
  <2>5. \E g : UpTo(g, w, n)
    BY <2>4, <1>2
  <2>6. QED
    BY <2>5
<1>4. Cardinality(Models) \in Nat /\ \A S \in SUBSET Models : Cardinality(S) <= Cardinality(Models)
  BY ModelsFinite, FS_Subset
<1>5. PICK g : UpTo(g, w, Cardinality(Models))
  BY <1>3, <1>4
<1>6. g = [S \in SUBSET Models |-> IF S = {} THEN 0 ELSE w[Pick(S)] + g[S \ {Pick(S)}]]
  BY <1>4, <1>5 DEF UpTo
<1>7. QED
  BY <1>6 DEF SumRule

(* The sum is given by a solution of the rule.                             *)
LEMMA SumChosen == ASSUME NEW w \in [Models -> Nat] PROVE \E g : SumRule(g, w) /\ SumOf(w) = g[Models]
BY SumExists DEF SumOf

(* Sums of numbers are numbers.                                            *)
LEMMA SumNat ==
  ASSUME NEW w \in [Models -> Nat], NEW g, SumRule(g, w)
  PROVE  \A S \in SUBSET Models : g[S] \in Nat
<1> DEFINE Bad == {S \in SUBSET Models : g[S] \notin Nat}
<1>1. SUFFICES ASSUME Bad # {} PROVE FALSE
  OBVIOUS
<1>2. PICK S \in Bad : \A x \in S : S \ {x} \notin Bad
  <2>1. Bad \in SUBSET (SUBSET Models)
    OBVIOUS
  <2> HIDE DEF Bad
  <2>2. QED
    BY <1>1, <2>1, LeastSet
<1>3. S # {} /\ Pick(S) \in S /\ S \ {Pick(S)} \in SUBSET Models
  <2>1. S \in SUBSET Models /\ g[S] \notin Nat /\ g[{}] = 0
    BY <1>2, SumUnfolds
  <2>2. S # {}
    BY <2>1
  <2>3. QED
    BY <2>1, <2>2, PickIn
<1>4. g[S] = w[Pick(S)] + g[S \ {Pick(S)}] /\ g[S \ {Pick(S)}] \in Nat
  <2>1. S \in SUBSET Models /\ S \ {Pick(S)} \notin Bad
    BY <1>2, <1>3
  <2>2. g[S \ {Pick(S)}] \in Nat
    BY <1>3, <2>1
  <2>3. \A T \in SUBSET Models : T # {} => g[T] = w[Pick(T)] + g[T \ {Pick(T)}]
    BY SumUnfolds
  <2>4. QED
    BY <1>3, <2>1, <2>2, <2>3
<1>5. w[Pick(S)] \in Nat
  BY <1>3
<1>6. QED
  BY <1>2, <1>4, <1>5

(* One more attempt of one model is one more in all.                       *)
LEMMA SumGrows ==
  ASSUME NEW w \in [Models -> Nat], NEW v \in [Models -> Nat], NEW m \in Models,
         v[m] = w[m] + 1, \A x \in Models \ {m} : v[x] = w[x]
  PROVE  SumOf(v) = SumOf(w) + 1
<1>1. PICK g : SumRule(g, w) /\ SumOf(w) = g[Models]
  BY SumChosen
<1>2. PICK h : SumRule(h, v) /\ SumOf(v) = h[Models]
  BY SumChosen
<1> DEFINE More(S) == IF m \in S THEN 1 ELSE 0
           Bad == {S \in SUBSET Models : h[S] # g[S] + More(S)}
<1>3. (\A S \in SUBSET Models : g[S] \in Nat) /\ (\A S \in SUBSET Models : h[S] \in Nat)
  BY <1>1, <1>2, SumNat
<1>4. Bad = {}
  <2>1. SUFFICES ASSUME Bad # {} PROVE FALSE
    OBVIOUS
  <2>2. PICK S \in Bad : \A x \in S : S \ {x} \notin Bad
    <3>1. Bad \in SUBSET (SUBSET Models)
      OBVIOUS
    <3> HIDE DEF Bad
    <3>2. QED
      BY <2>1, <3>1, LeastSet
  <2>3. S \in SUBSET Models /\ h[S] # g[S] + More(S)
    BY <2>2
  <2>4. CASE S = {}
    BY <1>1, <1>2, <2>3, <2>4, SumUnfolds
  <2>5. CASE S # {}
    <3>1. Pick(S) \in S /\ Pick(S) \in Models /\ S \ {Pick(S)} \in SUBSET Models
      BY <2>3, <2>5, PickIn
    <3>2. h[S \ {Pick(S)}] = g[S \ {Pick(S)}] + More(S \ {Pick(S)})
      BY <2>2, <3>1
    <3>3. /\ g[S] = w[Pick(S)] + g[S \ {Pick(S)}] /\ h[S] = v[Pick(S)] + h[S \ {Pick(S)}]
      BY <1>1, <1>2, <2>3, <2>5, SumUnfolds
    <3>4. v[Pick(S)] + More(S \ {Pick(S)}) = w[Pick(S)] + More(S) /\ w[Pick(S)] \in Nat /\ v[Pick(S)] \in Nat
      BY <3>1
    <3>5. /\ g[S \ {Pick(S)}] \in Nat /\ h[S \ {Pick(S)}] \in Nat /\ More(S) \in Nat /\ More(S \ {Pick(S)}) \in Nat
      BY <1>3, <3>1
    <3> HIDE DEF More
    <3>6. QED
      BY <2>3, <3>2, <3>3, <3>4, <3>5
  <2>6. QED
    BY <2>4, <2>5
<1>5. h[Models] = g[Models] + 1
  BY <1>4
<1>6. QED
  BY <1>1, <1>2, <1>5

(* Nothing but zeros sums to zero.                                         *)
LEMMA SumZero == ASSUME NEW w \in [Models -> Nat], \A m \in Models : w[m] = 0 PROVE SumOf(w) = 0
<1>1. PICK g : SumRule(g, w) /\ SumOf(w) = g[Models]
  BY SumChosen
<1> DEFINE Bad == {S \in SUBSET Models : g[S] # 0}
<1>2. Bad = {}
  <2>1. SUFFICES ASSUME Bad # {} PROVE FALSE
    OBVIOUS
  <2>2. PICK S \in Bad : \A x \in S : S \ {x} \notin Bad
    <3>1. Bad \in SUBSET (SUBSET Models)
      OBVIOUS
    <3> HIDE DEF Bad
    <3>2. QED
      BY <2>1, <3>1, LeastSet
  <2>3. S # {} /\ Pick(S) \in S /\ S \ {Pick(S)} \in SUBSET Models
    BY <1>1, <2>2, SumUnfolds, PickIn
  <2>4. g[S] = w[Pick(S)] + g[S \ {Pick(S)}] /\ g[S \ {Pick(S)}] = 0 /\ w[Pick(S)] = 0
    BY <1>1, <2>2, <2>3, SumUnfolds
  <2>5. QED
    BY <2>2, <2>4
<1>3. QED
  BY <1>1, <1>2

(* What the gate reads is such a sum.                                      *)
LEMMA CallsAreSum ==
  ASSUME TypeOK
  PROVE  Today \in [Models -> Nat] /\ CallsToday = SumOf(Today) /\ CallsToday \in Nat
<1>1. Today \in [Models -> Nat]
  BY DEF Today, TypeOK
<1> DEFINE Rule(g) == g = [S \in SUBSET Models |-> IF S = {} THEN 0 ELSE count[Pick(S)][day] + g[S \ {Pick(S)}]]
<1>2. CallsToday = (CHOOSE g : Rule(g))[Models]
  BY DEF CallsToday, MapThenSumSet, MapThenFoldSet, Pick
<1>3. ASSUME NEW g, SumRule(g, Today) PROVE Rule(g)
  <2>1. \A S \in SUBSET Models : S # {} => Today[Pick(S)] = count[Pick(S)][day]
    BY PickIn DEF Today
  <2>2. g = [S \in SUBSET Models |-> IF S = {} THEN 0 ELSE Today[Pick(S)] + g[S \ {Pick(S)}]]
    BY <1>3 DEF SumRule
  <2> DEFINE f == [S \in SUBSET Models |-> IF S = {} THEN 0 ELSE Today[Pick(S)] + g[S \ {Pick(S)}]]
             h == [S \in SUBSET Models |-> IF S = {} THEN 0 ELSE count[Pick(S)][day] + g[S \ {Pick(S)}]]
  <2>3. f = h
    BY <2>1
  <2>4. QED
    BY <2>2, <2>3
<1>4. ASSUME NEW g, Rule(g) PROVE SumRule(g, Today)
  <2>1. \A S \in SUBSET Models : S # {} => Today[Pick(S)] = count[Pick(S)][day]
    BY PickIn DEF Today
  <2> DEFINE f == [S \in SUBSET Models |-> IF S = {} THEN 0 ELSE Today[Pick(S)] + g[S \ {Pick(S)}]]
             h == [S \in SUBSET Models |-> IF S = {} THEN 0 ELSE count[Pick(S)][day] + g[S \ {Pick(S)}]]
  <2>2. g = h
    BY <1>4
  <2>3. f = h
    BY <2>1
  <2>4. g = f
    BY <2>2, <2>3
  <2>5. QED
    BY <2>4 DEF SumRule
<1>5. PICK g : SumRule(g, Today)
  BY <1>1, SumExists
<1> HIDE DEF Rule
<1>6. \A x : Rule(x) <=> SumRule(x, Today)
  BY <1>3, <1>4
<1>7. (CHOOSE x : Rule(x)) = (CHOOSE x : SumRule(x, Today))
  BY <1>6
<1>8. CallsToday = SumOf(Today)
  BY <1>2, <1>7 DEF SumOf
<1>9. SumOf(Today) \in Nat
  BY <1>1, SumChosen, SumNat
<1>10. QED
  BY <1>1, <1>8, <1>9

(* As a fact of one state ...                                              *)
LEMMA CallsAreSumNow == TypeOK => Today \in [Models -> Nat] /\ CallsToday = SumOf(Today) /\ CallsToday \in Nat
BY CallsAreSum

(* ... and of the next.                                                    *)
LEMMA CallsAreSumNext == (TypeOK => Today \in [Models -> Nat] /\ CallsToday = SumOf(Today) /\ CallsToday \in Nat)'
BY CallsAreSumNow, PTL

---------------------------------------------------------------------------
(* A thread alone.  Made is at least the attempts its call has made: whole *)
(* passes, and the models it has asked in this one.                        *)
Made(r) ==
  (IF r.pass = 1 THEN 0 ELSE ModelCount)
  + (IF r.pc \in {"check", "read", "write"} THEN r.at - 1
     ELSE IF r.pc \in {"ask", "mark"} THEN r.at
     ELSE IF r.pc = "idle" THEN 0 ELSE ModelCount)

Walks(n) == 2 * ModelCount * n

Ceiling(c) ==
  IF call[c].pc = "idle" THEN Budget + Walks(lapses + 1) - 1
  ELSE Budget + Walks(lapses) - 1 + Made(call[c])

(* What it has read is still so, since nobody else writes; an admitted     *)
(* call had a budget, or a lapse; days to come are not counted yet.        *)
Tidy(c) ==
  /\ call[c].pc = "idle" => call[c] = Idle
  /\ call[c].pc = "sleep" => call[c].pass = 1
  /\ call[c].pc = "write" => call[c].on <= day /\ call[c].seen = count[call[c].at][call[c].on]
  /\ call[c].pc # "idle" => Budget >= 1 \/ lapses >= 1
  /\ uncounted <= lapses
  /\ \A m \in Models : \A d \in Days : d > day => count[m][d] = 0

Alone(c) == Tidy(c) /\ CallsToday + uncounted <= Ceiling(c)

(* Walks is linear, and no less than the lapses it is taken of.            *)
LEMMA WalkFacts ==
  /\ ModelCount \in Nat /\ ModelCount >= 1 /\ Budget \in Nat
  /\ \A n \in Nat : Walks(n) \in Nat /\ Walks(n) >= n /\ Walks(n + 1) = Walks(n) + 2 * ModelCount
<1>1. \A k, n \in Nat : k * n \in Nat /\ k * (n + 1) = k * n + k
  OBVIOUS
<1>2. \A k, n \in Nat : k * n + n \in Nat /\ (k + 1) * n = k * n + n
  OBVIOUS
<1>3. ModelCount \in Nat /\ ModelCount >= 1 /\ Budget \in Nat
  BY RouterAssumption
<1>4. 2 * ModelCount \in Nat /\ 2 * ModelCount - 1 \in Nat /\ (2 * ModelCount - 1) + 1 = 2 * ModelCount
  BY <1>3
<1>5. ASSUME NEW n \in Nat PROVE Walks(n) \in Nat /\ Walks(n) >= n /\ Walks(n + 1) = Walks(n) + 2 * ModelCount
  <2>1. (2 * ModelCount) * n \in Nat /\ (2 * ModelCount) * (n + 1) = (2 * ModelCount) * n + 2 * ModelCount
    BY <1>1, <1>4
  <2>2. (2 * ModelCount) * n = (2 * ModelCount - 1) * n + n /\ (2 * ModelCount - 1) * n \in Nat
    BY <1>1, <1>2, <1>4
  <2>3. (2 * ModelCount) * n >= n
    BY <2>2
  <2>4. QED
    BY <2>1, <2>3 DEF Walks
<1>6. QED
  BY <1>3, <1>5

(* No call makes more attempts than two walks, and going on forgets none.  *)
LEMMA MadeBounds ==
  ASSUME NEW r \in Calls
  PROVE  /\ Made(r) \in Nat /\ Made(r) <= 2 * ModelCount
         /\ r.pc \in {"check", "ask", "mark"} => Made(NextModel(r)) >= Made(r)
         /\ Made([r EXCEPT !.limited = TRUE]) = Made(r)
<1>1. ModelCount \in Nat /\ ModelCount >= 1 /\ r.at \in 1..ModelCount /\ r.pass \in {1, 2}
  BY WalkFacts DEF Calls, Models
<1>2. Made(r) \in Nat /\ Made(r) <= 2 * ModelCount
  BY <1>1 DEF Made
<1>3. Made([r EXCEPT !.limited = TRUE]) = Made(r)
  BY DEF Made, Calls
<1>4. ASSUME r.pc \in {"check", "ask", "mark"} PROVE Made(NextModel(r)) >= Made(r)
  <2>1. CASE r.at < ModelCount
    <3>1. NextModel(r).pc = "check" /\ NextModel(r).at = r.at + 1 /\ NextModel(r).pass = r.pass
      BY <2>1 DEF NextModel, Calls
    <3>2. QED
      BY <1>1, <1>4, <3>1 DEF Made
  <2>2. CASE ~(r.at < ModelCount)
    <3>1. NextModel(r).pc \in {"sleep", "claude"} /\ NextModel(r).pass = r.pass
      BY <2>2 DEF NextModel, Calls
    <3>2. QED
      BY <1>1, <1>4, <3>1 DEF Made
  <2>3. QED
    BY <2>1, <2>2
<1>5. QED
  BY <1>2, <1>3, <1>4

(* The total changes with the table and the date only.                     *)
LEMMA TodayTotals ==
  ASSUME TypeOK, TypeOK'
  PROVE  /\ CallsToday \in Nat /\ CallsToday' \in Nat
         /\ count' = count /\ day' = day => CallsToday' = CallsToday
<1>1. CallsToday = SumOf(Today) /\ CallsToday \in Nat
  BY CallsAreSumNow
<1>2. CallsToday' = SumOf(Today') /\ CallsToday' \in Nat
  BY CallsAreSumNext
<1>3. count' = count /\ day' = day => Today' = Today
  BY DEF Today
<1>4. QED
  BY <1>1, <1>2, <1>3

(* A thread's bookkeeping survives the steps of others.                    *)
LEMMA AloneOthers ==
  ASSUME TypeOK, TypeOK', NEW c \in Callers, Alone(c),
         Midnight \/ (\E m \in Models : QuotaGone(m)) \/ (\E i \in Instances : Restart(i)) \/ UNCHANGED vars
  PROVE  Alone(c)'
<1>0. /\ call[c] \in Calls /\ call'[c] \in Calls /\ lapses \in Nat /\ lapses' \in Nat /\ uncounted \in Int
      /\ day \in Int /\ day' \in Int /\ Days \subseteq Int /\ call[c].on \in Days
  BY DEF TypeOK, Calls, Days
<1>1. Tidy(c) /\ CallsToday + uncounted <= Ceiling(c)
  BY DEF Alone
<1>2. CASE Midnight
  <2>1. UNCHANGED <<count, call, uncounted, lapses>> /\ day' = day + 1
    BY <1>2 DEF Midnight
  <2>2. Tidy(c)'
    <3>1. \A d \in Days : d > day' => d > day
      BY <1>0, <2>1
    <3>2. call[c].on <= day => call[c].on <= day'
      <4>1. call[c].on \in Int /\ day \in Int /\ day' = day + 1
        BY <1>0, <2>1
      <4>2. QED
        BY <4>1
    <3>3. QED
      BY <1>1, <2>1, <3>1, <3>2 DEF Tidy
  <2>3. CallsToday' = 0
    <3>1. day' \in Days /\ day' > day
      BY <1>0, <2>1 DEF TypeOK
    <3>2. \A m \in Models : count'[m][day'] = 0
      BY <1>1, <2>1, <3>1 DEF Tidy
    <3>3. Today' \in [Models -> Nat] /\ \A m \in Models : (Today')[m] = 0
      BY <3>2 DEF Today
    <3>4. SumOf(Today') = 0
      BY <3>3, SumZero
    <3>5. QED
      BY <3>4, CallsAreSumNext
  <2>4. uncounted <= lapses /\ (call[c].pc # "idle" => Budget >= 1 \/ lapses >= 1)
    BY <1>1 DEF Tidy
  <2>5. Made(call[c]) \in Nat /\ Budget \in Nat /\ ModelCount >= 1 /\ ModelCount \in Nat
    BY <1>0, MadeBounds, WalkFacts
  <2>6. Walks(lapses) \in Nat /\ Walks(lapses) >= lapses /\ Walks(lapses + 1) = Walks(lapses) + 2 * ModelCount
    BY <1>0, WalkFacts
  <2>7. lapses >= 1 => Walks(lapses) >= lapses + 1
    <3>1. ASSUME lapses >= 1 PROVE Walks(lapses) >= lapses + 1
      <4>1. lapses - 1 \in Nat /\ (lapses - 1) + 1 = lapses
        BY <1>0, <3>1
      <4>2. Walks(lapses) = Walks(lapses - 1) + 2 * ModelCount /\ Walks(lapses - 1) \in Nat /\ Walks(lapses - 1) >= lapses - 1
        BY <4>1, WalkFacts
      <4>3. QED
        BY <1>0, <2>5, <4>1, <4>2
    <3>2. QED
      BY <3>1
  <2>8. CallsToday' + uncounted' <= Ceiling(c)'
    <3>1. CASE call[c].pc = "idle"
      <4>1. Ceiling(c)' = Budget + Walks(lapses + 1) - 1
        BY <2>1, <3>1 DEF Ceiling
      <4>2. QED
        BY <1>0, <2>1, <2>3, <2>4, <2>5, <2>6, <4>1
    <3>2. CASE call[c].pc # "idle"
      <4>1. Ceiling(c)' = Budget + Walks(lapses) - 1 + Made(call[c])
        BY <2>1, <3>2 DEF Ceiling
      <4>2. Budget >= 1 \/ lapses >= 1
        BY <2>4, <3>2
      <4>3. QED
        BY <1>0, <2>1, <2>3, <2>4, <2>5, <2>6, <2>7, <4>1, <4>2
    <3>3. QED
      BY <3>1, <3>2
  <2>9. QED
    BY <2>2, <2>8 DEF Alone
<1>3. CASE (\E m \in Models : QuotaGone(m)) \/ UNCHANGED vars
  <2>1. UNCHANGED <<day, count, call, uncounted, lapses>>
    BY <1>3 DEF QuotaGone, vars
  <2>2. CallsToday' = CallsToday
    BY <2>1, TodayTotals
  <2>3. Tidy(c)' /\ Ceiling(c)' = Ceiling(c)
    BY <1>1, <2>1 DEF Tidy, Ceiling
  <2>4. QED
    BY <1>1, <2>1, <2>2, <2>3 DEF Alone
<1>4. ASSUME NEW i \in Instances, Restart(i) PROVE Alone(c)'
  <2>1. UNCHANGED <<day, count, uncounted>> /\ (lapses' = lapses \/ lapses' = lapses + 1)
    BY <1>4 DEF Restart, Lapse
  <2>2. call'[c] = call[c] \/ call'[c] = Idle
    BY <1>4 DEF Restart
  <2>3. CallsToday' = CallsToday /\ CallsToday \in Nat
    BY <2>1, TodayTotals
  <2>4. Walks(lapses) \in Nat /\ Walks(lapses + 1) = Walks(lapses) + 2 * ModelCount
    BY <1>0, WalkFacts
  <2>5. Walks(lapses + 2) = Walks(lapses) + 4 * ModelCount /\ ModelCount \in Nat /\ Budget \in Nat
    <3>1. lapses + 1 \in Nat /\ (lapses + 1) + 1 = lapses + 2
      BY <1>0
    <3>2. Walks((lapses + 1) + 1) = Walks(lapses + 1) + 2 * ModelCount /\ ModelCount \in Nat /\ Budget \in Nat
      BY <3>1, WalkFacts
    <3>3. QED
      BY <2>4, <3>1, <3>2
  <2>6. Made(call[c]) \in Nat /\ Made(call[c]) <= 2 * ModelCount
    BY <1>0, MadeBounds
  <2>7. Tidy(c)'
    <3>1. uncounted <= lapses /\ (call[c].pc # "idle" => Budget >= 1 \/ lapses >= 1)
      BY <1>1 DEF Tidy
    <3>2. uncounted' <= lapses' /\ (call[c].pc # "idle" => Budget >= 1 \/ lapses' >= 1)
      BY <1>0, <2>1, <3>1
    <3>3. Idle.pc = "idle"
      BY DEF Idle
    <3>4. QED
      BY <1>1, <2>1, <2>2, <3>2, <3>3 DEF Tidy
  <2>8. Ceiling(c)' >= Ceiling(c) /\ Ceiling(c) \in Int /\ Ceiling(c)' \in Int
    <3>1. Walks(lapses' + 1) \in {Walks(lapses + 1), Walks(lapses + 2)}
      <4>1. lapses \in Nat /\ (lapses + 1) + 1 = lapses + 2
        BY <1>0
      <4>2. CASE lapses' = lapses
        BY <4>2
      <4>3. CASE lapses' = lapses + 1
        BY <4>1, <4>3
      <4>4. QED
        BY <2>1, <4>2, <4>3
    <3>2. Walks(lapses') \in {Walks(lapses), Walks(lapses + 1)}
      BY <1>0, <2>1
    <3>3. Ceiling(c) = IF call[c].pc = "idle" THEN Budget + Walks(lapses + 1) - 1
                       ELSE Budget + Walks(lapses) - 1 + Made(call[c])
      BY DEF Ceiling
    <3>4. Ceiling(c)' = IF call'[c].pc = "idle" THEN Budget + Walks(lapses' + 1) - 1
                       ELSE Budget + Walks(lapses') - 1 + Made(call'[c])
      BY DEF Ceiling
    <3>5. call'[c] = call[c] \/ call'[c].pc = "idle"
      BY <2>2 DEF Idle
    <3>6. QED
      BY <2>4, <2>5, <2>6, <3>1, <3>2, <3>3, <3>4, <3>5
  <2>9. CallsToday' + uncounted' <= Ceiling(c)'
    BY <1>0, <1>1, <2>1, <2>3, <2>8
  <2>10. QED
    BY <2>7, <2>9 DEF Alone
<1>5. QED
  BY <1>2, <1>3, <1>4

(* ... and its own.                                                        *)
LEMMA AloneSteps ==
  ASSUME TypeOK, TypeOK', NEW c \in Callers, Alone(c), ThreadStep(c)
  PROVE  Alone(c)'
<1> DEFINE r == call[c]
           q == call'[c]
           Total == CallsToday + uncounted
           Room == Budget + Walks(lapses) - 1
<1>0. /\ call \in [Callers -> Calls] /\ r \in Calls /\ q \in Calls /\ r.at \in Models /\ r.on \in Days
      /\ lapses \in Nat /\ uncounted \in Int /\ uncounted' \in Int /\ day \in Days /\ Days \subseteq Int
      /\ count \in [Models -> [Days -> Nat]]
  <2>1. Days \subseteq Int
    BY DEF Days
  <2>2. call \in [Callers -> Calls] /\ call' \in [Callers -> Calls]
    BY DEF TypeOK
  <2>3. r \in Calls /\ q \in Calls
    BY <2>2
  <2>4. r.at \in Models /\ r.on \in Days
    BY <2>3 DEF Calls
  <2>5. lapses \in Nat /\ uncounted \in Int /\ uncounted' \in Int /\ day \in Days /\ count \in [Models -> [Days -> Nat]]
    BY DEF TypeOK
  <2>6. QED
    BY <2>1, <2>2, <2>3, <2>4, <2>5
<1>1. Tidy(c) /\ Total <= Ceiling(c)
  BY DEF Alone
<1>2. Made(r) \in Nat /\ Made(r) <= 2 * ModelCount /\ Made(q) \in Nat /\ Made(q) <= 2 * ModelCount
  BY <1>0, MadeBounds
<1>3. /\ Walks(lapses) \in Nat /\ Walks(lapses) >= lapses /\ Walks(lapses + 1) = Walks(lapses) + 2 * ModelCount
      /\ ModelCount \in Nat /\ ModelCount >= 1 /\ Budget \in Nat
  BY <1>0, WalkFacts
<1>4. CallsToday \in Nat /\ CallsToday' \in Nat /\ (count' = count /\ day' = day => CallsToday' = CallsToday)
  BY TodayTotals
<1>5. /\ r.pc = "idle" => r = Idle
      /\ r.pc = "sleep" => r.pass = 1
      /\ r.pc = "write" => r.on <= day /\ r.seen = count[r.at][r.on]
      /\ r.pc # "idle" => Budget >= 1 \/ lapses >= 1
      /\ uncounted <= lapses
      /\ \A m \in Models : \A d \in Days : d > day => count[m][d] = 0
  BY <1>1 DEF Tidy
<1>6. Total <= IF r.pc = "idle" THEN Room + 2 * ModelCount ELSE Room + Made(r)
  BY <1>1, <1>3 DEF Ceiling
<1>7. Idle.pc = "idle" /\ Idle.at = 1 /\ Idle.pass = 1
  BY DEF Idle
<1> HIDE DEF Room
<1>8. Room = Budget + Walks(lapses) - 1 /\ Room \in Int
  BY <1>3 DEF Room
(* A step that counts nothing and loses nothing.                           *)
<1>9. ASSUME UNCHANGED <<day, count, uncounted, lapses>>,
             q.pc = "idle" => q = Idle, q.pc = "sleep" => q.pass = 1, q.pc # "write",
             q.pc # "idle" => r.pc # "idle" /\ Made(q) >= Made(r)
      PROVE  Alone(c)'
  <2>1. CallsToday' = CallsToday
    BY <1>4, <1>9
  <2>2. Tidy(c)'
    BY <1>5, <1>9 DEF Tidy
  <2>3. Ceiling(c)' = IF q.pc = "idle" THEN Room + 2 * ModelCount ELSE Room + Made(q)
    BY <1>3, <1>8, <1>9 DEF Ceiling
  <2>4. CallsToday' + uncounted' <= Ceiling(c)'
    BY <1>0, <1>2, <1>3, <1>4, <1>6, <1>8, <1>9, <2>1, <2>3
  <2>5. QED
    BY <2>2, <2>4 DEF Alone
(* A lapse before the attempt is counted as one.                           *)
<1>10. ASSUME UNCHANGED <<day, count>>, lapses' = lapses + 1, uncounted' \in {uncounted, uncounted + 1},
             q.pc \notin {"idle", "sleep", "write"},
             r.pc = "idle" => uncounted' = uncounted,
             r.pc # "idle" => Made(q) >= Made(r)
       PROVE  Alone(c)'
  <2>1. CallsToday' = CallsToday
    BY <1>4, <1>10
  <2>2. uncounted' <= lapses'
    BY <1>0, <1>5, <1>10
  <2>3. Tidy(c)'
    BY <1>0, <1>5, <1>10, <2>2 DEF Tidy
  <2>4. Ceiling(c)' = Room + 2 * ModelCount + Made(q)
    BY <1>3, <1>8, <1>10 DEF Ceiling
  <2>5. CallsToday' + uncounted' <= Ceiling(c)'
    BY <1>0, <1>2, <1>3, <1>4, <1>6, <1>8, <1>10, <2>1, <2>4
  <2>6. QED
    BY <2>3, <2>5 DEF Alone
<1>11. CASE StartCall(c)
  <2>1. UNCHANGED <<day, count, uncounted, lapses>> /\ r.pc = "idle" /\ CallsToday < Budget
    BY <1>11 DEF StartCall, At, WithinBudget
  <2>2. q = [r EXCEPT !.pc = "check"]
    BY <1>0, <1>11 DEF StartCall, Goto
  <2>3. q.pc = "check"
    BY <1>0, <2>2 DEF Calls
  <2>4. CallsToday' = CallsToday
    BY <1>4, <2>1
  <2>5. Budget >= 1 \/ lapses >= 1
    BY <1>3, <1>4, <2>1
  <2>6. Tidy(c)'
    BY <1>5, <2>1, <2>3, <2>5 DEF Tidy
  <2>7. Ceiling(c)' = Room + Made(q)
    BY <1>8, <2>1, <2>3 DEF Ceiling
  <2>8. CallsToday' + uncounted' <= Ceiling(c)'
    BY <1>0, <1>2, <1>3, <1>4, <1>5, <1>8, <2>1, <2>4, <2>7
  <2>9. QED
    BY <2>6, <2>8 DEF Alone
<1>12. CASE Refuse(c)
  <2>1. UNCHANGED vars
    BY <1>12 DEF Refuse
  <2>2. QED
    BY <2>1, AloneOthers
<1>13. CASE GateFailsOpen(c)
  <2>1. UNCHANGED <<day, count>> /\ lapses' = lapses + 1 /\ uncounted' = uncounted /\ r.pc = "idle"
    BY <1>13 DEF GateFailsOpen, At, Lapse
  <2>2. q.pc = "check"
    BY <1>0, <1>13 DEF GateFailsOpen, Goto, Calls
  <2>3. QED
    BY <1>10, <2>1, <2>2
<1>14. CASE CheckFailsOpen(c)
  <2>1. UNCHANGED <<day, count>> /\ lapses' = lapses + 1 /\ uncounted' = uncounted /\ r.pc = "check"
    BY <1>14 DEF CheckFailsOpen, At, Lapse
  <2>2. q = [r EXCEPT !.pc = "read"]
    BY <1>0, <1>14 DEF CheckFailsOpen, Goto
  <2>3. q.pc = "read" /\ q.at = r.at /\ q.pass = r.pass
    BY <1>0, <2>2 DEF Calls
  <2>4. Made(q) = Made(r)
    BY <2>1, <2>3 DEF Made
  <2>5. QED
    BY <1>2, <1>10, <2>1, <2>3, <2>4
<1>15. CASE SkipModel(c)
  <2>1. UNCHANGED <<day, count, uncounted, lapses>> /\ r.pc = "check"
    BY <1>15 DEF SkipModel, At
  <2>2. q = NextModel(r)
    BY <1>0, <1>15 DEF SkipModel, Advance
  <2>3. Made(q) >= Made(r) /\ q.pc \in {"check", "sleep", "claude"}
    BY <1>0, <2>1, <2>2, MadeBounds, NextModelType
  <2>4. q.pc = "sleep" => q.pass = 1
    BY <1>0, <2>1, <2>2 DEF NextModel, Calls
  <2>5. QED
    BY <1>9, <2>1, <2>3, <2>4
<1>16. CASE TryModel(c)
  <2>1. UNCHANGED <<day, count, uncounted, lapses>> /\ r.pc = "check"
    BY <1>16 DEF TryModel, At
  <2>2. q = [r EXCEPT !.pc = "read"]
    BY <1>0, <1>16 DEF TryModel, Goto
  <2>3. q.pc = "read" /\ q.at = r.at /\ q.pass = r.pass
    BY <1>0, <2>2 DEF Calls
  <2>4. Made(q) = Made(r)
    BY <2>1, <2>3 DEF Made
  <2>5. QED
    BY <1>2, <1>9, <2>1, <2>3, <2>4
<1>17. CASE ReadCount(c)
  <2>1. UNCHANGED <<day, count, uncounted, lapses>> /\ r.pc = "read"
    BY <1>17 DEF ReadCount, At
  <2>2. q = [r EXCEPT !.pc = "write", !.on = day, !.seen = count[r.at][day]]
    BY <1>0, <1>17 DEF ReadCount
  <2>3. q.pc = "write" /\ q.at = r.at /\ q.pass = r.pass /\ q.on = day /\ q.seen = count[r.at][day]
    BY <1>0, <2>2 DEF Calls
  <2>4. Made(q) = Made(r)
    BY <2>1, <2>3 DEF Made
  <2>5. CallsToday' = CallsToday
    BY <1>4, <2>1
  <2>6. q.on <= day'
    BY <1>0, <2>1, <2>3
  <2>7. Tidy(c)'
    BY <1>5, <2>1, <2>3, <2>6 DEF Tidy
  <2>8. Ceiling(c)' = Room + Made(r)
    BY <1>8, <2>1, <2>3, <2>4 DEF Ceiling
  <2>9. CallsToday' + uncounted' <= Ceiling(c)'
    BY <1>6, <2>1, <2>5, <2>8
  <2>10. QED
    BY <2>7, <2>9 DEF Alone
<1>18. CASE WriteCount(c)
  <2>1. /\ UNCHANGED <<day, lapses>> /\ r.pc = "write" /\ r.on <= day /\ r.seen = count[r.at][r.on]
        /\ count' = [count EXCEPT ![r.at][r.on] = r.seen + 1]
        /\ uncounted' = uncounted + count[r.at][r.on] - r.seen
    BY <1>5, <1>18 DEF WriteCount, At
  <2>2. q = [r EXCEPT !.pc = "ask", !.on = 0, !.seen = 0]
    BY <1>0, <1>18 DEF WriteCount, Counted
  <2>3. q.pc = "ask" /\ q.at = r.at /\ q.pass = r.pass
    BY <1>0, <2>2 DEF Calls
  <2>4. Made(q) = Made(r) + 1
    <3>1. r.at \in Int
      BY <1>0 DEF Models
    <3>2. ModelCount \in Int
      BY <1>3
    <3>3. QED
      BY <2>1, <2>3, <3>1, <3>2 DEF Made
  <2>5. uncounted' = uncounted
    <3>1. count[r.at][r.on] \in Nat
      BY <1>0
    <3>2. QED
      BY <1>0, <2>1, <3>1
  <2>6. CallsToday' <= CallsToday + 1
    <3>0. Today \in [Models -> Nat] /\ CallsToday = SumOf(Today) /\ Today' \in [Models -> Nat] /\ CallsToday' = SumOf(Today')
      BY CallsAreSumNow, CallsAreSumNext
    <3>1. CASE r.on = day
      <4>1. (Today')[r.at] = Today[r.at] + 1
        BY <1>0, <2>1, <3>1 DEF Today
      <4>2. \A x \in Models \ {r.at} : (Today')[x] = Today[x]
        BY <1>0, <2>1 DEF Today
      <4>3. SumOf(Today') = SumOf(Today) + 1
        BY <1>0, <3>0, <4>1, <4>2, SumGrows
      <4>4. QED
        BY <1>4, <3>0, <4>3
    <3>2. CASE r.on # day
      <4>1. Today' = Today
        BY <1>0, <2>1, <3>2 DEF Today
      <4>2. QED
        BY <1>4, <3>0, <4>1
    <3>3. QED
      BY <3>1, <3>2
  <2>7. \A m \in Models : \A d \in Days : d > day => count'[m][d] = 0
    <3>1. \A d \in Days : d > day => d # r.on
      BY <1>0, <2>1
    <3>2. \A m \in Models : \A d \in Days : d # r.on => count'[m][d] = count[m][d]
      BY <1>0, <2>1
    <3>3. QED
      BY <1>5, <3>1, <3>2
  <2>8. Tidy(c)'
    BY <1>5, <2>1, <2>3, <2>5, <2>7 DEF Tidy
  <2>9. Ceiling(c)' = Room + Made(r) + 1
    <3>1. Ceiling(c)' = Room + Made(q)
      BY <1>8, <2>1, <2>3 DEF Ceiling
    <3>2. QED
      BY <1>2, <1>8, <2>4, <3>1
  <2>10. CallsToday' + uncounted' <= Ceiling(c)'
    BY <1>0, <1>2, <1>4, <1>6, <1>8, <2>1, <2>5, <2>6, <2>9
  <2>11. QED
    BY <2>8, <2>10 DEF Alone
<1>19. CASE RecordFails(c)
  <2>1. UNCHANGED <<day, count>> /\ lapses' = lapses + 1 /\ uncounted' = uncounted + 1 /\ r.pc = "write"
    BY <1>19 DEF RecordFails, At, Lapse
  <2>2. q = [r EXCEPT !.pc = "ask", !.on = 0, !.seen = 0]
    BY <1>0, <1>19 DEF RecordFails, Counted
  <2>3. q.pc = "ask" /\ q.at = r.at /\ q.pass = r.pass
    BY <1>0, <2>2 DEF Calls
  <2>4. Made(q) >= Made(r)
    <3>1. r.at \in Int /\ ModelCount \in Int
      BY <1>0, <1>3 DEF Models
    <3>2. QED
      BY <2>1, <2>3, <3>1 DEF Made
  <2>5. QED
    BY <1>10, <2>1, <2>3, <2>4
<1>20. CASE Answered(c) \/ Fallback(c)
  <2>1. UNCHANGED <<day, count, uncounted, lapses>> /\ q = Idle
    BY <1>0, <1>20 DEF Answered, Fallback
  <2>2. QED
    BY <1>7, <1>9, <2>1
<1>21. CASE OtherError(c)
  <2>1. UNCHANGED <<day, count, uncounted, lapses>> /\ r.pc = "ask"
    BY <1>21 DEF OtherError, At
  <2>2. q = [r EXCEPT !.pc = "claude"]
    BY <1>0, <1>21 DEF OtherError, Goto
  <2>3. q.pc = "claude" /\ q.pass = r.pass
    BY <1>0, <2>2 DEF Calls
  <2>4. Made(q) >= Made(r)
    <3>1. r.at \in 1..ModelCount
      BY <1>0 DEF Models
    <3>2. QED
      BY <1>3, <2>1, <2>3, <3>1 DEF Made
  <2>5. QED
    BY <1>9, <2>1, <2>3, <2>4
<1>22. CASE MinuteLimited(c)
  <2> DEFINE l == [r EXCEPT !.limited = TRUE]
  <2>1. UNCHANGED <<day, count, uncounted, lapses>> /\ r.pc = "ask"
    BY <1>22 DEF MinuteLimited, At
  <2>2. q = NextModel(l)
    BY <1>0, <1>22 DEF MinuteLimited
  <2>3. l \in Calls /\ l.pc = "ask"
    BY <1>0, <2>1 DEF Calls
  <2>4. Made(l) = Made(r)
    BY <1>0, MadeBounds
  <2>5. (q.pc = "sleep" => q.pass = 1)
    BY <2>2, <2>3 DEF NextModel, Calls
  <2> HIDE DEF l
  <2>6. Made(q) >= Made(l) /\ q.pc \in {"check", "sleep", "claude"}
    BY <2>2, <2>3, MadeBounds, NextModelType
  <2>7. QED
    BY <1>9, <2>1, <2>4, <2>5, <2>6
<1>23. CASE DayLimited(c)
  <2>1. UNCHANGED <<day, count, uncounted, lapses>> /\ r.pc = "ask"
    BY <1>23 DEF DayLimited, At
  <2>2. q = [r EXCEPT !.pc = "mark"]
    BY <1>0, <1>23 DEF DayLimited, Goto
  <2>3. q.pc = "mark" /\ q.at = r.at /\ q.pass = r.pass
    BY <1>0, <2>2 DEF Calls
  <2>4. Made(q) = Made(r)
    BY <2>1, <2>3 DEF Made
  <2>5. QED
    BY <1>2, <1>9, <2>1, <2>3, <2>4
<1>24. CASE MarkExhausted(c) \/ MarkFails(c)
  <2>1. UNCHANGED <<day, count, uncounted>> /\ r.pc = "mark"
    BY <1>24 DEF MarkExhausted, MarkFails, At
  <2>2. q = NextModel(r)
    BY <1>0, <1>24 DEF MarkExhausted, MarkFails, Advance
  <2>3. Made(q) >= Made(r) /\ q.pc \in {"check", "sleep", "claude"}
    BY <1>0, <2>1, <2>2, MadeBounds, NextModelType
  <2>4. q.pc = "sleep" => q.pass = 1
    BY <1>0, <2>2 DEF NextModel, Calls
  <2>5. CASE lapses' = lapses
    BY <1>9, <2>1, <2>3, <2>4, <2>5
  <2>6. CASE lapses' = lapses + 1
    <3>1. Tidy(c)'
      <4>1. uncounted' <= lapses' /\ lapses' >= 1
        BY <1>0, <1>5, <2>1, <2>6
      <4>2. QED
        BY <1>5, <2>1, <2>3, <2>4, <4>1 DEF Tidy
    <3>2. Ceiling(c)' = Room + 2 * ModelCount + Made(q)
      BY <1>3, <1>8, <2>3, <2>6 DEF Ceiling
    <3>3. CallsToday' = CallsToday
      BY <1>4, <2>1
    <3>4. CallsToday' + uncounted' <= Ceiling(c)'
      BY <1>0, <1>2, <1>3, <1>4, <1>6, <1>8, <2>1, <2>3, <3>2, <3>3
    <3>5. QED
      BY <3>1, <3>4 DEF Alone
  <2>7. lapses' = lapses \/ lapses' = lapses + 1
    BY <1>24 DEF MarkExhausted, MarkFails, Lapse
  <2>8. QED
    BY <2>5, <2>6, <2>7
<1>25. CASE Wake(c)
  <2>1. UNCHANGED <<day, count, uncounted, lapses>> /\ r.pc = "sleep" /\ r.pass = 1
    BY <1>5, <1>25 DEF Wake, At
  <2>2. q = [Idle EXCEPT !.pc = "check", !.pass = 2]
    BY <1>0, <1>25 DEF Wake
  <2>3. q.pc = "check" /\ q.at = 1 /\ q.pass = 2
    BY <2>2 DEF Idle
  <2>4. Made(q) = Made(r)
    BY <1>3, <2>1, <2>3 DEF Made
  <2>5. QED
    BY <1>2, <1>9, <2>1, <2>3, <2>4
<1>26. QED
  BY <1>11, <1>12, <1>13, <1>14, <1>15, <1>16, <1>17, <1>18, <1>19, <1>20, <1>21, <1>22, <1>23, <1>24, <1>25
  DEF ThreadStep, Proceed

(* The invariant of a lone thread.                                         *)
AloneInv == \A c \in Callers : Callers = {c} => Alone(c)

(* A thread alone: what it made beyond the budget it made in one call, or  *)
(* through a lapse.                                                        *)
THEOREM AloneInvariant == Spec => []AloneInv
<1>1. Init => AloneInv
  <2>1. SUFFICES ASSUME Init, NEW c \in Callers PROVE Alone(c)
    BY DEF AloneInv
  <2>2. TypeOK
    BY <2>1, RouterAssumption DEF Init, TypeOK, Idle, Calls, Models, Days
  <2>3. Tidy(c)
    BY <2>1 DEF Init, Tidy, Idle
  <2>4. CallsToday = 0
    <3>1. Today \in [Models -> Nat] /\ \A m \in Models : Today[m] = 0
      BY <2>1, <2>2 DEF Today, Init, TypeOK
    <3>2. SumOf(Today) = 0
      BY <3>1, SumZero
    <3>3. QED
      BY <2>2, <3>2, CallsAreSumNow
  <2>5. Ceiling(c) = Budget + Walks(0 + 1) - 1
    BY <2>1 DEF Init, Idle, Ceiling
  <2>6. Walks(0) \in Nat /\ Walks(0 + 1) = Walks(0) + 2 * ModelCount /\ ModelCount \in Nat /\ ModelCount >= 1 /\ Budget \in Nat
    BY WalkFacts
  <2>7. uncounted = 0
    BY <2>1 DEF Init
  <2>8. CallsToday + uncounted <= Ceiling(c)
    BY <2>4, <2>5, <2>6, <2>7
  <2>9. QED
    BY <2>3, <2>8 DEF Alone
<1>2. TypeOK /\ TypeOK' /\ AloneInv /\ [Next]_vars => AloneInv'
  <2>1. SUFFICES ASSUME TypeOK, TypeOK', AloneInv, [Next]_vars, NEW c \in Callers, Callers = {c} PROVE Alone(c)'
    BY DEF AloneInv
  <2>2. Alone(c)
    BY <2>1 DEF AloneInv
  <2>3. CASE ThreadStep(c)
    BY <2>1, <2>2, <2>3, AloneSteps
  <2>4. CASE Midnight \/ (\E m \in Models : QuotaGone(m)) \/ (\E i \in Instances : Restart(i)) \/ UNCHANGED vars
    BY <2>1, <2>2, <2>4, AloneOthers
  <2>5. QED
    BY <2>1, <2>3, <2>4 DEF Next, ThreadStep
<1>3. QED
  BY <1>1, <1>2, RouterTypeOK, PTL DEF Spec

(* The daily budget of attempts holds for a thread alone, up to the walks  *)
(* of one call and of one more for each lapse, for any models and budget.  *)
THEOREM AttemptsBounded == Spec => []AttemptsWithinBudget
<1>1. TypeOK /\ AloneInv => AttemptsWithinBudget
  <2>1. SUFFICES ASSUME TypeOK, AloneInv, Cardinality(Callers) = 1
        PROVE  CallsToday + uncounted <= Budget + 2 * ModelCount * (1 + lapses) - 1
    BY DEF AttemptsWithinBudget
  <2>2. PICK c \in Callers : Callers = {c}
    <3>1. IsFiniteSet(Callers)
      BY RouterAssumption
    <3>2. \E c : Callers = {c}
      BY <2>1, <3>1, FS_Singleton
    <3>3. QED
      BY <3>2
  <2>3. CallsToday + uncounted <= Ceiling(c)
    BY <2>1, <2>2 DEF AloneInv, Alone
  <2>4. lapses \in Nat /\ call[c] \in Calls /\ uncounted \in Int
    BY <2>1 DEF TypeOK
  <2>5. CallsToday \in Nat
    BY <2>1, CallsAreSumNow
  <2>6. Made(call[c]) \in Nat /\ Made(call[c]) <= 2 * ModelCount
    BY <2>4, MadeBounds
  <2>7. Walks(lapses) \in Nat /\ Walks(lapses + 1) = Walks(lapses) + 2 * ModelCount /\ Budget \in Nat /\ ModelCount \in Nat
    BY <2>4, WalkFacts
  <2>8. Ceiling(c) <= Budget + Walks(lapses + 1) - 1 /\ Ceiling(c) \in Int
    BY <2>6, <2>7 DEF Ceiling
  <2>9. Walks(lapses + 1) = 2 * ModelCount * (1 + lapses)
    BY <2>4 DEF Walks
  <2>10. QED
    BY <2>3, <2>4, <2>5, <2>7, <2>8, <2>9
<1>2. QED
  BY <1>1, RouterTypeOK, AloneInvariant, PTL
=============================================================================
