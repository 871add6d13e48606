----------------------------- MODULE LlmRouter -----------------------------
(***************************************************************************)
(* The LLM entry point: app/llm_client.py walks the Gemini models in order *)
(* behind one call budget, and app/llm_budget.py keeps, in one table for   *)
(* all instances, how many calls each model took today and which models    *)
(* said that their daily quota is gone.  Each instance also remembers the  *)
(* latter in a dict that a restart clears.  One tenant.                    *)
(***************************************************************************)
EXTENDS Integers, FiniteSets, FiniteSetsExt

CONSTANTS
  Callers,     \* threads that call generate_text / generate_json
  Instances,   \* deployed processes
  Home,        \* Home[c]: the process of a thread
  ModelCount,  \* DEFAULT_MODEL and FALLBACK_MODELS, numbered in their order
  Budget,      \* llm_daily_call_budget
  MaxDay,      \* bound: the last UTC day
  MaxLapses,   \* bound: bookkeeping that fails or dies before it is written
  MaxRestarts  \* bound

Models == 1..ModelCount
Days == 0..MaxDay
Never == -1

ASSUME RouterAssumption ==
  /\ ModelCount \in Nat \ {0} /\ Budget \in Nat
  /\ MaxDay \in Nat /\ MaxLapses \in Nat /\ MaxRestarts \in Nat
  /\ Home \in [Callers -> Instances] /\ IsFiniteSet(Callers)

VARIABLES
  day,        \* the UTC date
  count,      \* count[m][d]: llm_daily_usage.call_count
  exhausted,  \* exhausted[m]: the days whose row has quota_exhausted_at set
  memo,       \* memo[i][m]: the date _EXHAUSTED of instance i holds for m
  call,       \* call[c]: where the thread is
  goneOn,     \* goneOn[m]: the days on which the provider's quota ran out
  uncounted,  \* history: how many more attempts were made than count adds up to
  rejected,   \* history: today's PerDay rejections of m that thread c met
  lapses, restarts

vars == <<day, count, exhausted, memo, call, goneOn, uncounted, rejected, lapses, restarts>>

Calls ==
  [pc : {"idle", "check", "read", "write", "ask", "mark", "sleep", "claude"},
   at : Models, pass : {1, 2}, limited : BOOLEAN, on : Days, seen : Nat]

Idle == [pc |-> "idle", at |-> 1, pass |-> 1, limited |-> FALSE, on |-> 0, seen |-> 0]

TypeOK ==
  /\ day \in Days
  /\ count \in [Models -> [Days -> Nat]]
  /\ exhausted \in [Models -> SUBSET Days]
  /\ memo \in [Instances -> [Models -> Days \cup {Never}]]
  /\ call \in [Callers -> Calls]
  /\ goneOn \in [Models -> SUBSET Days]
  /\ uncounted \in Int
  /\ rejected \in [Callers -> [Models -> Nat]]
  /\ lapses \in Nat /\ restarts \in Nat

Init ==
  /\ day = 0 /\ lapses = 0 /\ restarts = 0
  /\ count = [m \in Models |-> [d \in Days |-> 0]]
  /\ exhausted = [m \in Models |-> {}]
  /\ memo = [i \in Instances |-> [m \in Models |-> Never]]
  /\ call = [c \in Callers |-> Idle]
  /\ goneOn = [m \in Models |-> {}]
  /\ uncounted = 0
  /\ rejected = [c \in Callers |-> [m \in Models |-> 0]]

At(c, label) == call[c].pc = label
Goto(c, label) == call' = [call EXCEPT ![c].pc = label]
Lapse == lapses < MaxLapses /\ lapses' = lapses + 1

---------------------------------------------------------------------------
(* The provider: a model's daily quota runs out; midnight restores it.     *)
QuotaGone(m) ==
  /\ day \notin goneOn[m]
  /\ goneOn' = [goneOn EXCEPT ![m] = @ \cup {day}]
  /\ UNCHANGED <<day, count, exhausted, memo, call, uncounted, rejected, lapses, restarts>>

Midnight ==
  /\ day < MaxDay
  /\ day' = day + 1
  /\ rejected' = [c \in Callers |-> [m \in Models |-> 0]]
  /\ UNCHANGED <<count, exhausted, memo, call, goneOn, uncounted, lapses, restarts>>

---------------------------------------------------------------------------
(* The gate of every call: today's attempts over all models.               *)
CallsToday == MapThenSumSet(LAMBDA m : count[m][day], Models)

(* A bug: the cap compared off by one. *)
BugWithinBudget == CallsToday <= Budget

WithinBudget == CallsToday < Budget

StartCall(c) ==
  /\ At(c, "idle") /\ WithinBudget
  /\ Goto(c, "check")
  /\ UNCHANGED <<day, count, exhausted, memo, goneOn, uncounted, rejected, lapses, restarts>>

(* LlmBudgetExceeded is raised, and nothing else happens.                  *)
Refuse(c) ==
  /\ At(c, "idle") /\ ~WithinBudget
  /\ UNCHANGED vars

(* The table cannot be read: the gate lets the call through.               *)
GateFailsOpen(c) ==
  /\ At(c, "idle") /\ Lapse
  /\ Goto(c, "check")
  /\ UNCHANGED <<day, count, exhausted, memo, goneOn, uncounted, rejected, restarts>>

(* The next model; after the last one a second pass if some model was only *)
(* limited for the minute, and else the Claude fallback.                   *)
NextModel(r) ==
  IF r.at < ModelCount THEN [r EXCEPT !.pc = "check", !.at = @ + 1]
  ELSE [r EXCEPT !.pc = IF r.limited /\ r.pass = 1 THEN "sleep" ELSE "claude"]

Advance(c) == call' = [call EXCEPT ![c] = NextModel(@)]

Remembered(c) == memo[Home[c]][call[c].at] = day

(* A bug: the dict alone is asked. *)
BugIsExhausted(c) == Remembered(c)

(* _is_exhausted: the dict first, then the row of today.                   *)
IsExhausted(c) == Remembered(c) \/ day \in exhausted[call[c].at]

(* A bug: an exhausted model is asked about again, not the next one. *)
BugSkipModel(c) ==
  /\ At(c, "check") /\ IsExhausted(c)
  /\ UNCHANGED vars

SkipModel(c) ==
  /\ At(c, "check") /\ IsExhausted(c)
  /\ Advance(c)
  /\ UNCHANGED <<day, count, exhausted, memo, goneOn, uncounted, rejected, lapses, restarts>>

TryModel(c) ==
  /\ At(c, "check") /\ ~IsExhausted(c)
  /\ Goto(c, "read")
  /\ UNCHANGED <<day, count, exhausted, memo, goneOn, uncounted, rejected, lapses, restarts>>

(* The row cannot be read: a model the dict does not know is tried.        *)
CheckFailsOpen(c) ==
  /\ At(c, "check") /\ ~Remembered(c) /\ Lapse
  /\ Goto(c, "read")
  /\ UNCHANGED <<day, count, exhausted, memo, goneOn, uncounted, rejected, restarts>>

(* record_call loads today's row ...                                       *)
ReadCount(c) ==
  /\ At(c, "read")
  /\ call' = [call EXCEPT ![c].pc = "write", ![c].on = day,
                          ![c].seen = count[call[c].at][day]]
  /\ UNCHANGED <<day, count, exhausted, memo, goneOn, uncounted, rejected, lapses, restarts>>

Counted(c) == call' = [call EXCEPT ![c].pc = "ask", ![c].on = 0, ![c].seen = 0]

(* ... and writes the number it computed from it.                          *)
WriteCount(c) ==
  /\ At(c, "write")
  /\ count' = [count EXCEPT ![call[c].at][call[c].on] = call[c].seen + 1]
  /\ uncounted' = uncounted + count[call[c].at][call[c].on] - call[c].seen
  /\ Counted(c)
  /\ UNCHANGED <<day, exhausted, memo, goneOn, rejected, lapses, restarts>>

(* An error while counting is swallowed.                                   *)
RecordFails(c) ==
  /\ At(c, "write") /\ Lapse
  /\ uncounted' = uncounted + 1
  /\ Counted(c)
  /\ UNCHANGED <<day, count, exhausted, memo, goneOn, rejected, restarts>>

---------------------------------------------------------------------------
(* The answer: a result ends the call, an error that is no 429 goes to     *)
(* Claude, a per-minute 429 to the next model, a per-day 429 is remembered.*)
Answered(c) ==
  /\ At(c, "ask") /\ day \notin goneOn[call[c].at]
  /\ call' = [call EXCEPT ![c] = Idle]
  /\ UNCHANGED <<day, count, exhausted, memo, goneOn, uncounted, rejected, lapses, restarts>>

OtherError(c) ==
  /\ At(c, "ask")
  /\ Goto(c, "claude")
  /\ UNCHANGED <<day, count, exhausted, memo, goneOn, uncounted, rejected, lapses, restarts>>

(* A bug: any 429 is taken for the end of the day's quota. *)
BugMinuteLimited(c) ==
  /\ At(c, "ask")
  /\ Goto(c, "mark")
  /\ UNCHANGED <<day, count, exhausted, memo, goneOn, uncounted, rejected, lapses, restarts>>

MinuteLimited(c) ==
  /\ At(c, "ask")
  /\ call' = [call EXCEPT ![c] = NextModel([@ EXCEPT !.limited = TRUE])]
  /\ UNCHANGED <<day, count, exhausted, memo, goneOn, uncounted, rejected, lapses, restarts>>

DayLimited(c) ==
  /\ At(c, "ask") /\ day \in goneOn[call[c].at]
  /\ Goto(c, "mark")
  /\ rejected' = [rejected EXCEPT ![c][call[c].at] = @ + 1]
  /\ UNCHANGED <<day, count, exhausted, memo, goneOn, uncounted, lapses, restarts>>

(* A bug: the dict is given tomorrow's date. *)
BugRemember(c) == memo' = [memo EXCEPT ![Home[c]][call[c].at] = day + 1]

(* _mark_exhausted stamps the dict, and the row, with the date it has now. *)
Remember(c) == memo' = [memo EXCEPT ![Home[c]][call[c].at] = day]

MarkExhausted(c) ==
  /\ At(c, "mark")
  /\ Remember(c)
  /\ exhausted' = [exhausted EXCEPT ![call[c].at] = @ \cup {day}]
  /\ Advance(c)
  /\ UNCHANGED <<day, count, goneOn, uncounted, rejected, lapses, restarts>>

(* The row cannot be written: only the dict knows.                         *)
MarkFails(c) ==
  /\ At(c, "mark") /\ Lapse
  /\ Remember(c)
  /\ Advance(c)
  /\ UNCHANGED <<day, count, exhausted, goneOn, uncounted, rejected, restarts>>

(* After RATE_LIMIT_SLEEP_SECONDS the models are walked once more.         *)
Wake(c) ==
  /\ At(c, "sleep")
  /\ call' = [call EXCEPT ![c] = [Idle EXCEPT !.pc = "check", !.pass = 2]]
  /\ UNCHANGED <<day, count, exhausted, memo, goneOn, uncounted, rejected, lapses, restarts>>

(* The Claude call, reserved in the spend ledger, answers or raises.       *)
Fallback(c) ==
  /\ At(c, "claude")
  /\ call' = [call EXCEPT ![c] = Idle]
  /\ UNCHANGED <<day, count, exhausted, memo, goneOn, uncounted, rejected, lapses, restarts>>

(* A redeploy clears the dict and ends the instance's threads; it is a     *)
(* lapse only if one of them still had a rejection to write down.          *)
Threads(i) == {c \in Callers : Home[c] = i}

Restart(i) ==
  /\ restarts < MaxRestarts
  /\ restarts' = restarts + 1
  /\ memo' = [memo EXCEPT ![i] = [m \in Models |-> Never]]
  /\ call' = [c \in Callers |-> IF c \in Threads(i) THEN Idle ELSE call[c]]
  /\ IF \E c \in Threads(i) : At(c, "mark") THEN Lapse ELSE UNCHANGED lapses
  /\ UNCHANGED <<day, count, exhausted, goneOn, uncounted, rejected>>

Proceed(c) ==
  \/ SkipModel(c) \/ TryModel(c) \/ ReadCount(c) \/ WriteCount(c)
  \/ Answered(c) \/ OtherError(c) \/ MinuteLimited(c) \/ DayLimited(c)
  \/ MarkExhausted(c) \/ Wake(c) \/ Fallback(c)

Next ==
  \/ Midnight
  \/ \E m \in Models : QuotaGone(m)
  \/ \E i \in Instances : Restart(i)
  \/ \E c \in Callers :
       \/ StartCall(c) \/ Refuse(c) \/ GateFailsOpen(c) \/ CheckFailsOpen(c)
       \/ RecordFails(c) \/ MarkFails(c) \/ Proceed(c)

Spec == Init /\ [][Next]_vars

(* Every thread runs on: the provider answers or its call times out.       *)
LiveSpec == Spec /\ \A c \in Callers : WF_vars(Proceed(c))

---------------------------------------------------------------------------
(* Quota is never spent rediscovering a dead model: on one day a thread    *)
(* meets at most one PerDay rejection of a model, whatever the other       *)
(* instances and restarts do, plus one for each loss of the bookkeeping.   *)
DeadModelAskedOnce ==
  \A c \in Callers, m \in Models : rejected[c][m] <= 1 + lapses

(* "Only a PerDay violation is permanent": a model is given up for a day   *)
(* only if the provider had said that its daily quota was gone.            *)
MinuteLimitForgiven ==
  \A m \in Models :
    /\ \A d \in exhausted[m] : \E e \in goneOn[m] : e <= d
    /\ \A i \in Instances : memo[i][m] # Never => \E e \in goneOn[m] : e <= memo[i][m]

(* A thread alone passes the daily budget, counted or not, by less than    *)
(* the two walks over the models that one call may take; each loss of the  *)
(* bookkeeping lets at most one call more through.                         *)
AttemptsWithinBudget ==
  Cardinality(Callers) = 1 =>
    CallsToday + uncounted <= Budget + 2 * ModelCount * (1 + lapses) - 1

(* Every call ends: the passes over the models are finite.                 *)
CallsEnd == \A c \in Callers : ~At(c, "idle") ~> At(c, "idle")
=============================================================================
