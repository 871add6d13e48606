----------------------------- MODULE BudgetProofs -----------------------------
(***************************************************************************)
(* Proofs about what is spent: the spend ledger and its caps, the guards   *)
(* of the Apify and the Deepline budget, and the sensors, which spend      *)
(* through them, for every number of callers, of days, of runs and of      *)
(* failures, all costs and caps.                                           *)
(***************************************************************************)
EXTENDS MCBudgets, FiniteSetTheorems, TLAPS

-----------------------------------------------------------------------------
(* The spend ledger.                                                       *)

(* Estimates are amounts between nothing and MaxCost.                      *)
LEMMA CostRange == \A e \in Costs : e \in Int /\ 0 <= e /\ e <= MaxCost
BY SpendAssumption

(* The estimate a caller holds is such an amount.                          *)
LEMMA EstRange ==
  ASSUME TypeOK
  PROVE  \A c \in Callers : est[c] \in Int /\ 0 <= est[c] /\ est[c] <= MaxCost
<1> SUFFICES ASSUME NEW c \in Callers
             PROVE  est[c] \in Int /\ 0 <= est[c] /\ est[c] <= MaxCost
  OBVIOUS
<1>1. est[c] \in Costs \/ est[c] = 0
  BY DEF TypeOK
<1>2. CASE est[c] \in Costs
  BY <1>2, CostRange
<1>3. CASE est[c] = 0
  <2>1. MaxCost \in Nat
    BY SpendAssumption
  <2>2. QED
    BY <1>3, <2>1
<1>4. QED
  BY <1>1, <1>2, <1>3

(* Days are numbered from 0, and midnight leads to a day.                  *)
LEMMA DayRange ==
  /\ 0 \in Days
  /\ \A d \in Days : d \in Int /\ 0 <= d
  /\ \A d \in Days : d < MaxDay => d + 1 \in Days
BY SpendAssumption DEF Days

(* Type correctness is preserved by every step.                            *)
LEMMA SpendTypeStep == TypeOK /\ [Next]_vars => TypeOK'
<1> SUFFICES ASSUME TypeOK, [Next]_vars PROVE TypeOK'
  OBVIOUS
<1> USE CostRange, DayRange DEF TypeOK, PCs
<1>1. CASE UNCHANGED vars
  BY <1>1 DEF vars
<1>2. CASE Midnight
  BY <1>2 DEF Midnight
<1>3. ASSUME NEW c \in Callers, Step(c) PROVE TypeOK'
  <2>1. CASE EnterScope(c) \/ LeaveScope(c)
    BY <2>1 DEF EnterScope, LeaveScope, Goto
  <2>2. ASSUME NEW e \in Costs, Reserve(c, e) PROVE TypeOK'
    BY <2>2 DEF Reserve, Goto
  <2>3. CASE CheckPasses(c)
    BY <2>3 DEF CheckPasses, Goto
  <2>4. CASE SpendBlocked(c)
    BY <2>4 DEF SpendBlocked, BackToRun, Goto
  <2>5. CASE InsertRow(c)
    BY <2>5 DEF InsertRow, Goto
  <2>6. CASE InsertRaises(c)
    BY <2>6 DEF InsertRaises, BackToRun, Goto
  <2>7. CASE CallSucceeds(c)
    BY <2>7 DEF CallSucceeds, Bill, BackToRun, Goto
  <2>8. CASE CallMaybeBilled(c)
    BY <2>8 DEF CallMaybeBilled, Bill, BackToRun, Goto
  <2>9. CASE CallNotBilled(c)
    BY <2>9 DEF CallNotBilled, Goto
  <2>10. CASE Settle(c)
    BY <2>10 DEF Settle, BackToRun, Goto
  <2>11. CASE SettleRaises(c)
    BY <2>11 DEF SettleRaises, BackToRun, Goto
  <2>12. CASE Crash(c)
    BY <2>12 DEF Crash, Goto
  <2>13. QED
    BY <1>3, <2>1, <2>2, <2>3, <2>4, <2>5, <2>6, <2>7, <2>8, <2>9, <2>10, <2>11, <2>12 DEF Step
<1>4. QED
  BY <1>1, <1>2, <1>3 DEF Next

(* Type correctness of the ledger, the scopes and the callers.             *)
THEOREM SpendTypeOK == Spec => []TypeOK
<1>1. Init => TypeOK
  BY SpendAssumption DEF Init, TypeOK, PCs, Days
<1>2. QED
  BY <1>1, SpendTypeStep, PTL DEF Spec

---------------------------------------------------------------------------
(* A reservation that passed the check fits the run, and one that is open  *)
(* is still in the scope on top of what was charged.                       *)
Unbilled(c) == IF pc[c] \in {"calling", "settle"} THEN est[c] ELSE 0

ScopeInv ==
  \A c \in Callers :
    /\ runBilled[c] + Unbilled(c) <= spent[c]
    /\ spent[c] <= RunCap
    /\ pc[c] = "insert" => spent[c] + est[c] <= RunCap
    /\ pc[c] = "off" => spent[c] = 0 /\ runBilled[c] = 0

(* Every step keeps the account of every run.                              *)
LEMMA ScopeStep == TypeOK /\ ScopeInv /\ [Next]_vars => ScopeInv'
<1> SUFFICES ASSUME TypeOK, ScopeInv, [Next]_vars PROVE ScopeInv'
  OBVIOUS
<1> USE SpendAssumption, EstRange, CostRange DEF TypeOK, ScopeInv, Unbilled
<1>1. CASE UNCHANGED vars
  BY <1>1 DEF vars
<1>2. CASE Midnight
  BY <1>2 DEF Midnight
<1>3. ASSUME NEW c \in Callers, Step(c) PROVE ScopeInv'
  <2>1. CASE EnterScope(c) \/ LeaveScope(c)
    BY <2>1 DEF EnterScope, LeaveScope, Goto
  <2>2. ASSUME NEW e \in Costs, Reserve(c, e) PROVE ScopeInv'
    BY <2>2 DEF Reserve, Goto
  <2>3. CASE CheckPasses(c)
    BY <2>3 DEF CheckPasses, FitsCaps, Goto
  <2>4. CASE SpendBlocked(c)
    BY <2>4 DEF SpendBlocked, BackToRun, Goto
  <2>5. CASE InsertRow(c)
    BY <2>5 DEF InsertRow, Goto
  <2>6. CASE InsertRaises(c)
    BY <2>6 DEF InsertRaises, BackToRun, Goto
  <2>7. CASE CallSucceeds(c)
    BY <2>7 DEF CallSucceeds, Bill, BackToRun, Goto
  <2>8. CASE CallMaybeBilled(c)
    BY <2>8 DEF CallMaybeBilled, Bill, BackToRun, Goto
  <2>9. CASE CallNotBilled(c)
    BY <2>9 DEF CallNotBilled, Goto
  <2>10. CASE Settle(c)
    BY <2>10 DEF Settle, BackToRun, Goto
  <2>11. CASE SettleRaises(c)
    BY <2>11 DEF SettleRaises, BackToRun, Goto
  <2>12. CASE Crash(c)
    BY <2>12 DEF Crash, Goto
  <2>13. QED
    BY <1>3, <2>1, <2>2, <2>3, <2>4, <2>5, <2>6, <2>7, <2>8, <2>9, <2>10, <2>11, <2>12 DEF Step
<1>4. QED
  BY <1>1, <1>2, <1>3 DEF Next

(* No run is ever charged more than its run cap, whatever fails halfway.   *)
THEOREM RunCapHolds == Spec => []RunWithinCap
<1>1. Init => ScopeInv
  BY SpendAssumption DEF Init, ScopeInv, Unbilled
<1>2. TypeOK /\ ScopeInv => RunWithinCap
  BY EstRange DEF TypeOK, ScopeInv, Unbilled, RunWithinCap
<1>3. QED
  BY <1>1, <1>2, ScopeStep, SpendTypeOK, PTL DEF Spec

---------------------------------------------------------------------------
(* With one caller: what is in the ledger fits the cap, together with the  *)
(* reservation about to be inserted, on the day it may be dated.           *)
OneCallerInv ==
  \A c \in Callers :
    /\ \A d \in Days : ledger[d] <= DailyCap
    /\ \A d \in Days : d > day => ledger[d] = 0
    /\ \A d \in Days :
         ledger[d] >= (IF pc[c] \in {"calling", "settle"} /\ rowDay[c] = d
                         THEN est[c] ELSE 0)
    /\ pc[c] \in {"calling", "settle"} => rowDay[c] <= day
    /\ pc[c] = "insert" => ledger[day] + est[c] <= DailyCap

(* Every step of the only caller keeps its account of the day.             *)
LEMMA OneCallerStep ==
  ASSUME NEW k, Callers = {k}
  PROVE  TypeOK /\ OneCallerInv /\ [Next]_vars => OneCallerInv'
<1> SUFFICES ASSUME TypeOK, OneCallerInv, [Next]_vars PROVE OneCallerInv'
  OBVIOUS
<1> USE SpendAssumption, EstRange, CostRange, DayRange DEF TypeOK, OneCallerInv
<1>1. CASE UNCHANGED vars
  BY <1>1 DEF vars
<1>2. CASE Midnight
  BY <1>2 DEF Midnight
<1>3. ASSUME NEW c \in Callers, Step(c) PROVE OneCallerInv'
  <2>0. c = k
    OBVIOUS
  <2>1. CASE EnterScope(c) \/ LeaveScope(c)
    BY <2>1 DEF EnterScope, LeaveScope, Goto
  <2>2. ASSUME NEW e \in Costs, Reserve(c, e) PROVE OneCallerInv'
    BY <2>2 DEF Reserve, Goto
  <2>3. CASE CheckPasses(c)
    BY <2>3 DEF CheckPasses, FitsCaps, Goto
  <2>4. CASE SpendBlocked(c)
    BY <2>4 DEF SpendBlocked, BackToRun, Goto
  <2>5. CASE InsertRow(c)
    BY <2>5 DEF InsertRow, Goto
  <2>6. CASE InsertRaises(c)
    BY <2>6 DEF InsertRaises, BackToRun, Goto
  <2>7. CASE CallSucceeds(c) \/ CallMaybeBilled(c)
    BY <2>7 DEF CallSucceeds, CallMaybeBilled, BackToRun, Goto
  <2>8. CASE CallNotBilled(c)
    BY <2>8 DEF CallNotBilled, Goto
  <2>9. CASE Settle(c)
    BY <2>9 DEF Settle, BackToRun, Goto
  <2>10. CASE SettleRaises(c)
    BY <2>10 DEF SettleRaises, BackToRun, Goto
  <2>11. CASE Crash(c)
    BY <2>11 DEF Crash, Goto
  <2>12. QED
    BY <1>3, <2>1, <2>2, <2>3, <2>4, <2>5, <2>6, <2>7, <2>8, <2>9, <2>10, <2>11 DEF Step
<1>4. QED
  BY <1>1, <1>2, <1>3 DEF Next

(* A single caller keeps every day within the daily cap, midnight included. *)
THEOREM DailyCapSequential ==
  ASSUME NEW CONSTANT k, Callers = {k}
  PROVE  Spec => []SequentialDailyCap
<1>1. Init => OneCallerInv
  BY SpendAssumption DEF Init, OneCallerInv, Days
<1>2. OneCallerInv => SequentialDailyCap
  BY DEF OneCallerInv, SequentialDailyCap
<1>3. QED
  BY <1>1, <1>2, OneCallerStep, SpendTypeOK, PTL DEF Spec

---------------------------------------------------------------------------
(* With any number of callers: one of those between check and row counts   *)
(* its own call in, each further one may add a call the others do not see, *)
(* so the sum passes the cap by at most one call per further caller.       *)
Inserters == {c \in Callers : pc[c] = "insert"}

(* What the inserters may still add, in total, and where it must fit.      *)
Held == Cardinality(Inserters) * MaxCost
CapRoom == DailyCap + Cardinality(Callers) * MaxCost

CrowdInv ==
  /\ \A d \in Days : d > day => ledger[d] = 0
  /\ \A d \in Days : ledger[d] <= CapRoom - MaxCost
  /\ Inserters # {} => \E i \in Inserters : ledger[day] + est[i] <= CapRoom - Held

(* A row that may still be settled is not of a later day.                  *)
OpenInPast ==
  \A c \in Callers : pc[c] \in {"calling", "settle"} => rowDay[c] <= day

(* Joining and leaving the inserters changes their number by one.          *)
LEMMA InsertersCount ==
  /\ IsFiniteSet(Inserters)
  /\ Cardinality(Inserters) \in Nat /\ Cardinality(Callers) \in Nat
  /\ Cardinality(Inserters) <= Cardinality(Callers)
<1>1. Inserters \subseteq Callers
  BY DEF Inserters
<1>2. QED
  BY <1>1, SpendAssumption, FS_Subset, FS_CardinalityType

(* Products the bound is built from.                                       *)
LEMMA HeldRange == Held \in Int /\ 0 <= Held /\ Held <= Cardinality(Callers) * MaxCost /\ CapRoom \in Int
<1>1. \A k, n, m \in Nat : k <= n => k * m \in Int /\ 0 <= k * m /\ k * m <= n * m
  OBVIOUS
<1>2. Cardinality(Callers) * MaxCost \in Int
  BY InsertersCount, SpendAssumption
<1>3. QED
  BY <1>1, <1>2, InsertersCount, SpendAssumption DEF Held, CapRoom

(* What the inserters hold fits into the room above the cap.               *)
LEMMA HeldFits == Held \in Int /\ CapRoom \in Int /\ Held <= CapRoom /\ 0 <= CapRoom
<1> DEFINE P == Cardinality(Callers) * MaxCost
<1>1. Held \in Int /\ 0 <= Held /\ Held <= P
  BY HeldRange
<1>2. P \in Int
  BY InsertersCount, SpendAssumption
<1>3. CapRoom = DailyCap + P
  BY DEF CapRoom
<1>4. DailyCap \in Nat
  BY SpendAssumption
<1> HIDE DEF P
<1>5. QED
  BY <1>1, <1>2, <1>3, <1>4

(* The room above the cap, written as the property writes it.              *)
LEMMA RoomForOne ==
  /\ CapRoom - MaxCost = DailyCap + (Cardinality(Callers) - 1) * MaxCost
  /\ MaxCost <= DailyCap => 0 <= CapRoom - MaxCost
<1>1. \A k, m \in Nat : (k - 1) * m = k * m - m /\ k * m \in Int /\ 0 <= k * m
  OBVIOUS
<1> DEFINE P == Cardinality(Callers) * MaxCost
<1>2. P \in Int /\ 0 <= P /\ (Cardinality(Callers) - 1) * MaxCost = P - MaxCost
  BY <1>1, InsertersCount, SpendAssumption
<1>3. CapRoom = DailyCap + P /\ DailyCap \in Nat /\ MaxCost \in Nat
  BY SpendAssumption DEF CapRoom
<1> HIDE DEF P
<1>4. QED
  BY <1>2, <1>3

(* A caller that leaves the inserters may add one call less.               *)
LEMMA HeldShrinks ==
  ASSUME NEW c \in Callers, Inserters' = Inserters \ {c}, c \in Inserters
  PROVE  Held' = Held - MaxCost
<1>1. Cardinality(Inserters') = Cardinality(Inserters) - 1 /\ Cardinality(Inserters') \in Int
  BY InsertersCount, FS_RemoveElement
<1>2. \A k \in Nat, m \in Nat : (k - 1) * m = k * m - m
  OBVIOUS
<1>3. QED
  BY <1>1, <1>2, InsertersCount, SpendAssumption DEF Held

(* An inserter holds room for one call.                                    *)
LEMMA HeldStays ==
  ASSUME NEW c \in Inserters
  PROVE  MaxCost <= Held
<1>1. Inserters # {}
  OBVIOUS
<1>2. Cardinality(Inserters) # 0
  BY <1>1, InsertersCount, FS_EmptySet
<1>3. \A k, m \in Nat : k # 0 => m <= k * m
  OBVIOUS
<1>4. QED
  BY <1>2, <1>3, InsertersCount, SpendAssumption DEF Held

(* Rows are dated by the day of their insertion.                           *)
LEMMA OpenStep == TypeOK /\ OpenInPast /\ [Next]_vars => OpenInPast'
<1> SUFFICES ASSUME TypeOK, OpenInPast, [Next]_vars PROVE OpenInPast'
  OBVIOUS
<1> USE DayRange DEF TypeOK, OpenInPast
<1>1. CASE UNCHANGED vars
  BY <1>1 DEF vars
<1>2. CASE Midnight
  BY <1>2 DEF Midnight
<1>3. ASSUME NEW c \in Callers, Step(c) PROVE OpenInPast'
  BY <1>3 DEF Step, EnterScope, LeaveScope, Reserve, CheckPasses, SpendBlocked, InsertRow,
     InsertRaises, CallSucceeds, CallMaybeBilled, CallNotBilled, Settle, SettleRaises, Crash,
     BackToRun, Goto
<1>4. QED
  BY <1>1, <1>2, <1>3 DEF Next

(* A call of any inserter fits under what the others leave.                *)
LEMMA OneMoreFits ==
  ASSUME TypeOK, NEW c \in Inserters, MaxCost <= DailyCap
  PROVE  est[c] <= CapRoom - Held
<1>1. c \in Callers /\ est[c] \in Int /\ est[c] <= MaxCost
  BY EstRange DEF Inserters
<1> DEFINE P == Cardinality(Callers) * MaxCost
<1>2. Held \in Int /\ Held <= P
  BY HeldRange
<1>3. P \in Int /\ DailyCap \in Nat /\ MaxCost \in Nat
  BY InsertersCount, SpendAssumption
<1>4. CapRoom = DailyCap + P
  BY DEF CapRoom
<1> HIDE DEF P
<1>5. QED
  BY <1>1, <1>2, <1>3, <1>4

(* Every step keeps the account of the crowd.                              *)
LEMMA CrowdStep ==
  ASSUME MaxCost <= DailyCap, TypeOK, CrowdInv, OpenInPast, [Next]_vars
  PROVE  CrowdInv'
<1>0. MaxCost \in Nat /\ DailyCap \in Nat /\ CapRoom' = CapRoom /\ CapRoom \in Int /\ Held \in Int
  BY SpendAssumption, HeldFits DEF CapRoom
<1>1. CASE UNCHANGED vars
  <2>1. Inserters' = Inserters /\ Held' = Held
    BY <1>1 DEF vars, Inserters, Held
  <2>2. QED
    BY <1>0, <1>1, <2>1 DEF vars, CrowdInv
<1>2. CASE Midnight
  <2>1. Inserters' = Inserters /\ Held' = Held
    BY <1>2 DEF Midnight, Inserters, Held
  <2>2. ledger' = ledger /\ est' = est /\ day' = day + 1 /\ day' \in Days /\ day \in Days
    BY <1>2, DayRange DEF Midnight, TypeOK
  <2>3. ledger[day'] = 0
    BY <2>2, DayRange DEF CrowdInv, TypeOK
  <2>4. ASSUME NEW i \in Inserters PROVE ledger'[day'] + est'[i] <= CapRoom' - Held'
    <3>1. est[i] \in Int /\ est[i] <= CapRoom - Held
      BY OneMoreFits, EstRange DEF Inserters
    <3>2. QED
      BY <1>0, <2>1, <2>2, <2>3, <3>1
  <2>5. \A d \in Days : d > day' => ledger'[d] = 0
    BY <2>2, DayRange DEF CrowdInv, TypeOK
  <2>6. QED
    BY <1>0, <2>1, <2>2, <2>4, <2>5 DEF CrowdInv
<1>3. ASSUME NEW c \in Callers, Step(c) PROVE CrowdInv'
  <2>0. day' = day /\ day \in Days
    BY <1>3 DEF TypeOK, Step, EnterScope, LeaveScope, Reserve, CheckPasses, SpendBlocked,
       InsertRow, InsertRaises, CallSucceeds, CallMaybeBilled, CallNotBilled, Settle,
       SettleRaises, Crash
  <2>00. \A i \in Callers : est[i] \in Int /\ 0 <= est[i] /\ est[i] <= MaxCost
    BY EstRange
  <2>1. CASE CheckPasses(c)
    <3>1. Inserters' = Inserters \cup {c} /\ c \notin Inserters /\ ledger' = ledger /\ est' = est
      BY <2>1 DEF CheckPasses, Goto, Inserters, TypeOK
    <3>2. Held' <= Cardinality(Callers) * MaxCost /\ Held' \in Int
      <4>1. IsFiniteSet(Callers) /\ Inserters' \subseteq Callers
        BY SpendAssumption DEF Inserters
      <4>2. Cardinality(Inserters') <= Cardinality(Callers) /\ Cardinality(Inserters') \in Nat
        BY <4>1, FS_Subset, FS_CardinalityType
      <4>3. \A k, n, m \in Nat : k <= n => k * m <= n * m /\ k * m \in Int
        OBVIOUS
      <4>4. QED
        BY <1>0, <4>2, <4>3, InsertersCount DEF Held
    <3>3. ledger[day] + est[c] <= DailyCap
      BY <2>1 DEF CheckPasses, FitsCaps
    <3>4. ledger[day] + est[c] <= CapRoom - Held'
      <4> DEFINE P == Cardinality(Callers) * MaxCost
      <4>1. P \in Int /\ CapRoom = DailyCap + P /\ Held' <= P
        BY <1>0, <3>2, InsertersCount DEF CapRoom
      <4>2. ledger[day] \in Int
        BY <2>0 DEF TypeOK
      <4> HIDE DEF P
      <4>3. QED
        BY <1>0, <2>00, <3>2, <3>3, <4>1, <4>2
    <3>5. QED
      BY <1>0, <2>0, <3>1, <3>4 DEF CrowdInv
  <2>2. CASE InsertRow(c)
    <3>1. Inserters' = Inserters \ {c} /\ c \in Inserters /\ est' = est
      BY <2>2 DEF InsertRow, Goto, Inserters, TypeOK
    <3>2. Held' = Held - MaxCost
      BY <3>1, HeldShrinks
    <3>3. ledger' = [ledger EXCEPT ![day] = @ + est[c]] /\ ledger[day] \in Int
      BY <2>0, <2>2 DEF InsertRow, TypeOK
    <3>4. PICK i \in Inserters : ledger[day] + est[i] <= CapRoom - Held
      BY <3>1 DEF CrowdInv
    <3>5. i \in Callers /\ MaxCost <= Held
      BY HeldStays DEF Inserters
    <3>6. ledger'[day] <= CapRoom - MaxCost
      <4>1. CASE i = c
        BY <1>0, <2>0, <2>00, <3>3, <3>4, <3>5, <4>1 DEF TypeOK
      <4>2. CASE i # c
        <5>1. i \in Inserters' /\ MaxCost <= Held'
          <6>1. i \in Inserters'
            BY <3>1, <4>2
          <6>2. Inserters' # {} /\ Inserters' \subseteq Callers /\ IsFiniteSet(Callers)
            BY <6>1, SpendAssumption DEF Inserters
          <6>3. Cardinality(Inserters') \in Nat /\ Cardinality(Inserters') # 0
            BY <6>2, FS_Subset, FS_CardinalityType, FS_EmptySet
          <6>4. \A k, m \in Nat : k # 0 => m <= k * m
            OBVIOUS
          <6>5. QED
            BY <1>0, <6>1, <6>3, <6>4 DEF Held
        <5>2. QED
          BY <1>0, <2>0, <2>00, <3>2, <3>3, <3>4, <3>5, <5>1 DEF TypeOK
      <4>3. QED
        BY <4>1, <4>2
    <3>7. ASSUME NEW j \in Inserters' PROVE \E k \in Inserters' : ledger'[day] + est[k] <= CapRoom - Held'
      <4>1. j \in Callers
        BY <3>1 DEF Inserters
      <4>2. CASE i = c
        <5>1. ledger'[day] + est[j] <= CapRoom - Held'
          BY <1>0, <2>0, <2>00, <3>2, <3>3, <3>4, <4>1, <4>2 DEF TypeOK
        <5>2. QED
          BY <5>1
      <4>3. CASE i # c
        <5>1. ledger'[day] + est[i] <= CapRoom - Held'
          BY <1>0, <2>0, <2>00, <3>2, <3>3, <3>4, <3>5 DEF TypeOK
        <5>2. QED
          BY <3>1, <4>3, <5>1
      <4>4. QED
        BY <4>2, <4>3
    <3>8. \A d \in Days : ledger'[d] <= CapRoom - MaxCost
      BY <2>0, <3>3, <3>6 DEF CrowdInv, TypeOK
    <3>9. \A d \in Days : d > day => ledger'[d] = 0
      BY <2>0, <3>3, DayRange DEF CrowdInv, TypeOK
    <3>10. QED
      BY <1>0, <2>0, <3>1, <3>7, <3>8, <3>9 DEF CrowdInv
  <2>3. CASE Settle(c)
    <3>1. Inserters' = Inserters /\ Held' = Held
      BY <2>3 DEF Settle, BackToRun, Goto, Inserters, TypeOK, Held
    <3>2. rowDay[c] \in Days /\ rowDay[c] <= day
      BY <2>3 DEF Settle, OpenInPast, TypeOK
    <3>3. ledger' = [ledger EXCEPT ![rowDay[c]] = @ - est[c]]
      BY <2>3 DEF Settle
    <3>4. \A i \in Inserters : est'[i] = est[i] /\ est[i] \in Int
      BY <2>00, <2>3 DEF Settle, BackToRun, Inserters, TypeOK
    <3>5. \A d \in Days : ledger'[d] \in Int /\ ledger'[d] <= ledger[d] /\ ledger[d] \in Int
      BY <2>00, <3>2, <3>3 DEF TypeOK
    <3>6. \A d \in Days : d > day => ledger'[d] = 0
      BY <3>2, <3>3, DayRange, <2>0 DEF CrowdInv, TypeOK
    <3>7. \A d \in Days : ledger'[d] <= CapRoom - MaxCost
      BY <1>0, <3>5 DEF CrowdInv
    <3>8. Inserters # {} => \E i \in Inserters : ledger'[day] + est'[i] <= CapRoom - Held
      BY <1>0, <2>0, <3>4, <3>5 DEF CrowdInv
    <3>9. QED
      BY <1>0, <2>0, <3>1, <3>6, <3>7, <3>8 DEF CrowdInv
  <2>4. CASE ledger' = ledger /\ Inserters' = Inserters /\ \A i \in Inserters : est'[i] = est[i]
    <3>1. Held' = Held
      BY <2>4 DEF Held
    <3>2. QED
      BY <1>0, <2>0, <2>4, <3>1 DEF CrowdInv
  <2>5. CASE /\ ledger' = ledger /\ Inserters' = Inserters \ {c} /\ c \in Inserters
             /\ \A i \in Inserters' : est'[i] = est[i]
    <3>1. Held' = Held - MaxCost
      BY <2>5, HeldShrinks
    <3>2. PICK i \in Inserters : ledger[day] + est[i] <= CapRoom - Held
      BY <2>5 DEF CrowdInv
    <3>3. i \in Callers /\ ledger[day] \in Int
      BY <2>0 DEF Inserters, TypeOK
    <3>4. ASSUME NEW j \in Inserters' PROVE ledger'[day] + est'[j] <= CapRoom - Held'
      <4>1. j \in Callers
        BY <2>5 DEF Inserters
      <4>2. QED
        BY <1>0, <2>00, <2>5, <3>1, <3>2, <3>3, <4>1
    <3>5. QED
      BY <1>0, <2>0, <2>5, <3>4 DEF CrowdInv
  <2>6. CASE InsertRaises(c) \/ (Crash(c) /\ pc[c] = "insert")
    BY <2>5, <2>6 DEF InsertRaises, Crash, BackToRun, Goto, Inserters, TypeOK
  <2>7. CASE EnterScope(c) \/ LeaveScope(c) \/ \E e \in Costs : Reserve(c, e)
    BY <2>4, <2>7 DEF EnterScope, LeaveScope, Reserve, Goto, Inserters, TypeOK
  <2>8. CASE SpendBlocked(c) \/ CallSucceeds(c) \/ CallMaybeBilled(c) \/ CallNotBilled(c)
             \/ SettleRaises(c) \/ (Crash(c) /\ pc[c] # "insert")
    BY <2>4, <2>8 DEF SpendBlocked, CallSucceeds, CallMaybeBilled, CallNotBilled, SettleRaises,
       Crash, BackToRun, Goto, Inserters, TypeOK
  <2>9. QED
    BY <1>3, <2>1, <2>2, <2>3, <2>6, <2>7, <2>8 DEF Step
<1>4. QED
  BY <1>1, <1>2, <1>3 DEF Next

(* Whatever the number of concurrent callers, a day's ledger passes the    *)
(* daily cap by at most one call per further caller, if the cap leaves     *)
(* room for one call.                                                      *)
THEOREM CrowdOvershoot ==
  ASSUME Callers # {}, MaxCost <= DailyCap
  PROVE  Spec => []OvershootBounded
<1>1. Init => CrowdInv /\ OpenInPast
  <2> SUFFICES ASSUME Init PROVE CrowdInv /\ OpenInPast
    OBVIOUS
  <2>1. Inserters = {} /\ OpenInPast
    BY DEF Init, Inserters, OpenInPast
  <2>2. 0 <= CapRoom - MaxCost
    BY HeldFits, SpendAssumption, InsertersCount, RoomForOne
  <2>3. QED
    BY <2>1, <2>2, DayRange DEF Init, CrowdInv
<1>2. CrowdInv => OvershootBounded
  <2>1. CapRoom - MaxCost = DailyCap + (Cardinality(Callers) - 1) * MaxCost
    BY RoomForOne
  <2>2. QED
    BY <2>1 DEF CrowdInv, OvershootBounded
<1>3. TypeOK /\ CrowdInv /\ OpenInPast /\ [Next]_vars => CrowdInv'
  BY CrowdStep
<1>4. QED
  BY <1>1, <1>2, <1>3, OpenStep, SpendTypeOK, PTL DEF Spec
---------------------------------------------------------------------------
(* What open reservations add up to.  A sum over the callers is given by   *)
(* its value for every set of them, so that it changes with one caller at  *)
(* a time and no induction over the callers is needed.                     *)
Weighs(f, S, w) ==
  /\ f \in [SUBSET S -> Nat]
  /\ f[{}] = 0
  /\ \A T \in SUBSET S : \A c \in T : f[T] = f[T \ {c}] + w[c]

Nobody == [T \in {{}} |-> 0]
Joined(f, S, c, x) == [T \in SUBSET (S \cup {c}) |-> IF c \in T THEN f[T \ {c}] + x ELSE f[T \ {c}]]
Left(f, S, c) == [T \in SUBSET (S \ {c}) |-> f[T]]

(* Nobody holds nothing.                                                   *)
LEMMA WeighNobody ==
  ASSUME NEW w
  PROVE  Weighs(Nobody, {}, w) /\ Nobody[{}] = 0
BY DEF Weighs, Nobody

(* One who joins adds his own weight.                                      *)
LEMMA WeighJoin ==
  ASSUME NEW S \in SUBSET Callers, NEW v \in [Callers -> Nat], NEW c \in Callers, c \notin S,
         NEW f, Weighs(f, S, v)
  PROVE  /\ Weighs(Joined(f, S, c, v[c]), S \cup {c}, v)
         /\ Joined(f, S, c, v[c])[S \cup {c}] = f[S] + v[c]
<1> DEFINE g == Joined(f, S, c, v[c])
<1> USE DEF Joined
<1>1. \A T \in SUBSET (S \cup {c}) : T \ {c} \in SUBSET S /\ f[T \ {c}] \in Nat
  BY DEF Weighs
<1>2. \A T \in SUBSET (S \cup {c}) : g[T] \in Nat
  BY <1>1
<1>3. g \in [SUBSET (S \cup {c}) -> Nat]
  BY <1>2
<1>4. \A T \in SUBSET (S \cup {c}) : (c \in T => g[T] = f[T \ {c}] + v[c]) /\ (c \notin T => g[T] = f[T \ {c}])
  OBVIOUS
<1>5. g[{}] = 0
  <2>1. {} \ {c} = {} /\ {} \in SUBSET (S \cup {c})
    OBVIOUS
  <2>2. QED
    BY <1>4, <2>1 DEF Weighs
<1> HIDE DEF g, Joined
<1>6. ASSUME NEW T \in SUBSET (S \cup {c}), NEW e \in T PROVE g[T] = g[T \ {e}] + v[e]
  <2>1. T \ {e} \in SUBSET (S \cup {c})
    OBVIOUS
  <2>2. CASE e = c
    <3>1. (T \ {e}) \ {c} = T \ {c} /\ c \in T /\ c \notin T \ {e}
      BY <2>2
    <3>2. g[T] = f[T \ {c}] + v[c] /\ g[T \ {e}] = f[T \ {c}]
      BY <1>4, <2>1, <3>1
    <3>3. QED
      BY <2>2, <3>2
  <2>3. CASE e # c
    <3>1. e \in T \ {c} /\ (T \ {e}) \ {c} = (T \ {c}) \ {e} /\ e \in S /\ (c \in T <=> c \in T \ {e})
      BY <2>3
    <3>2. f[T \ {c}] = f[(T \ {c}) \ {e}] + v[e]
      BY <1>1, <3>1 DEF Weighs
    <3>3. f[(T \ {c}) \ {e}] \in Nat /\ v[e] \in Nat /\ v[c] \in Nat
      BY <1>1, <2>1, <3>1
    <3>4. CASE c \in T
      <4>1. g[T] = f[T \ {c}] + v[c] /\ g[T \ {e}] = f[(T \ {c}) \ {e}] + v[c]
        BY <1>4, <2>1, <3>1, <3>4
      <4>2. QED
        BY <3>2, <3>3, <4>1
    <3>5. CASE c \notin T
      <4>1. g[T] = f[T \ {c}] /\ g[T \ {e}] = f[(T \ {c}) \ {e}]
        BY <1>4, <2>1, <3>1, <3>5
      <4>2. QED
        BY <3>2, <4>1
    <3>6. QED
      BY <3>4, <3>5
  <2>4. QED
    BY <2>2, <2>3
<1>7. g[S \cup {c}] = f[S] + v[c]
  <2>1. (S \cup {c}) \ {c} = S /\ c \in S \cup {c} /\ S \cup {c} \in SUBSET (S \cup {c})
    OBVIOUS
  <2>2. QED
    BY <1>4, <2>1
<1>8. Weighs(g, S \cup {c}, v)
  BY <1>3, <1>5, <1>6 DEF Weighs
<1>9. QED
  BY <1>7, <1>8 DEF g

(* One who leaves takes his weight along.                                  *)
LEMMA WeighLeave ==
  ASSUME NEW S, NEW v, NEW c \in S, NEW f, Weighs(f, S, v)
  PROVE  /\ Weighs(Left(f, S, c), S \ {c}, v)
         /\ f[S] = Left(f, S, c)[S \ {c}] + v[c]
         /\ Left(f, S, c)[S \ {c}] \in Nat
<1> DEFINE g == Left(f, S, c)
<1> USE DEF Left
<1>1. g \in [SUBSET (S \ {c}) -> Nat] /\ g[{}] = 0
  BY DEF Weighs
<1>2. ASSUME NEW T \in SUBSET (S \ {c}), NEW e \in T PROVE g[T] = g[T \ {e}] + v[e]
  <2>1. T \in SUBSET S /\ T \ {e} \in SUBSET (S \ {c}) /\ e \in S \ {c}
    OBVIOUS
  <2>2. f[T] = f[T \ {e}] + v[e]
    BY <2>1 DEF Weighs
  <2>3. QED
    BY <2>1, <2>2
<1>3. f[S] = f[S \ {c}] + v[c] /\ S \ {c} \in SUBSET (S \ {c})
  BY DEF Weighs
<1>4. Weighs(g, S \ {c}, v)
  BY <1>1, <1>2 DEF Weighs
<1>5. g[S \ {c}] = f[S \ {c}] /\ g[S \ {c}] \in Nat
  BY <1>1, <1>3
<1>6. QED
  BY <1>3, <1>4, <1>5

(* Where nobody's weight changes, the sum stands.                          *)
LEMMA WeighStay ==
  ASSUME NEW S, NEW w, NEW v, \A s \in S : v[s] = w[s], NEW f, Weighs(f, S, w)
  PROVE  Weighs(f, S, v)
BY DEF Weighs

(* The callers whose reservation of day d is open.                         *)
Holders(d) == {c \in Callers : pc[c] \in {"calling", "settle"} /\ rowDay[c] = d}

(* What was charged for a day and what is open fits what its rows show.    *)
CoverInv ==
  \A d \in Days : \E f : Weighs(f, Holders(d), est) /\ billed[d] + f[Holders(d)] <= ledger[d]

(* A step that moves neither the day's money nor its holders.              *)
LEMMA CoverStays ==
  ASSUME TypeOK, CoverInv, NEW d \in Days, Holders(d)' = Holders(d),
         \A h \in Holders(d) : est'[h] = est[h], billed'[d] = billed[d], ledger'[d] = ledger[d]
  PROVE  \E f : Weighs(f, Holders(d)', est') /\ billed'[d] + f[Holders(d)'] <= ledger'[d]
<1>1. PICK f : Weighs(f, Holders(d), est) /\ billed[d] + f[Holders(d)] <= ledger[d]
  BY DEF CoverInv
<1>2. Weighs(f, Holders(d), est')
  BY <1>1, WeighStay
<1>3. QED
  BY <1>1, <1>2

(* A holder that leaves: what it is charged for, and what it takes out of  *)
(* the ledger, is at most what it held.                                    *)
LEMMA CoverLeaves ==
  ASSUME TypeOK, CoverInv, NEW d \in Days, NEW c \in Holders(d), Holders(d)' = Holders(d) \ {c},
         \A h \in Holders(d) \ {c} : est'[h] = est[h], billed'[d] \in Int, ledger'[d] \in Int,
         billed'[d] + ledger[d] <= billed[d] + ledger'[d] + est[c]
  PROVE  \E f : Weighs(f, Holders(d)', est') /\ billed'[d] + f[Holders(d)'] <= ledger'[d]
<1>1. PICK f : Weighs(f, Holders(d), est) /\ billed[d] + f[Holders(d)] <= ledger[d]
  BY DEF CoverInv
<1> DEFINE g == Left(f, Holders(d), c)
<1>0. /\ Weighs(g, Holders(d) \ {c}, est)
      /\ f[Holders(d)] = g[Holders(d) \ {c}] + est[c]
      /\ g[Holders(d) \ {c}] \in Nat
  BY <1>1, WeighLeave
<1> HIDE DEF g
<1>2. Weighs(g, Holders(d) \ {c}, est')
  BY <1>0, WeighStay
<1>3. c \in Callers /\ est[c] \in Int /\ billed[d] \in Int /\ ledger[d] \in Int
  BY EstRange DEF Holders, TypeOK
<1>4. billed'[d] + g[Holders(d) \ {c}] <= ledger'[d]
  BY <1>0, <1>1, <1>3
<1>5. QED
  BY <1>2, <1>4

(* Every step keeps what is charged and open covered.                      *)
LEMMA CoverStep ==
  ASSUME TypeOK, CoverInv, [Next]_vars
  PROVE  CoverInv'
<1> SUFFICES ASSUME NEW d \in Days
             PROVE  \E f : Weighs(f, Holders(d)', est') /\ billed'[d] + f[Holders(d)'] <= ledger'[d]
  BY DEF CoverInv, Days
<1>1. CASE UNCHANGED vars \/ Midnight
  <2>1. Holders(d)' = Holders(d)
    BY <1>1 DEF vars, Midnight, Holders
  <2>2. QED
    BY <1>1, <2>1, CoverStays DEF vars, Midnight
<1>2. ASSUME NEW c \in Callers, Step(c)
      PROVE  \E f : Weighs(f, Holders(d)', est') /\ billed'[d] + f[Holders(d)'] <= ledger'[d]
  <2>1. CASE EnterScope(c) \/ LeaveScope(c) \/ (\E e \in Costs : Reserve(c, e)) \/ CheckPasses(c)
             \/ SpendBlocked(c) \/ InsertRaises(c) \/ CallNotBilled(c)
    <3>1. Holders(d)' = Holders(d) /\ \A h \in Holders(d) : est'[h] = est[h]
      BY <2>1 DEF EnterScope, LeaveScope, Reserve, CheckPasses, SpendBlocked, InsertRaises,
         CallNotBilled, BackToRun, Goto, Holders, TypeOK
    <3>2. billed' = billed /\ ledger' = ledger
      BY <2>1 DEF EnterScope, LeaveScope, Reserve, CheckPasses, SpendBlocked, InsertRaises, CallNotBilled
    <3>3. QED
      BY <3>1, <3>2, CoverStays
  <2>2. CASE InsertRow(c) /\ day = d
    <3>1. Holders(d)' = Holders(d) \cup {c} /\ c \notin Holders(d) /\ est' = est
      BY <2>2 DEF InsertRow, Goto, Holders, TypeOK
    <3>2. billed' = billed /\ ledger'[d] = ledger[d] + est[c]
      BY <2>2 DEF InsertRow, TypeOK
    <3>3. PICK f : Weighs(f, Holders(d), est) /\ billed[d] + f[Holders(d)] <= ledger[d]
      BY DEF CoverInv
    <3>4. est \in [Callers -> Nat] /\ est[c] \in Nat /\ Holders(d) \in SUBSET Callers
      BY EstRange DEF Holders, TypeOK
    <3> DEFINE g == Joined(f, Holders(d), c, est[c])
    <3>5. Weighs(g, Holders(d) \cup {c}, est) /\ g[Holders(d) \cup {c}] = f[Holders(d)] + est[c]
      BY <3>1, <3>3, <3>4, WeighJoin
    <3> HIDE DEF g
    <3>6. f[Holders(d)] \in Int /\ billed[d] \in Int /\ ledger[d] \in Int
      BY <3>3 DEF Weighs, TypeOK
    <3>7. billed[d] + g[Holders(d) \cup {c}] <= ledger[d] + est[c]
      BY <3>3, <3>4, <3>5, <3>6
    <3>8. QED
      BY <3>1, <3>2, <3>5, <3>7
  <2>3. CASE InsertRow(c) /\ day # d
    <3>1. Holders(d)' = Holders(d) /\ est' = est /\ billed' = billed /\ ledger'[d] = ledger[d]
      BY <2>3 DEF InsertRow, Goto, Holders, TypeOK
    <3>2. QED
      BY <3>1, CoverStays
  <2>4. CASE CallSucceeds(c) \/ CallMaybeBilled(c) \/ Settle(c) \/ SettleRaises(c)
             \/ (Crash(c) /\ pc[c] \in {"calling", "settle"})
    <3>1. pc[c] \in {"calling", "settle"} /\ rowDay[c] \in Days /\ est[c] \in Int /\ 0 <= est[c]
      BY <2>4, EstRange DEF CallSucceeds, CallMaybeBilled, Settle, SettleRaises, TypeOK
    <3>2. \A h \in Holders(d) \ {c} : est'[h] = est[h]
      BY <2>4 DEF CallSucceeds, CallMaybeBilled, Settle, SettleRaises, Crash, BackToRun, Holders, TypeOK
    <3>3. Holders(d)' = Holders(d) \ {c}
      BY <2>4 DEF CallSucceeds, CallMaybeBilled, Settle, SettleRaises, Crash, BackToRun, Goto, Holders, TypeOK
    <3>4. billed[d] \in Int /\ ledger[d] \in Int
      BY DEF TypeOK
    <3>5. CASE rowDay[c] = d
      <4>1. c \in Holders(d) /\ (\A h \in Holders(d) \ {c} : est'[h] = est[h])
        BY <3>1, <3>2, <3>5 DEF Holders
      <4>2. CASE Settle(c)
        <5>1. billed'[d] = billed[d] /\ ledger'[d] = ledger[d] - est[c] /\ ledger'[d] \in Int
          BY <3>1, <3>4, <3>5, <4>2 DEF Settle, TypeOK
        <5>2. billed'[d] \in Int /\ billed'[d] + ledger[d] <= billed[d] + ledger'[d] + est[c]
          BY <3>1, <3>4, <5>1
        <5>3. QED
          BY <3>3, <4>1, <5>1, <5>2, CoverLeaves
      <4>3. CASE ~Settle(c)
        <5>1. ledger'[d] = ledger[d]
          BY <2>4, <4>3 DEF CallSucceeds, CallMaybeBilled, SettleRaises, Crash
        <5>2. billed'[d] = billed[d] \/ billed'[d] = billed[d] + est[c]
          BY <2>4, <3>1, <3>4, <3>5, <4>3 DEF CallSucceeds, CallMaybeBilled, SettleRaises, Crash, Bill, TypeOK
        <5>3. QED
          BY <3>1, <3>2, <3>3, <3>4, <4>1, <5>1, <5>2, CoverLeaves
      <4>4. QED
        BY <4>2, <4>3
    <3>6. CASE rowDay[c] # d
      <4>1. c \notin Holders(d) /\ Holders(d)' = Holders(d)
        BY <3>3, <3>6 DEF Holders
      <4>2. billed'[d] = billed[d] /\ ledger'[d] = ledger[d]
        BY <2>4, <3>6 DEF CallSucceeds, CallMaybeBilled, Settle, SettleRaises, Crash, Bill, TypeOK
      <4>3. QED
        BY <3>2, <4>1, <4>2, CoverStays
    <3>7. QED
      BY <3>5, <3>6
  <2>5. CASE Crash(c) /\ pc[c] \notin {"calling", "settle"}
    <3>1. Holders(d)' = Holders(d) /\ (\A h \in Holders(d) : est'[h] = est[h])
          /\ billed' = billed /\ ledger' = ledger
      BY <2>5 DEF Crash, Goto, Holders, TypeOK
    <3>2. QED
      BY <3>1, CoverStays
  <2>6. QED
    BY <1>2, <2>1, <2>2, <2>3, <2>4, <2>5 DEF Step
<1>3. QED
  BY <1>1, <1>2 DEF Next

(* The ledger of a day never shows less than providers charged for it:     *)
(* whatever fails, the reservation stands before the call and is given     *)
(* back only where nothing was charged.                                    *)
THEOREM LedgerCoversBill == Spec => []ReservationCoversBill
<1>1. Init => CoverInv
  <2> SUFFICES ASSUME Init, NEW d \in Days
               PROVE  \E f : Weighs(f, Holders(d), est) /\ billed[d] + f[Holders(d)] <= ledger[d]
    BY DEF CoverInv
  <2>1. Holders(d) = {} /\ billed[d] = 0 /\ ledger[d] = 0
    BY DEF Init, Holders
  <2>2. Weighs(Nobody, {}, est) /\ Nobody[{}] = 0
    BY WeighNobody
  <2>3. QED
    BY <2>1, <2>2
<1>2. TypeOK /\ CoverInv => ReservationCoversBill
  <2> SUFFICES ASSUME TypeOK, CoverInv, NEW d \in Days PROVE billed[d] <= ledger[d]
    BY DEF ReservationCoversBill
  <2>1. PICK f : Weighs(f, Holders(d), est) /\ billed[d] + f[Holders(d)] <= ledger[d]
    BY DEF CoverInv
  <2>2. f[Holders(d)] \in Nat /\ billed[d] \in Int /\ ledger[d] \in Int
    BY <2>1 DEF Weighs, TypeOK
  <2>3. QED
    BY <2>1, <2>2
<1>3. QED
  BY <1>1, <1>2, CoverStep, SpendTypeOK, PTL DEF Spec

-----------------------------------------------------------------------------
(* The guards.                                                             *)

(* A set of callers after one caller has moved.                            *)
LEMMA OneCallerMoves ==
  ASSUME NEW T, IsFiniteSet(T), NEW c \in T, NEW A \in SUBSET T, NEW B \in SUBSET T, A \ {c} = B \ {c}
  PROVE  /\ Cardinality(A) \in Nat /\ Cardinality(B) \in Nat /\ Cardinality(T) \in Nat
         /\ Cardinality(A) <= Cardinality(T) /\ Cardinality(B) <= Cardinality(T)
         /\ c \in A /\ c \notin B => Cardinality(A) = Cardinality(B) + 1
         /\ c \notin A /\ c \in B => Cardinality(B) = Cardinality(A) + 1
         /\ (c \in A <=> c \in B) => A = B
<1>1. IsFiniteSet(A) /\ IsFiniteSet(B) /\ Cardinality(A) <= Cardinality(T) /\ Cardinality(B) <= Cardinality(T)
  BY FS_Subset
<1>2. Cardinality(A) \in Nat /\ Cardinality(B) \in Nat /\ Cardinality(T) \in Nat
  BY <1>1, FS_CardinalityType
<1>3. ASSUME c \in A, c \notin B PROVE Cardinality(A) = Cardinality(B) + 1
  <2>1. A = B \cup {c}
    BY <1>3
  <2>2. QED
    BY <1>1, <1>3, <2>1, FS_AddElement
<1>4. ASSUME c \notin A, c \in B PROVE Cardinality(B) = Cardinality(A) + 1
  <2>1. B = A \cup {c}
    BY <1>4
  <2>2. QED
    BY <1>1, <1>4, <2>1, FS_AddElement
<1>5. ASSUME c \in A <=> c \in B PROVE A = B
  BY <1>5
<1>6. QED
  BY <1>1, <1>2, <1>3, <1>4, <1>5

---------------------------------------------------------------------------
(* Apify.  The callers whose call is counted already, and those that were  *)
(* let through by the daily or the monthly budget.                         *)
Counted == {c \in ApifyCallers : apifyPc[c] = "call"}
Admitted == {c \in ApifyCallers : apifyPc[c] \in {"record", "call"}}
Fetched == {c \in ApifyCallers : apifyPc[c] \in {"record", "call"} \/ (apifyPc[c] = "check" /\ MonthFits(c))}

ApifyCrowd == Cardinality(ApifyCallers)
CarryOver == IF apifyDay = 0 THEN 0 ELSE ApifyCrowd

(* What today cost is in the ledger, or lost by a counted failure, or was  *)
(* recorded before midnight.                                               *)
LedgerCovers ==
  apifySpent[apifyDay] + Cardinality(Counted) <= apifyLedger[apifyDay] + ledgerFaults + CarryOver

(* Today stays within the budget, with the calls that were let through.    *)
TodayBounded ==
  apifySpent[apifyDay] + Cardinality(Admitted) <= ApifyDaily + ApifyCrowd - 1 + ledgerFaults + CarryOver

(* Other days: what is over is bounded, what is to come is empty.          *)
DaysBounded ==
  /\ \A d \in ApifyDays : d < apifyDay => apifySpent[d] <= ApifyDayLimit(d)
  /\ \A d \in ApifyDays : d > apifyDay => apifySpent[d] = 0 /\ apifyLedger[d] = 0 /\ apifyFigure[d] = 0

(* The figure of the month lags by what lags of today's.                   *)
MonthLags ==
  /\ monthSpent >= apifySpent[apifyDay]
  /\ monthSpent - monthFigure = apifySpent[apifyDay] - apifyFigure[apifyDay]

(* As long as the earlier days left something of the month's budget, today *)
(* can only add its own; from then on no new caller passes.                *)
MonthInv ==
  \/ monthSpent - apifySpent[apifyDay] < ApifyMonthly
  \/ monthSpent + Cardinality(Fetched) <= ApifyMonthly - 1 + ApifyDayLimit(1) + ApifyCrowd

ApifyInv == ApifyTypeOK /\ LedgerCovers /\ TodayBounded /\ DaysBounded /\ MonthLags /\ MonthInv

LEMMA CrowdFacts ==
  /\ IsFiniteSet(ApifyCallers) /\ ApifyCrowd \in Nat /\ ApifyCrowd >= 1
  /\ ApifyDaily \in Nat /\ ApifyMonthly \in Nat /\ MaxApifyDay \in Nat /\ MaxLedgerFaults \in Nat
<1>1. IsFiniteSet(ApifyCallers) /\ ApifyCallers # {}
  BY ApifyAssumption
<1>2. PICK c : c \in ApifyCallers
  BY <1>1
<1>3. ApifyCrowd \in Nat /\ Cardinality({c}) = 1 /\ Cardinality({c}) <= Cardinality(ApifyCallers)
  BY <1>1, <1>2, FS_CardinalityType, FS_Singleton, FS_Subset DEF ApifyCrowd
<1>4. QED
  BY <1>1, <1>3, ApifyAssumption DEF ApifyCrowd

LEMMA ApifyInitInv == ApifyInit => ApifyInv
<1>1. SUFFICES ASSUME ApifyInit PROVE ApifyInv
  OBVIOUS
<1>2. 0 \in ApifyDays /\ apifyDay = 0 /\ ledgerFaults = 0
  BY <1>1, CrowdFacts DEF ApifyInit, ApifyDays
<1>3. ApifyTypeOK
  BY <1>1, <1>2, CrowdFacts DEF ApifyInit, ApifyTypeOK
<1>4. Counted = {} /\ Admitted = {} /\ Fetched = {}
  BY <1>1 DEF ApifyInit, Counted, Admitted, Fetched
<1>5. Cardinality(Counted) = 0 /\ Cardinality(Admitted) = 0 /\ Cardinality(Fetched) = 0
  BY <1>4, FS_EmptySet
<1>6. apifySpent[0] = 0 /\ apifyLedger[0] = 0 /\ apifyFigure[0] = 0
  BY <1>1, <1>2 DEF ApifyInit
<1>7. LedgerCovers
  BY <1>2, <1>5, <1>6 DEF LedgerCovers, CarryOver
<1>8. TodayBounded
  BY <1>2, <1>5, <1>6, CrowdFacts DEF TodayBounded, CarryOver
<1>9. DaysBounded
  BY <1>1, <1>2 DEF ApifyInit, DaysBounded, ApifyDays
<1>10. MonthLags
  BY <1>1, <1>2, <1>6 DEF ApifyInit, MonthLags
<1>11. MonthInv
  <2>1. ApifyDayLimit(1) = ApifyDaily + ApifyCrowd - 1 + 0 + ApifyCrowd
    BY <1>2 DEF ApifyDayLimit, ApifyCrowd
  <2>2. monthSpent = 0
    BY <1>1 DEF ApifyInit
  <2>3. QED
    BY <1>5, <2>1, <2>2, CrowdFacts DEF MonthInv
<1>12. QED
  BY <1>3, <1>7, <1>8, <1>9, <1>10, <1>11 DEF ApifyInv

(* Who is counted, admitted and fetched after a step of caller c.          *)
LEMMA CallerMoves ==
  ASSUME ApifyTypeOK, NEW c \in ApifyCallers, NEW from, NEW to, ApifyGoto(c, from, to),
         \A x \in ApifyCallers \ {c} : seenMonth'[x] = seenMonth[x]
  PROVE  /\ apifyPc[c] = from /\ apifyPc'[c] = to
         /\ \A x \in ApifyCallers \ {c} : apifyPc'[x] = apifyPc[x]
         /\ Counted \ {c} = Counted' \ {c} /\ Admitted \ {c} = Admitted' \ {c} /\ Fetched \ {c} = Fetched' \ {c}
<1>1. apifyPc[c] = from /\ apifyPc'[c] = to /\ \A x \in ApifyCallers \ {c} : apifyPc'[x] = apifyPc[x]
  BY DEF ApifyGoto, ApifyTypeOK
<1>2. QED
  BY <1>1 DEF Counted, Admitted, Fetched, MonthFits

LEMMA CallerSets ==
  /\ Counted \in SUBSET ApifyCallers /\ Admitted \in SUBSET ApifyCallers /\ Fetched \in SUBSET ApifyCallers
  /\ Counted' \in SUBSET ApifyCallers /\ Admitted' \in SUBSET ApifyCallers /\ Fetched' \in SUBSET ApifyCallers
BY DEF Counted, Admitted, Fetched

LEMMA ApifyTypeStep == ASSUME ApifyTypeOK, ApifyNext PROVE ApifyTypeOK'
<1>1. CASE FigureCatchesUp
  <2>1. apifyFigure[apifyDay] + 1 \in Nat /\ apifyFigure[apifyDay] + 1 <= apifySpent[apifyDay]
    BY <1>1 DEF FigureCatchesUp, ApifyTypeOK
  <2>2. QED
    BY <1>1, <2>1 DEF FigureCatchesUp, ApifyTypeOK, apifySeen
<1>2. CASE ApifyMidnight
  <2>1. apifyDay' \in ApifyDays
    BY <1>2, CrowdFacts DEF ApifyMidnight, ApifyTypeOK, ApifyDays
  <2>2. QED
    BY <1>2, <2>1 DEF ApifyMidnight, ApifyTypeOK, apifySeen, apifyMonth
<1>3. ASSUME NEW c \in ApifyCallers, AskGuard(c) PROVE ApifyTypeOK'
  BY <1>3 DEF AskGuard, ApifyGoto, ApifyTypeOK, apifySeen, apifyMonth
<1>4. ASSUME NEW c \in ApifyCallers, FetchUsage(c) PROVE ApifyTypeOK'
  BY <1>4 DEF FetchUsage, ApifyGoto, ApifyTypeOK, apifyMonth
<1>5. ASSUME NEW c \in ApifyCallers, FetchBlocks(c) PROVE ApifyTypeOK'
  BY <1>5 DEF FetchBlocks, ApifyGoto, ApifyTypeOK, apifySeen, apifyMonth
<1>6. ASSUME NEW c \in ApifyCallers, CheckBudgets(c) PROVE ApifyTypeOK'
  <2>1. ledgerFaults' \in 0..MaxLedgerFaults
    BY <1>6, CrowdFacts DEF CheckBudgets, LedgerFault, ApifyTypeOK
  <2>2. apifyPc' \in [ApifyCallers -> {"idle", "fetch", "check", "record", "call"}]
    BY <1>6 DEF CheckBudgets, ApifyGoto, ApifyTypeOK
  <2>3. seenToday' \in [ApifyCallers -> Nat] /\ seenMonth' \in [ApifyCallers -> Nat]
    BY <1>6 DEF CheckBudgets, ApifyTypeOK
  <2>4. UNCHANGED <<combined, apifyDay, apifySpent, apifyFigure, apifyMonth, apifyLedger>>
    BY <1>6 DEF CheckBudgets
  <2>5. QED
    BY <2>1, <2>2, <2>3, <2>4 DEF ApifyTypeOK, apifyMonth
<1>7. ASSUME NEW c \in ApifyCallers, Record(c) PROVE ApifyTypeOK'
  BY <1>7 DEF Record, ApifyGoto, ApifyTypeOK, apifySeen, apifyMonth
<1>8. ASSUME NEW c \in ApifyCallers, RecordLost(c) PROVE ApifyTypeOK'
  <2>1. ledgerFaults' \in 0..MaxLedgerFaults
    BY <1>8, CrowdFacts DEF RecordLost, LedgerFault, ApifyTypeOK
  <2>2. QED
    BY <1>8, <2>1 DEF RecordLost, ApifyGoto, ApifyTypeOK, apifySeen, apifyMonth
<1>9. ASSUME NEW c \in ApifyCallers, ReserveBlocks(c) PROVE ApifyTypeOK'
  BY <1>9 DEF ReserveBlocks, ApifyGoto, ApifyTypeOK, apifySeen, apifyMonth
<1>10. ASSUME NEW c \in ApifyCallers, ApifyCall(c) PROVE ApifyTypeOK'
  <2>1. PICK cost \in 0..1 : /\ apifySpent' = [apifySpent EXCEPT ![apifyDay] = @ + cost]
                             /\ monthSpent' = monthSpent + cost
    BY <1>10 DEF ApifyCall
  <2>2. apifySpent' \in [ApifyDays -> Nat] /\ monthSpent' \in Nat
    BY <2>1 DEF ApifyTypeOK
  <2>3. \A d \in ApifyDays : apifyFigure[d] <= apifySpent'[d]
    BY <2>1 DEF ApifyTypeOK
  <2>4. apifyPc' \in [ApifyCallers -> {"idle", "fetch", "check", "record", "call"}]
    BY <1>10 DEF ApifyCall, ApifyGoto, ApifyTypeOK
  <2>5. QED
    BY <1>10, <2>2, <2>3, <2>4 DEF ApifyCall, ApifyTypeOK, apifySeen
<1>11. QED
  BY <1>1, <1>2, <1>3, <1>4, <1>5, <1>6, <1>7, <1>8, <1>9, <1>10 DEF ApifyNext

(* The figures of today, and of the days before, as numbers.               *)
LEMMA ApifyNumbers ==
  ASSUME ApifyTypeOK
  PROVE  /\ apifyDay \in Nat /\ ledgerFaults \in Nat /\ CarryOver \in Nat
         /\ apifySpent[apifyDay] \in Nat /\ apifyLedger[apifyDay] \in Nat /\ apifyFigure[apifyDay] \in Nat
         /\ monthSpent \in Nat /\ monthFigure \in Nat
         /\ Cardinality(Counted) \in Nat /\ Cardinality(Admitted) \in Nat /\ Cardinality(Fetched) \in Nat
         /\ Cardinality(Counted) <= ApifyCrowd /\ Cardinality(Admitted) <= ApifyCrowd
         /\ Cardinality(Fetched) <= ApifyCrowd
<1>1. CarryOver \in Nat /\ apifyDay \in Nat /\ ledgerFaults \in Nat
  BY CrowdFacts DEF CarryOver, ApifyTypeOK, ApifyDays
<1>2. /\ Cardinality(Counted) \in Nat /\ Cardinality(Admitted) \in Nat /\ Cardinality(Fetched) \in Nat
      /\ Cardinality(Counted) <= ApifyCrowd /\ Cardinality(Admitted) <= ApifyCrowd
      /\ Cardinality(Fetched) <= ApifyCrowd
  BY CrowdFacts, CallerSets, FS_Subset, FS_CardinalityType DEF ApifyCrowd
<1>3. QED
  BY <1>1, <1>2 DEF ApifyTypeOK

(* What a step of a caller does to the counts.                             *)
LEMMA CallerCounts ==
  ASSUME ApifyTypeOK, NEW c \in ApifyCallers, NEW from, NEW to, ApifyGoto(c, from, to),
         \A x \in ApifyCallers \ {c} : seenMonth'[x] = seenMonth[x]
  PROVE  /\ c \in Counted /\ c \notin Counted' => Cardinality(Counted) = Cardinality(Counted') + 1
         /\ c \notin Counted /\ c \in Counted' => Cardinality(Counted') = Cardinality(Counted) + 1
         /\ (c \in Counted <=> c \in Counted') => Cardinality(Counted') = Cardinality(Counted)
         /\ c \in Admitted /\ c \notin Admitted' => Cardinality(Admitted) = Cardinality(Admitted') + 1
         /\ c \notin Admitted /\ c \in Admitted' => Cardinality(Admitted') = Cardinality(Admitted) + 1
         /\ (c \in Admitted <=> c \in Admitted') => Cardinality(Admitted') = Cardinality(Admitted)
         /\ c \in Fetched /\ c \notin Fetched' => Cardinality(Fetched) = Cardinality(Fetched') + 1
         /\ c \notin Fetched /\ c \in Fetched' => Cardinality(Fetched') = Cardinality(Fetched) + 1
         /\ (c \in Fetched <=> c \in Fetched') => Cardinality(Fetched') = Cardinality(Fetched)
<1>1. Counted \ {c} = Counted' \ {c} /\ Admitted \ {c} = Admitted' \ {c} /\ Fetched \ {c} = Fetched' \ {c}
  BY CallerMoves
<1>2. IsFiniteSet(ApifyCallers)
  BY CrowdFacts
<1>3. /\ c \in Counted /\ c \notin Counted' => Cardinality(Counted) = Cardinality(Counted') + 1
      /\ c \notin Counted /\ c \in Counted' => Cardinality(Counted') = Cardinality(Counted) + 1
      /\ (c \in Counted <=> c \in Counted') => Counted' = Counted
  BY <1>1, <1>2, CallerSets, OneCallerMoves
<1>4. /\ c \in Admitted /\ c \notin Admitted' => Cardinality(Admitted) = Cardinality(Admitted') + 1
      /\ c \notin Admitted /\ c \in Admitted' => Cardinality(Admitted') = Cardinality(Admitted) + 1
      /\ (c \in Admitted <=> c \in Admitted') => Admitted' = Admitted
  BY <1>1, <1>2, CallerSets, OneCallerMoves
<1>5. /\ c \in Fetched /\ c \notin Fetched' => Cardinality(Fetched) = Cardinality(Fetched') + 1
      /\ c \notin Fetched /\ c \in Fetched' => Cardinality(Fetched') = Cardinality(Fetched) + 1
      /\ (c \in Fetched <=> c \in Fetched') => Fetched' = Fetched
  BY <1>1, <1>2, CallerSets, OneCallerMoves
<1>6. QED
  BY <1>3, <1>4, <1>5

(* The step of a caller, seen from the counters: what it adds to today's   *)
(* spending, to the ledger and to the faults, and which counts move.       *)
ApifyTurn(c, cost, entry, fault) ==
  /\ apifyDay' = apifyDay
  /\ apifySpent'[apifyDay] = apifySpent[apifyDay] + cost
  /\ apifyLedger'[apifyDay] = apifyLedger[apifyDay] + entry
  /\ ledgerFaults' = ledgerFaults + fault
  /\ monthSpent' = monthSpent + cost /\ monthFigure' = monthFigure /\ apifyFigure' = apifyFigure
  /\ \A d \in ApifyDays : d # apifyDay => apifySpent'[d] = apifySpent[d] /\ apifyLedger'[d] = apifyLedger[d]

(* The kinds of those steps, with the counts they move.                    *)
Rests(c) ==      \* asks, or is sent away
  /\ ApifyTurn(c, 0, 0, 0)
  /\ Cardinality(Counted') = Cardinality(Counted)
  /\ Cardinality(Admitted') <= Cardinality(Admitted)
  /\ Cardinality(Fetched') <= Cardinality(Fetched)
Fetches(c) ==
  /\ ApifyTurn(c, 0, 0, 0)
  /\ Cardinality(Counted') = Cardinality(Counted)
  /\ Cardinality(Admitted') = Cardinality(Admitted)
  /\ \/ Cardinality(Fetched') = Cardinality(Fetched)
     \/ Cardinality(Fetched') = Cardinality(Fetched) + 1 /\ monthFigure + 1 <= ApifyMonthly
Passes(c) ==
  /\ \/ ApifyTurn(c, 0, 0, 0) /\ apifyLedger[apifyDay] + 1 <= ApifyDaily
     \/ ApifyTurn(c, 0, 0, 1)
  /\ Cardinality(Counted') = Cardinality(Counted)
  /\ Cardinality(Admitted') = Cardinality(Admitted) + 1
  /\ Cardinality(Fetched') = Cardinality(Fetched)
Fails(c) ==      \* the budget is exceeded
  /\ ApifyTurn(c, 0, 0, 0) \/ ApifyTurn(c, 0, 0, 1)
  /\ Cardinality(Counted') = Cardinality(Counted)
  /\ Cardinality(Admitted') = Cardinality(Admitted)
  /\ Cardinality(Fetched') <= Cardinality(Fetched)
Records(c) ==
  /\ ApifyTurn(c, 0, 1, 0) \/ ApifyTurn(c, 0, 0, 1)
  /\ Cardinality(Counted') = Cardinality(Counted) + 1
  /\ Cardinality(Admitted') = Cardinality(Admitted)
  /\ Cardinality(Fetched') = Cardinality(Fetched)
Calls(c) ==
  /\ ApifyTurn(c, 0, 0, 0) \/ ApifyTurn(c, 1, 0, 0)
  /\ Cardinality(Counted) = Cardinality(Counted') + 1
  /\ Cardinality(Admitted) = Cardinality(Admitted') + 1
  /\ Cardinality(Fetched) = Cardinality(Fetched') + 1

LEMMA CallerKinds ==
  ASSUME ApifyTypeOK, NEW c \in ApifyCallers,
         \/ AskGuard(c) \/ FetchUsage(c) \/ FetchBlocks(c) \/ CheckBudgets(c)
         \/ Record(c) \/ RecordLost(c) \/ ReserveBlocks(c) \/ ApifyCall(c)
  PROVE  Rests(c) \/ Fetches(c) \/ Passes(c) \/ Fails(c) \/ Records(c) \/ Calls(c)
<1>0. /\ apifyDay \in ApifyDays /\ apifySpent[apifyDay] \in Nat /\ apifyLedger[apifyDay] \in Nat
      /\ ledgerFaults \in Nat /\ monthSpent \in Nat
      /\ Cardinality(Counted) \in Nat /\ Cardinality(Admitted) \in Nat /\ Cardinality(Fetched) \in Nat
      /\ seenMonth \in [ApifyCallers -> Nat] /\ seenToday \in [ApifyCallers -> Nat]
  BY ApifyNumbers DEF ApifyTypeOK
<1>a. UNCHANGED <<apifyDay, apifySpent, apifyFigure, apifyMonth, apifyLedger, ledgerFaults>> => ApifyTurn(c, 0, 0, 0)
  BY <1>0 DEF ApifyTurn, apifyMonth
<1>b. /\ UNCHANGED <<apifyDay, apifySpent, apifyFigure, apifyMonth, apifyLedger>>
      /\ ledgerFaults' = ledgerFaults + 1
      => ApifyTurn(c, 0, 0, 1)
  BY <1>0 DEF ApifyTurn, apifyMonth
<1>1. CASE AskGuard(c) \/ FetchBlocks(c)
  <2>1. ApifyTurn(c, 0, 0, 0) /\ UNCHANGED seenMonth
    BY <1>1, <1>a DEF AskGuard, FetchBlocks, apifySeen
  <2>2. PICK from \in {"idle", "fetch"}, to \in {"idle", "fetch"} : ApifyGoto(c, from, to)
    BY <1>1 DEF AskGuard, FetchBlocks
  <2>3. apifyPc[c] = from /\ apifyPc'[c] = to
    BY <2>1, <2>2, CallerMoves
  <2>4. /\ c \notin Counted /\ c \notin Counted' /\ c \notin Admitted /\ c \notin Admitted'
        /\ c \notin Fetched /\ c \notin Fetched'
    BY <2>2, <2>3 DEF Counted, Admitted, Fetched
  <2>5. /\ Cardinality(Counted') = Cardinality(Counted) /\ Cardinality(Admitted') = Cardinality(Admitted)
        /\ Cardinality(Fetched') = Cardinality(Fetched)
    BY <2>1, <2>2, <2>4, CallerCounts
  <2>6. QED
    BY <1>0, <2>1, <2>5 DEF Rests
<1>2. CASE FetchUsage(c)
  <2>1. /\ ApifyTurn(c, 0, 0, 0) /\ seenMonth'[c] = monthFigure
        /\ \A x \in ApifyCallers \ {c} : seenMonth'[x] = seenMonth[x]
    BY <1>0, <1>2, <1>a DEF FetchUsage
  <2>2. ApifyGoto(c, "fetch", "check")
    BY <1>2 DEF FetchUsage
  <2>3. apifyPc[c] = "fetch" /\ apifyPc'[c] = "check"
    BY <2>1, <2>2, CallerMoves
  <2>4. /\ c \notin Counted /\ c \notin Counted' /\ c \notin Admitted /\ c \notin Admitted'
        /\ c \notin Fetched /\ (c \in Fetched' => monthFigure + 1 <= ApifyMonthly)
    BY <2>1, <2>3 DEF Counted, Admitted, Fetched, MonthFits
  <2>5. /\ Cardinality(Counted') = Cardinality(Counted) /\ Cardinality(Admitted') = Cardinality(Admitted)
        /\ c \in Fetched' => Cardinality(Fetched') = Cardinality(Fetched) + 1
        /\ c \notin Fetched' => Cardinality(Fetched') = Cardinality(Fetched)
    BY <2>1, <2>2, <2>4, CallerCounts
  <2>6. QED
    BY <2>1, <2>4, <2>5 DEF Fetches
<1>3. CASE CheckBudgets(c)
  <2>1. PICK ledgerToday \in {apifyLedger[apifyDay], 0} :
          /\ \/ ledgerToday = apifyLedger[apifyDay] /\ UNCHANGED ledgerFaults
             \/ LedgerFault
          /\ ApifyGoto(c, "check",
               IF EffectiveToday(c, ledgerToday) + 1 <= ApifyDaily /\ MonthFits(c) THEN "record" ELSE "idle")
    BY <1>3 DEF CheckBudgets
  <2>2. /\ ApifyTurn(c, 0, 0, 0) \/ ApifyTurn(c, 0, 0, 1)
        /\ ApifyTurn(c, 0, 0, 1) \/ (ledgerToday = apifyLedger[apifyDay] /\ ApifyTurn(c, 0, 0, 0))
        /\ \A x \in ApifyCallers \ {c} : seenMonth'[x] = seenMonth[x]
    BY <1>0, <1>3, <1>a, <1>b, <2>1 DEF CheckBudgets, LedgerFault
  <2>3. CASE EffectiveToday(c, ledgerToday) + 1 <= ApifyDaily /\ MonthFits(c)
    <3>1. ApifyGoto(c, "check", "record")
      BY <2>1, <2>3
    <3>2. apifyPc[c] = "check" /\ apifyPc'[c] = "record"
      BY <2>2, <3>1, CallerMoves
    <3>3. /\ c \notin Counted /\ c \notin Counted' /\ c \notin Admitted /\ c \in Admitted'
          /\ c \in Fetched /\ c \in Fetched'
      BY <2>3, <3>2 DEF Counted, Admitted, Fetched
    <3>4. /\ Cardinality(Counted') = Cardinality(Counted)
          /\ Cardinality(Admitted') = Cardinality(Admitted) + 1
          /\ Cardinality(Fetched') = Cardinality(Fetched)
      BY <2>2, <3>1, <3>3, CallerCounts
    <3>5. ledgerToday + 1 <= ApifyDaily
      <4>1. ledgerToday \in Nat /\ seenToday[c] \in Nat
        BY <1>0
      <4>2. ledgerToday <= EffectiveToday(c, ledgerToday)
        BY <4>1 DEF EffectiveToday, MaxOf
      <4>3. EffectiveToday(c, ledgerToday) \in Nat
        BY <4>1 DEF EffectiveToday, MaxOf
      <4>4. QED
        BY <2>3, <4>1, <4>2, <4>3, CrowdFacts
    <3>6. QED
      BY <2>2, <3>4, <3>5 DEF Passes
  <2>4. CASE ~(EffectiveToday(c, ledgerToday) + 1 <= ApifyDaily /\ MonthFits(c))
    <3>1. ApifyGoto(c, "check", "idle")
      BY <2>1, <2>4
    <3>2. apifyPc[c] = "check" /\ apifyPc'[c] = "idle"
      BY <2>2, <3>1, CallerMoves
    <3>3. /\ c \notin Counted /\ c \notin Counted' /\ c \notin Admitted /\ c \notin Admitted'
          /\ c \notin Fetched'
      BY <3>2 DEF Counted, Admitted, Fetched
    <3>4. /\ Cardinality(Counted') = Cardinality(Counted)
          /\ Cardinality(Admitted') = Cardinality(Admitted)
          /\ Cardinality(Fetched') = Cardinality(Fetched) \/ Cardinality(Fetched) = Cardinality(Fetched') + 1
      BY <2>2, <3>1, <3>3, CallerCounts
    <3>5. Cardinality(Fetched') \in Nat
      BY CrowdFacts, CallerSets, FS_Subset, FS_CardinalityType
    <3>6. Cardinality(Fetched') <= Cardinality(Fetched)
      BY <1>0, <3>4, <3>5
    <3>7. QED
      BY <2>2, <3>4, <3>6 DEF Fails
  <2>5. QED
    BY <2>3, <2>4
<1>4. CASE Record(c) \/ RecordLost(c)
  <2>1. (ApifyTurn(c, 0, 1, 0) \/ ApifyTurn(c, 0, 0, 1)) /\ UNCHANGED seenMonth
    <3>1. CASE Record(c)
      BY <1>0, <3>1 DEF Record, ApifyTurn, apifyMonth, apifySeen, ApifyTypeOK
    <3>2. CASE RecordLost(c)
      BY <1>b, <3>2 DEF RecordLost, LedgerFault, apifySeen
    <3>3. QED
      BY <1>4, <3>1, <3>2
  <2>2. ApifyGoto(c, "record", "call")
    BY <1>4 DEF Record, RecordLost
  <2>3. apifyPc[c] = "record" /\ apifyPc'[c] = "call"
    BY <2>1, <2>2, CallerMoves
  <2>4. /\ c \notin Counted /\ c \in Counted' /\ c \in Admitted /\ c \in Admitted'
        /\ c \in Fetched /\ c \in Fetched'
    BY <2>3 DEF Counted, Admitted, Fetched
  <2>5. /\ Cardinality(Counted') = Cardinality(Counted) + 1 /\ Cardinality(Admitted') = Cardinality(Admitted)
        /\ Cardinality(Fetched') = Cardinality(Fetched)
    BY <2>1, <2>2, <2>4, CallerCounts
  <2>6. QED
    BY <2>1, <2>5 DEF Records
<1>5. CASE ReserveBlocks(c)
  <2>1. ApifyTurn(c, 0, 0, 0) /\ UNCHANGED seenMonth
    BY <1>5, <1>a DEF ReserveBlocks, apifySeen
  <2>2. ApifyGoto(c, "record", "idle")
    BY <1>5 DEF ReserveBlocks
  <2>3. apifyPc[c] = "record" /\ apifyPc'[c] = "idle"
    BY <2>1, <2>2, CallerMoves
  <2>4. /\ c \notin Counted /\ c \notin Counted' /\ c \in Admitted /\ c \notin Admitted'
        /\ c \in Fetched /\ c \notin Fetched'
    BY <2>3 DEF Counted, Admitted, Fetched
  <2>5. /\ Cardinality(Counted') = Cardinality(Counted) /\ Cardinality(Admitted) = Cardinality(Admitted') + 1
        /\ Cardinality(Fetched) = Cardinality(Fetched') + 1
    BY <2>1, <2>2, <2>4, CallerCounts
  <2>6. Cardinality(Admitted') \in Nat /\ Cardinality(Fetched') \in Nat
    BY CrowdFacts, CallerSets, FS_Subset, FS_CardinalityType
  <2>7. QED
    BY <2>1, <2>5, <2>6 DEF Rests
<1>6. CASE ApifyCall(c)
  <2>1. (ApifyTurn(c, 0, 0, 0) \/ ApifyTurn(c, 1, 0, 0)) /\ UNCHANGED seenMonth
    <3>1. PICK cost \in 0..1 : /\ apifySpent' = [apifySpent EXCEPT ![apifyDay] = @ + cost]
                               /\ monthSpent' = monthSpent + cost
      BY <1>6 DEF ApifyCall
    <3>2. ApifyTurn(c, cost, 0, 0)
      BY <1>0, <1>6, <3>1 DEF ApifyCall, ApifyTurn, ApifyTypeOK
    <3>3. cost = 0 \/ cost = 1
      BY <3>1
    <3>4. QED
      BY <1>6, <3>2, <3>3 DEF ApifyCall, apifySeen
  <2>2. ApifyGoto(c, "call", "idle")
    BY <1>6 DEF ApifyCall
  <2>3. apifyPc[c] = "call" /\ apifyPc'[c] = "idle"
    BY <2>1, <2>2, CallerMoves
  <2>4. /\ c \in Counted /\ c \notin Counted' /\ c \in Admitted /\ c \notin Admitted'
        /\ c \in Fetched /\ c \notin Fetched'
    BY <2>3 DEF Counted, Admitted, Fetched
  <2>5. /\ Cardinality(Counted) = Cardinality(Counted') + 1 /\ Cardinality(Admitted) = Cardinality(Admitted') + 1
        /\ Cardinality(Fetched) = Cardinality(Fetched') + 1
    BY <2>1, <2>2, <2>4, CallerCounts
  <2>6. QED
    BY <2>1, <2>5 DEF Calls
<1>7. QED
  BY <1>1, <1>2, <1>3, <1>4, <1>5, <1>6

LEMMA CallerStep ==
  ASSUME ApifyInv, NEW c \in ApifyCallers,
         Rests(c) \/ Fetches(c) \/ Passes(c) \/ Fails(c) \/ Records(c) \/ Calls(c)
  PROVE  LedgerCovers' /\ TodayBounded' /\ DaysBounded' /\ MonthLags' /\ MonthInv'
<1> DEFINE today == apifyDay
           s == apifySpent[apifyDay]  l == apifyLedger[apifyDay]  g == apifyFigure[apifyDay]
           f == ledgerFaults  m == monthSpent  w == monthFigure  k == ApifyCrowd  v == CarryOver
           a == Cardinality(Counted)  b == Cardinality(Admitted)  h == Cardinality(Fetched)
           a2 == Cardinality(Counted')  b2 == Cardinality(Admitted')  h2 == Cardinality(Fetched')
<1>1. /\ s \in Nat /\ l \in Nat /\ g \in Nat /\ f \in Nat /\ m \in Nat /\ w \in Nat /\ k \in Nat /\ v \in Nat
      /\ a \in Nat /\ b \in Nat /\ h \in Nat /\ a <= k /\ b <= k /\ h <= k
      /\ ApifyDaily \in Nat /\ ApifyMonthly \in Nat /\ k >= 1
  BY ApifyNumbers, CrowdFacts DEF ApifyInv
<1>2. a2 \in Nat /\ b2 \in Nat /\ h2 \in Nat /\ a2 <= k /\ b2 <= k /\ h2 <= k
  BY CrowdFacts, CallerSets, FS_Subset, FS_CardinalityType DEF ApifyCrowd
<1>3. /\ s + a <= l + f + v /\ s + b <= ApifyDaily + k - 1 + f + v
      /\ m >= s /\ m - w = s - g
      /\ m - s < ApifyMonthly \/ m + h <= ApifyMonthly - 1 + (ApifyDaily + k - 1 + f + k) + k
  BY DEF ApifyInv, LedgerCovers, TodayBounded, MonthLags, MonthInv, ApifyDayLimit, ApifyCrowd
<1>4. PICK x \in {0, 1}, y \in {0, 1}, z \in {0, 1} : ApifyTurn(c, x, y, z)
  BY DEF Rests, Fetches, Passes, Fails, Records, Calls
<1>5. /\ apifyDay' = today /\ apifySpent'[today] = s + x /\ apifyLedger'[today] = l + y /\ ledgerFaults' = f + z
      /\ monthSpent' = m + x /\ monthFigure' = w /\ apifyFigure' = apifyFigure /\ CarryOver' = v
      /\ apifyFigure'[today] = g
      /\ \A d \in ApifyDays : d # today => apifySpent'[d] = apifySpent[d] /\ apifyLedger'[d] = apifyLedger[d]
  BY <1>4 DEF ApifyTurn, CarryOver
<1>6. /\ s + x + a2 <= l + y + (f + z) + v
      /\ s + x + b2 <= ApifyDaily + k - 1 + (f + z) + v
      /\ m + x >= s + x /\ (m + x) - w = (s + x) - g
      /\ \/ (m + x) - (s + x) < ApifyMonthly
         \/ m + x + h2 <= ApifyMonthly - 1 + (ApifyDaily + k - 1 + (f + z) + k) + k
  <2>0. apifySpent'[today] = s + x /\ apifyLedger'[today] = l + y /\ ledgerFaults' = f + z
    BY <1>5
  <2>1. CASE Rests(c) \/ Fails(c)
    <3>1. x = 0 /\ y = 0 /\ a2 = a /\ b2 <= b /\ h2 <= h
      BY <1>1, <1>4, <2>0, <2>1 DEF Rests, Fails, ApifyTurn
    <3>2. z = 0 \/ z = 1
      OBVIOUS
    <3> HIDE DEF today, s, l, g, f, m, w, k, v, a, b, h, a2, b2, h2
    <3>3. QED
      BY <1>1, <1>2, <1>3, <3>1, <3>2
  <2>2. CASE Fetches(c)
    <3>1. /\ x = 0 /\ y = 0 /\ z = 0 /\ a2 = a /\ b2 = b
          /\ h2 = h \/ (h2 = h + 1 /\ w + 1 <= ApifyMonthly)
      BY <1>1, <1>4, <2>0, <2>2 DEF Fetches, ApifyTurn
    <3>2. g <= s
      BY DEF ApifyInv, ApifyTypeOK
    <3> HIDE DEF today, s, l, g, f, m, w, k, v, a, b, h, a2, b2, h2
    <3>3. w + 1 <= ApifyMonthly => m - s < ApifyMonthly
      BY <1>1, <1>3
    <3>4. QED
      BY <1>1, <1>2, <1>3, <3>1, <3>3
  <2>3. CASE Passes(c)
    <3>1. /\ x = 0 /\ y = 0 /\ a2 = a /\ b2 = b + 1 /\ h2 = h
          /\ z = 1 \/ (z = 0 /\ l + 1 <= ApifyDaily)
      BY <1>1, <1>4, <2>0, <2>3 DEF Passes, ApifyTurn
    <3>2. s <= l + f + v
      BY <1>1, <1>3
    <3> HIDE DEF today, s, l, g, f, m, w, k, v, a, b, h, a2, b2, h2
    <3>3. CASE z = 1
      BY <1>1, <1>2, <1>3, <3>1, <3>3
    <3>4. CASE z = 0 /\ l + 1 <= ApifyDaily
      BY <1>1, <1>2, <1>3, <3>1, <3>2, <3>4
    <3>5. QED
      BY <3>1, <3>3, <3>4
  <2>4. CASE Records(c)
    <3>1. /\ x = 0 /\ a2 = a + 1 /\ b2 = b /\ h2 = h
          /\ (y = 1 /\ z = 0) \/ (y = 0 /\ z = 1)
      BY <1>1, <1>4, <2>0, <2>4 DEF Records, ApifyTurn
    <3> HIDE DEF today, s, l, g, f, m, w, k, v, a, b, h, a2, b2, h2
    <3>2. CASE y = 1 /\ z = 0
      BY <1>1, <1>2, <1>3, <3>1, <3>2
    <3>3. CASE y = 0 /\ z = 1
      BY <1>1, <1>2, <1>3, <3>1, <3>3
    <3>4. QED
      BY <3>1, <3>2, <3>3
  <2>5. CASE Calls(c)
    <3>1. (x = 0 \/ x = 1) /\ y = 0 /\ z = 0 /\ a = a2 + 1 /\ b = b2 + 1 /\ h = h2 + 1
      BY <1>1, <1>4, <2>0, <2>5 DEF Calls, ApifyTurn
    <3> HIDE DEF today, s, l, g, f, m, w, k, v, a, b, h, a2, b2, h2
    <3>2. QED
      BY <1>1, <1>2, <1>3, <3>1
  <2>6. QED
    BY <2>1, <2>2, <2>3, <2>4, <2>5
<1>7. LedgerCovers'
  BY <1>5, <1>6 DEF LedgerCovers
<1>8. TodayBounded'
  BY <1>5, <1>6 DEF TodayBounded, ApifyCrowd
<1>9. MonthLags'
  BY <1>5, <1>6 DEF MonthLags
<1>10. MonthInv'
  BY <1>5, <1>6 DEF MonthInv, ApifyDayLimit, ApifyCrowd
<1>11. DaysBounded'
  <2>1. f + z >= f /\ f + z \in Nat
    BY <1>1
  <2>2. ASSUME NEW d \in ApifyDays, d < today PROVE apifySpent'[d] <= ApifyDayLimit(d)'
    <3>1. apifySpent'[d] = apifySpent[d] /\ apifySpent[d] <= ApifyDayLimit(d)
      BY <1>5, <2>2 DEF ApifyInv, DaysBounded, ApifyTypeOK, ApifyDays
    <3>2. PICK j \in Nat : j = (IF d = 0 THEN 0 ELSE Cardinality(ApifyCallers))
      BY <1>1 DEF ApifyCrowd
    <3>3. ApifyDayLimit(d) = ApifyDaily + k - 1 + f + j /\ ApifyDayLimit(d)' = ApifyDaily + k - 1 + (f + z) + j
      BY <1>5, <3>2 DEF ApifyDayLimit, ApifyCrowd
    <3>4. apifySpent[d] \in Nat
      BY DEF ApifyInv, ApifyTypeOK
    <3> HIDE DEF k, f
    <3>5. QED
      BY <1>1, <2>1, <3>1, <3>3, <3>4
  <2>3. ASSUME NEW d \in ApifyDays, d > today PROVE apifySpent'[d] = 0 /\ apifyLedger'[d] = 0 /\ apifyFigure'[d] = 0
    BY <1>5, <2>3 DEF ApifyInv, DaysBounded, ApifyTypeOK, ApifyDays
  <2>4. QED
    BY <1>5, <2>2, <2>3 DEF DaysBounded
<1>12. QED
  BY <1>7, <1>8, <1>9, <1>10, <1>11

LEMMA MidnightStep ==
  ASSUME ApifyInv, ApifyMidnight
  PROVE  LedgerCovers' /\ TodayBounded' /\ DaysBounded' /\ MonthLags' /\ MonthInv'
<1> DEFINE s == apifySpent[apifyDay]  f == ledgerFaults  m == monthSpent  k == ApifyCrowd  v == CarryOver
           a == Cardinality(Counted)  b == Cardinality(Admitted)  h == Cardinality(Fetched)
<1>1. /\ s \in Nat /\ f \in Nat /\ m \in Nat /\ k \in Nat /\ v \in Nat
      /\ a \in Nat /\ b \in Nat /\ h \in Nat /\ a <= k /\ b <= k /\ h <= k
      /\ ApifyDaily \in Nat /\ ApifyMonthly \in Nat /\ k >= 1 /\ v <= k /\ apifyDay \in Nat
  BY ApifyNumbers, CrowdFacts DEF ApifyInv, CarryOver
<1>2. apifyDay' = apifyDay + 1 /\ apifyDay + 1 \in ApifyDays /\ monthFigure = monthSpent
  BY <1>1, CrowdFacts DEF ApifyMidnight, ApifyInv, MonthLags, ApifyTypeOK, ApifyDays
<1>3. /\ UNCHANGED <<apifySpent, apifyFigure, apifyMonth, apifyLedger, ledgerFaults>>
      /\ Counted' = Counted /\ Admitted' = Admitted /\ Fetched' = Fetched
  BY DEF ApifyMidnight, apifySeen, Counted, Admitted, Fetched, MonthFits
<1>4. apifySpent[apifyDay + 1] = 0 /\ apifyLedger[apifyDay + 1] = 0 /\ apifyFigure[apifyDay + 1] = 0
  BY <1>1, <1>2 DEF ApifyInv, DaysBounded
<1>5. CarryOver' = k
  BY <1>1, <1>2 DEF CarryOver, ApifyCrowd
<1>6. s + b <= ApifyDaily + k - 1 + f + v
  BY DEF ApifyInv, TodayBounded
<1>7. LedgerCovers'
  <2>1. 0 + a <= 0 + f + k
    BY <1>1
  <2>2. QED
    BY <1>2, <1>3, <1>4, <1>5, <2>1 DEF LedgerCovers
<1>8. TodayBounded'
  <2>1. 0 + b <= ApifyDaily + k - 1 + f + k
    BY <1>1
  <2>2. QED
    BY <1>2, <1>3, <1>4, <1>5, <2>1 DEF TodayBounded, ApifyCrowd
<1>9. DaysBounded'
  <2>1. s <= ApifyDayLimit(apifyDay)
    <3>1. ApifyDayLimit(apifyDay) = ApifyDaily + k - 1 + f + v
      BY DEF ApifyDayLimit, ApifyCrowd, CarryOver
    <3> HIDE DEF s, f, m, k, v, a, b, h
    <3>2. QED
      BY <1>1, <1>6, <3>1
  <2>2. \A d \in ApifyDays : d < apifyDay + 1 => d < apifyDay \/ d = apifyDay
    BY <1>1 DEF ApifyDays
  <2>3. \A d \in ApifyDays : d > apifyDay + 1 => d > apifyDay
    BY <1>1 DEF ApifyDays
  <2>4. \A d : ApifyDayLimit(d)' = ApifyDayLimit(d)
    BY <1>3 DEF ApifyDayLimit
  <2>5. QED
    BY <1>2, <1>3, <2>1, <2>2, <2>3, <2>4 DEF DaysBounded, ApifyInv
<1>10. MonthLags'
  BY <1>1, <1>2, <1>3, <1>4 DEF MonthLags, apifyMonth
<1>11. MonthInv'
  <2>1. m - s < ApifyMonthly => m + h <= ApifyMonthly - 1 + (ApifyDaily + k - 1 + f + k) + k
    <3> HIDE DEF s, f, m, k, v, a, b, h
    <3>1. QED
      BY <1>1, <1>6
  <2>2. ApifyDayLimit(1)' = ApifyDaily + k - 1 + f + k /\ ApifyDayLimit(1) = ApifyDaily + k - 1 + f + k
    BY <1>3 DEF ApifyDayLimit, ApifyCrowd
  <2>3. m - s < ApifyMonthly \/ m + h <= ApifyMonthly - 1 + (ApifyDaily + k - 1 + f + k) + k
    BY <2>2 DEF ApifyInv, MonthInv
  <2>4. m + h <= ApifyMonthly - 1 + (ApifyDaily + k - 1 + f + k) + k
    BY <2>1, <2>3
  <2>5. monthSpent' = m /\ Cardinality(Fetched') = h
    BY <1>3 DEF apifyMonth
  <2>6. QED
    BY <2>2, <2>4, <2>5 DEF MonthInv, ApifyCrowd
<1>12. QED
  BY <1>7, <1>8, <1>9, <1>10, <1>11

LEMMA FigureStep ==
  ASSUME ApifyInv, FigureCatchesUp
  PROVE  LedgerCovers' /\ TodayBounded' /\ DaysBounded' /\ MonthLags' /\ MonthInv'
<1>1. /\ UNCHANGED <<apifyDay, apifySpent, monthSpent, apifyLedger, ledgerFaults>>
      /\ Counted' = Counted /\ Admitted' = Admitted /\ Fetched' = Fetched /\ CarryOver' = CarryOver
      /\ \A d : ApifyDayLimit(d)' = ApifyDayLimit(d)
  BY DEF FigureCatchesUp, apifySeen, Counted, Admitted, Fetched, MonthFits, CarryOver, ApifyDayLimit
<1>2. /\ apifyFigure'[apifyDay] = apifyFigure[apifyDay] + 1 /\ monthFigure' = monthFigure + 1
      /\ \A d \in ApifyDays : d # apifyDay => apifyFigure'[d] = apifyFigure[d]
  BY DEF FigureCatchesUp, ApifyInv, ApifyTypeOK
<1>3. LedgerCovers' /\ TodayBounded'
  BY <1>1 DEF ApifyInv, LedgerCovers, TodayBounded
<1>4. DaysBounded'
  <2>1. \A d \in ApifyDays : d > apifyDay => d # apifyDay
    BY DEF ApifyInv, ApifyTypeOK, ApifyDays
  <2>2. QED
    BY <1>1, <1>2, <2>1 DEF ApifyInv, DaysBounded
<1>5. MonthLags'
  <2>1. /\ apifySpent[apifyDay] \in Nat /\ apifyFigure[apifyDay] \in Nat /\ monthSpent \in Nat /\ monthFigure \in Nat
    BY ApifyNumbers DEF ApifyInv
  <2>2. PICK m \in Nat, w \in Nat, x \in Nat, y \in Nat :
          m = monthSpent /\ w = monthFigure /\ x = apifySpent[apifyDay] /\ y = apifyFigure[apifyDay]
    BY <2>1
  <2>3. m >= x /\ m - w = x - y
    BY <2>2 DEF ApifyInv, MonthLags
  <2>4. m - (w + 1) = x - (y + 1)
    BY <2>3
  <2>5. QED
    BY <1>1, <1>2, <2>2, <2>3, <2>4 DEF MonthLags
<1>6. MonthInv'
  BY <1>1 DEF ApifyInv, MonthInv
<1>7. QED
  BY <1>3, <1>4, <1>5, <1>6

LEMMA ApifyInvStep == ApifyInv /\ [ApifyNext]_apifyVars => ApifyInv'
<1>1. SUFFICES ASSUME ApifyInv, [ApifyNext]_apifyVars PROVE ApifyInv'
  OBVIOUS
<1>2. CASE UNCHANGED apifyVars
  <2>1. /\ UNCHANGED <<combined, apifyDay, apifySpent, apifyFigure, monthSpent, monthFigure, apifyLedger, apifyPc,
                       seenToday, seenMonth, ledgerFaults>>
    BY <1>2 DEF apifyVars, apifyMonth, apifySeen
  <2>2. /\ Counted' = Counted /\ Admitted' = Admitted /\ Fetched' = Fetched /\ CarryOver' = CarryOver
        /\ \A d : ApifyDayLimit(d)' = ApifyDayLimit(d)
    BY <2>1 DEF Counted, Admitted, Fetched, MonthFits, CarryOver, ApifyDayLimit
  <2>3. ApifyTypeOK'
    BY <1>1, <2>1 DEF ApifyInv, ApifyTypeOK
  <2>4. LedgerCovers' /\ TodayBounded' /\ DaysBounded' /\ MonthLags' /\ MonthInv'
    BY <1>1, <2>1, <2>2 DEF ApifyInv, LedgerCovers, TodayBounded, DaysBounded, MonthLags, MonthInv
  <2>5. QED
    BY <2>3, <2>4 DEF ApifyInv
<1>3. CASE ApifyNext
  <2>1. ApifyTypeOK'
    BY <1>1, <1>3, ApifyTypeStep DEF ApifyInv
  <2>2. LedgerCovers' /\ TodayBounded' /\ DaysBounded' /\ MonthLags' /\ MonthInv'
    BY <1>1, <1>3, FigureStep, MidnightStep, CallerKinds, CallerStep DEF ApifyInv, ApifyNext
  <2>3. QED
    BY <2>1, <2>2 DEF ApifyInv
<1>4. QED
  BY <1>1, <1>2, <1>3

LEMMA ApifySound == ApifyInv => ApifyTypeOK /\ ApifyDayBounded /\ ApifyMonthBounded
<1>1. SUFFICES ASSUME ApifyInv PROVE ApifyDayBounded /\ ApifyMonthBounded
  BY DEF ApifyInv
<1> DEFINE s == apifySpent[apifyDay]  f == ledgerFaults  m == monthSpent  k == ApifyCrowd  v == CarryOver
           b == Cardinality(Admitted)  h == Cardinality(Fetched)
<1>2. /\ s \in Nat /\ f \in Nat /\ m \in Nat /\ k \in Nat /\ v \in Nat /\ b \in Nat /\ h \in Nat
      /\ ApifyDaily \in Nat /\ ApifyMonthly \in Nat /\ k >= 1 /\ v <= k /\ apifyDay \in Nat
  BY <1>1, ApifyNumbers, CrowdFacts DEF ApifyInv, CarryOver
<1>3. s + b <= ApifyDaily + k - 1 + f + v
  BY <1>1 DEF ApifyInv, TodayBounded
<1>4. ApifyDayBounded
  <2>1. SUFFICES ASSUME NEW d \in ApifyDays PROVE apifySpent[d] <= ApifyDayLimit(d)
    BY DEF ApifyDayBounded
  <2>2. d \in Nat
    BY DEF ApifyDays
  <2>3. CASE d < apifyDay
    BY <1>1, <2>3 DEF ApifyInv, DaysBounded
  <2>4. CASE d = apifyDay
    <3>1. ApifyDayLimit(d) = ApifyDaily + k - 1 + f + v
      BY <2>4 DEF ApifyDayLimit, ApifyCrowd, CarryOver
    <3>2. s <= ApifyDaily + k - 1 + f + v
      <4> HIDE DEF s, f, m, k, v, b, h
      <4>1. QED
        BY <1>2, <1>3
    <3>3. QED
      BY <2>4, <3>1, <3>2
  <2>5. CASE d > apifyDay
    <3>1. apifySpent[d] = 0
      BY <1>1, <2>5 DEF ApifyInv, DaysBounded
    <3>2. PICK j \in Nat : j = (IF d = 0 THEN 0 ELSE Cardinality(ApifyCallers))
      BY <1>2 DEF ApifyCrowd
    <3>3. ApifyDayLimit(d) = ApifyDaily + k - 1 + f + j
      BY <3>2 DEF ApifyDayLimit, ApifyCrowd
    <3>4. 0 <= ApifyDaily + k - 1 + f + j
      <4> HIDE DEF f, k
      <4>1. QED
        BY <1>2
    <3>5. QED
      BY <3>1, <3>3, <3>4
  <2>6. QED
    BY <1>2, <2>2, <2>3, <2>4, <2>5
<1>5. ApifyMonthBounded
  <2>1. ApifyDayLimit(1) = ApifyDaily + k - 1 + f + k
    BY DEF ApifyDayLimit, ApifyCrowd
  <2>2. m - s < ApifyMonthly \/ m + h <= ApifyMonthly - 1 + (ApifyDaily + k - 1 + f + k) + k
    BY <1>1, <2>1 DEF ApifyInv, MonthInv
  <2>3. m <= ApifyMonthly + (ApifyDaily + k - 1 + f + k) + k
    <3> HIDE DEF s, f, m, k, v, b, h
    <3>1. QED
      BY <1>2, <1>3, <2>2
  <2>4. QED
    BY <2>1, <2>3 DEF ApifyMonthBounded, ApifyCrowd
<1>6. QED
  BY <1>4, <1>5

(* However the figure of Apify lags, whoever calls, and whatever the ledger *)
(* loses: a day and a month pass their budgets by the callers that were     *)
(* let through already, and by no more.                                     *)
THEOREM ApifyBudgetsHold == ApifySpec => [](ApifyTypeOK /\ ApifyDayBounded /\ ApifyMonthBounded)
<1>1. ApifySpec => []ApifyInv
  BY ApifyInitInv, ApifyInvStep, PTL DEF ApifySpec
<1>2. QED
  BY <1>1, ApifySound, PTL

---------------------------------------------------------------------------
(* Deepline.                                                               *)
DeeplineCrowd == Cardinality(DeeplineCallers)
PerBaseline == DeeplineBudget + DeeplineCrowd - 1
Allowance(n) == PerBaseline * n

(* The callers whose call today will be paid from what their check saw.    *)
Promised == {c \in DeeplineCallers :
               /\ checkDay[c] = deeplineDay
               /\ \/ deeplinePc[c] = "call"
                  \/ deeplinePc[c] = "decide" /\ ~NeedsBaseline(c) /\ SpentSince(c) < DeeplineBudget}

(* The callers that found no row and may insert one.                       *)
RowLess == {c \in DeeplineCallers : deeplinePc[c] \in {"balance", "decide"} /\ rowRead[c] = 0}

(* What today may still spend, less the balance there is: spending leaves  *)
(* it as it is, and within a day it never falls.                           *)
Slack == topUps + Allowance(baselineCount[deeplineDay]) + carried[deeplineDay]
           - (balance + deeplineSpent[deeplineDay])

RowsFit == Len(baselines) + Cardinality(RowLess) <= DeeplineCrowd

(* Nothing is dated later than today.                                      *)
DatesPast ==
  /\ \A i \in DOMAIN baselines : baselines[i].date <= deeplineDay
  /\ \A c \in DeeplineCallers : checkDay[c] <= deeplineDay /\ valueRead[c].date <= deeplineDay

(* A baseline of today, in a row or in a caller's hands, and a balance a   *)
(* caller fetched today, are not too low to be compared with.              *)
RowsHonest == \A i \in DOMAIN baselines : baselines[i].date = deeplineDay => PerBaseline <= baselines[i].amount + Slack
ReadingsHonest == \A c \in DeeplineCallers :
  rowRead[c] # 0 /\ valueRead[c].date = deeplineDay => PerBaseline <= valueRead[c].amount + Slack
BalancesHonest == \A c \in DeeplineCallers :
  deeplinePc[c] = "decide" /\ checkDay[c] = deeplineDay => 0 <= balanceRead[c] + Slack

TodayKept == Cardinality(Promised) <= Slack + balance

OtherDays ==
  /\ \A d \in DeeplineDays : d < deeplineDay =>
       deeplineSpent[d] <= Allowance(baselineCount[d]) + carried[d] + topUps
  /\ \A d \in DeeplineDays : d > deeplineDay => deeplineSpent[d] = 0 /\ baselineCount[d] = 0 /\ carried[d] = 0

DeeplineInv ==
  DeeplineTypeOK /\ RowsFit /\ DatesPast /\ RowsHonest /\ ReadingsHonest /\ BalancesHonest /\ TodayKept /\ OtherDays

LEMMA DeeplineConstants ==
  /\ IsFiniteSet(DeeplineCallers) /\ DeeplineCrowd \in Nat /\ PerBaseline \in Nat
  /\ DeeplineBudget \in Nat /\ DeeplineBudget >= 1 /\ OpeningBalance \in Nat /\ MaxDeeplineDay \in Nat /\ MaxTopUps \in Nat
  /\ \A c \in DeeplineCallers : DeeplineCrowd >= 1
<1>1. IsFiniteSet(DeeplineCallers) /\ DeeplineCrowd \in Nat
  BY DeeplineAssumption, FS_CardinalityType DEF DeeplineCrowd
<1>2. ASSUME NEW c \in DeeplineCallers PROVE DeeplineCrowd >= 1
  <2>1. Cardinality({c}) = 1 /\ Cardinality({c}) <= Cardinality(DeeplineCallers)
    BY <1>1, FS_Singleton, FS_Subset
  <2>2. QED
    BY <1>1, <2>1 DEF DeeplineCrowd
<1>3. QED
  BY <1>1, <1>2, DeeplineAssumption DEF PerBaseline

LEMMA AllowanceFacts ==
  /\ Allowance(0) = 0
  /\ \A n \in Nat : Allowance(n) \in Nat /\ Allowance(n + 1) = Allowance(n) + PerBaseline
<1>1. \A k, n \in Nat : k * 0 = 0 /\ k * n \in Nat /\ k * (n + 1) = k * n + k
  OBVIOUS
<1>2. QED
  BY <1>1, DeeplineConstants DEF Allowance

LEMMA DeeplineSets ==
  /\ Promised \in SUBSET DeeplineCallers /\ Promised' \in SUBSET DeeplineCallers
  /\ RowLess \in SUBSET DeeplineCallers /\ RowLess' \in SUBSET DeeplineCallers
BY DEF Promised, RowLess

LEMMA DeeplineCounts ==
  /\ Cardinality(Promised) \in Nat /\ Cardinality(Promised) <= DeeplineCrowd
  /\ Cardinality(Promised') \in Nat /\ Cardinality(Promised') <= DeeplineCrowd
  /\ Cardinality(RowLess) \in Nat /\ Cardinality(RowLess) <= DeeplineCrowd
  /\ Cardinality(RowLess') \in Nat /\ Cardinality(RowLess') <= DeeplineCrowd
BY DeeplineConstants, DeeplineSets, FS_Subset, FS_CardinalityType DEF DeeplineCrowd

LEMMA DeeplineInitInv == DeeplineInit => DeeplineInv
<1>1. SUFFICES ASSUME DeeplineInit PROVE DeeplineInv
  OBVIOUS
<1>2. 0 \in DeeplineDays /\ deeplineDay = 0 /\ topUps = 0 /\ balance = OpeningBalance /\ baselines = <<>>
  BY <1>1, DeeplineConstants DEF DeeplineInit, DeeplineDays
<1>3. deeplineSpent[0] = 0 /\ baselineCount[0] = 0 /\ carried[0] = 0
  BY <1>1, <1>2 DEF DeeplineInit
<1>4. Promised = {} /\ RowLess = {} /\ Cardinality(Promised) = 0 /\ Cardinality(RowLess) = 0
  <2>1. Promised = {} /\ RowLess = {}
    BY <1>1 DEF DeeplineInit, Promised, RowLess
  <2>2. QED
    BY <2>1, FS_EmptySet
<1>5. Slack + balance = 0
  <2>1. Slack = 0 + 0 + 0 - (OpeningBalance + 0)
    BY <1>2, <1>3, AllowanceFacts DEF Slack
  <2>2. QED
    BY <1>2, <2>1, DeeplineConstants
<1>6. Len(baselines) = 0
  BY <1>2
<1>7. DeeplineTypeOK
  <2>1. baselines \in Seq(Baseline) /\ Len(baselines) <= Cardinality(DeeplineCallers)
    BY <1>2, <1>6, DeeplineConstants DEF DeeplineCrowd
  <2>2. NoBaseline \in Baseline
    BY <1>2 DEF NoBaseline, Baseline
  <2>3. /\ deeplinePc \in [DeeplineCallers -> {"idle", "row", "balance", "decide", "call"}]
        /\ checkDay \in [DeeplineCallers -> DeeplineDays]
        /\ rowRead \in [DeeplineCallers -> Nat] /\ \A c \in DeeplineCallers : rowRead[c] <= Len(baselines)
        /\ valueRead \in [DeeplineCallers -> Baseline]
        /\ balanceRead \in [DeeplineCallers -> Nat]
    BY <1>1, <1>2, <1>6, <2>2 DEF DeeplineInit
  <2>4. /\ deeplineSpent \in [DeeplineDays -> Nat] /\ baselineCount \in [DeeplineDays -> Nat]
        /\ carried \in [DeeplineDays -> Nat] /\ topUps \in 0..MaxTopUps
    BY <1>1, <1>2, DeeplineConstants DEF DeeplineInit
  <2>5. QED
    BY <1>2, <2>1, <2>3, <2>4, DeeplineConstants DEF DeeplineTypeOK
<1>8. RowsFit
  BY <1>4, <1>6, DeeplineConstants DEF RowsFit
<1>9. DatesPast
  BY <1>1, <1>2 DEF DeeplineInit, DatesPast, NoBaseline
<1>10. RowsHonest /\ ReadingsHonest /\ BalancesHonest
  BY <1>1, <1>2 DEF DeeplineInit, RowsHonest, ReadingsHonest, BalancesHonest
<1>11. TodayKept
  BY <1>4, <1>5 DEF TodayKept
<1>12. OtherDays
  BY <1>1, <1>2 DEF DeeplineInit, OtherDays, DeeplineDays
<1>13. QED
  BY <1>7, <1>8, <1>9, <1>10, <1>11, <1>12 DEF DeeplineInv

(* The figures of today, as numbers.                                       *)
LEMMA DeeplineNumbers ==
  ASSUME DeeplineTypeOK
  PROVE  /\ deeplineDay \in DeeplineDays /\ deeplineDay \in Nat /\ balance \in Nat /\ topUps \in Nat
         /\ deeplineSpent[deeplineDay] \in Nat /\ baselineCount[deeplineDay] \in Nat /\ carried[deeplineDay] \in Nat
         /\ Allowance(baselineCount[deeplineDay]) \in Nat /\ Slack \in Int
<1>1. /\ deeplineDay \in DeeplineDays /\ deeplineDay \in Nat /\ balance \in Nat /\ topUps \in Nat
      /\ deeplineSpent[deeplineDay] \in Nat /\ baselineCount[deeplineDay] \in Nat /\ carried[deeplineDay] \in Nat
  BY DeeplineConstants DEF DeeplineTypeOK, DeeplineDays
<1>2. Allowance(baselineCount[deeplineDay]) \in Nat
  BY <1>1, AllowanceFacts
<1>3. Slack \in Int
  BY <1>1, <1>2 DEF Slack
<1>4. QED
  BY <1>1, <1>2, <1>3

(* One caller moves, today stays today.                                    *)
OnlyMoves(c) ==
  /\ deeplineDay' = deeplineDay
  /\ \A x \in DeeplineCallers \ {c} :
       /\ deeplinePc'[x] = deeplinePc[x] /\ checkDay'[x] = checkDay[x] /\ rowRead'[x] = rowRead[x]
       /\ valueRead'[x] = valueRead[x] /\ balanceRead'[x] = balanceRead[x]

DeeplineAct(c) ==
  \/ StartCheck(c) \/ ReadBaseline(c) \/ FetchBalance(c) \/ FetchFails(c)
  \/ WriteBaseline(c) \/ PassCheck(c) \/ BudgetExceeded(c) \/ DeeplineCall(c)

LEMMA OneMoves ==
  ASSUME DeeplineTypeOK, NEW c \in DeeplineCallers, DeeplineAct(c)
  PROVE  OnlyMoves(c)
<1>1. CASE StartCheck(c)
  BY <1>1 DEF StartCheck, DeeplineGoto, OnlyMoves, DeeplineTypeOK
<1>2. CASE ReadBaseline(c)
  BY <1>2 DEF ReadBaseline, DeeplineGoto, OnlyMoves, DeeplineTypeOK
<1>3. CASE FetchBalance(c)
  BY <1>3 DEF FetchBalance, DeeplineGoto, OnlyMoves, DeeplineTypeOK
<1>4. CASE FetchFails(c)
  BY <1>4 DEF FetchFails, ForgetReadings, DeeplineGoto, OnlyMoves, DeeplineTypeOK
<1>5. CASE WriteBaseline(c)
  BY <1>5 DEF WriteBaseline, ForgetReadings, DeeplineGoto, OnlyMoves, DeeplineTypeOK
<1>6. CASE PassCheck(c)
  BY <1>6 DEF PassCheck, ForgetReadings, DeeplineGoto, OnlyMoves, DeeplineTypeOK
<1>7. CASE BudgetExceeded(c)
  BY <1>7 DEF BudgetExceeded, ForgetReadings, DeeplineGoto, OnlyMoves, DeeplineTypeOK
<1>8. CASE DeeplineCall(c)
  BY <1>8 DEF DeeplineCall, DeeplineGoto, OnlyMoves, DeeplineTypeOK
<1>9. QED
  BY <1>1, <1>2, <1>3, <1>4, <1>5, <1>6, <1>7, <1>8 DEF DeeplineAct

LEMMA SetsMove ==
  ASSUME NEW c \in DeeplineCallers, OnlyMoves(c)
  PROVE  /\ c \in Promised /\ c \notin Promised' => Cardinality(Promised) = Cardinality(Promised') + 1
         /\ c \notin Promised /\ c \in Promised' => Cardinality(Promised') = Cardinality(Promised) + 1
         /\ (c \in Promised <=> c \in Promised') => Cardinality(Promised') = Cardinality(Promised)
         /\ c \in RowLess /\ c \notin RowLess' => Cardinality(RowLess) = Cardinality(RowLess') + 1
         /\ c \notin RowLess /\ c \in RowLess' => Cardinality(RowLess') = Cardinality(RowLess) + 1
         /\ (c \in RowLess <=> c \in RowLess') => Cardinality(RowLess') = Cardinality(RowLess)
<1>1. Promised \ {c} = Promised' \ {c} /\ RowLess \ {c} = RowLess' \ {c}
  BY DEF OnlyMoves, Promised, RowLess, NeedsBaseline, SpentSince
<1>2. /\ c \in Promised /\ c \notin Promised' => Cardinality(Promised) = Cardinality(Promised') + 1
      /\ c \notin Promised /\ c \in Promised' => Cardinality(Promised') = Cardinality(Promised) + 1
      /\ (c \in Promised <=> c \in Promised') => Promised' = Promised
  BY <1>1, DeeplineConstants, DeeplineSets, OneCallerMoves
<1>3. /\ c \in RowLess /\ c \notin RowLess' => Cardinality(RowLess) = Cardinality(RowLess') + 1
      /\ c \notin RowLess /\ c \in RowLess' => Cardinality(RowLess') = Cardinality(RowLess) + 1
      /\ (c \in RowLess <=> c \in RowLess') => RowLess' = RowLess
  BY <1>1, DeeplineConstants, DeeplineSets, OneCallerMoves
<1>4. QED
  BY <1>2, <1>3

(* A caller that stays out of RowLess, or leaves it, keeps the rows fitting. *)
LEMMA RowLessShrinks ==
  ASSUME NEW c \in DeeplineCallers, OnlyMoves(c), c \in RowLess' => c \in RowLess
  PROVE  Cardinality(RowLess') <= Cardinality(RowLess)
BY SetsMove, DeeplineCounts

LEMMA RowsFitStep ==
  ASSUME DeeplineTypeOK, RowsFit, NEW c \in DeeplineCallers, DeeplineAct(c)
  PROVE  RowsFit' /\ baselines' \in Seq(Baseline) /\ Len(baselines') >= Len(baselines)
<1>1. /\ baselines \in Seq(Baseline) /\ Len(baselines) \in Nat /\ OnlyMoves(c)
      /\ Len(baselines) + Cardinality(RowLess) <= DeeplineCrowd
  BY OneMoves DEF DeeplineTypeOK, RowsFit
<1>2. ASSUME baselines' = baselines, c \in RowLess' => c \in RowLess
      PROVE  RowsFit' /\ baselines' \in Seq(Baseline) /\ Len(baselines') >= Len(baselines)
  <2>1. Cardinality(RowLess') <= Cardinality(RowLess)
    BY <1>1, <1>2, RowLessShrinks
  <2>2. Len(baselines) + Cardinality(RowLess') <= DeeplineCrowd
    BY <1>1, <2>1, DeeplineCounts, DeeplineConstants
  <2>3. QED
    BY <1>1, <1>2, <2>2 DEF RowsFit
<1>3. CASE StartCheck(c) \/ FetchFails(c) \/ PassCheck(c) \/ BudgetExceeded(c) \/ DeeplineCall(c)
  <2>1. baselines' = baselines /\ deeplinePc'[c] \in {"row", "idle", "call"}
    BY <1>3 DEF StartCheck, FetchFails, PassCheck, BudgetExceeded, DeeplineCall, DeeplineGoto, DeeplineTypeOK
  <2>2. c \notin RowLess'
    BY <2>1 DEF RowLess
  <2>3. QED
    BY <1>2, <2>1, <2>2
<1>4. CASE FetchBalance(c)
  <2>1. /\ baselines' = baselines /\ rowRead' = rowRead
        /\ deeplinePc[c] = "balance"
    BY <1>4 DEF FetchBalance, DeeplineGoto
  <2>2. c \in RowLess' => c \in RowLess
    BY <2>1 DEF RowLess
  <2>3. QED
    BY <1>2, <2>1, <2>2
<1>5. CASE ReadBaseline(c)
  <2>1. baselines' = baselines
    BY <1>5 DEF ReadBaseline
  <2>2. CASE baselines = <<>>
    <3>1. Len(baselines) = 0
      BY <2>2
    <3>2. Len(baselines) + Cardinality(RowLess') <= DeeplineCrowd
      BY <3>1, DeeplineCounts
    <3>3. QED
      BY <1>1, <2>1, <3>2 DEF RowsFit
  <2>3. CASE baselines # <<>>
    <3>1. PICK i \in DOMAIN baselines : rowRead' = [rowRead EXCEPT ![c] = i]
      BY <1>5, <2>3 DEF ReadBaseline
    <3>2. rowRead'[c] # 0
      BY <1>1, <3>1 DEF DeeplineTypeOK
    <3>3. c \notin RowLess'
      BY <3>2 DEF RowLess
    <3>4. QED
      BY <1>2, <2>1, <3>3
  <2>4. QED
    BY <2>2, <2>3
<1>6. CASE WriteBaseline(c)
  <2>1. deeplinePc[c] = "decide" /\ deeplinePc'[c] = "call"
    BY <1>6 DEF WriteBaseline, DeeplineGoto, DeeplineTypeOK
  <2>2. PICK new : /\ new = [date |-> checkDay[c], amount |-> balanceRead[c]]
                   /\ baselines' = IF rowRead[c] = 0 THEN Append(baselines, new)
                                                      ELSE [baselines EXCEPT ![rowRead[c]] = new]
    BY <1>6 DEF WriteBaseline
  <2>3. new \in Baseline
    BY <2>2 DEF DeeplineTypeOK, Baseline
  <2>4. c \notin RowLess'
    BY <2>1 DEF RowLess
  <2>5. CASE rowRead[c] = 0
    <3>1. c \in RowLess
      BY <2>1, <2>5 DEF RowLess
    <3>2. Cardinality(RowLess) = Cardinality(RowLess') + 1
      BY <1>1, <2>4, <3>1, SetsMove
    <3>3. baselines' \in Seq(Baseline) /\ Len(baselines') = Len(baselines) + 1
      BY <1>1, <2>2, <2>3, <2>5
    <3>4. (Len(baselines) + 1) + Cardinality(RowLess') <= DeeplineCrowd
      BY <1>1, <3>2, DeeplineCounts, DeeplineConstants
    <3>5. QED
      BY <1>1, <3>3, <3>4 DEF RowsFit
  <2>6. CASE rowRead[c] # 0
    <3>1. rowRead[c] \in 1..Len(baselines)
      BY <1>1, <2>6 DEF DeeplineTypeOK
    <3>2. baselines' \in Seq(Baseline) /\ Len(baselines') = Len(baselines)
      BY <1>1, <2>2, <2>3, <2>6, <3>1
    <3>3. Cardinality(RowLess') <= Cardinality(RowLess)
      BY <1>1, <2>4, RowLessShrinks
    <3>4. Len(baselines) + Cardinality(RowLess') <= DeeplineCrowd
      BY <1>1, <3>3, DeeplineCounts, DeeplineConstants
    <3>5. QED
      BY <1>1, <3>2, <3>4 DEF RowsFit
  <2>7. QED
    BY <2>5, <2>6
<1>7. QED
  BY <1>3, <1>4, <1>5, <1>6 DEF DeeplineAct

LEMMA DeeplineTypeStep ==
  ASSUME DeeplineTypeOK, RowsFit, NEW c \in DeeplineCallers, DeeplineAct(c)
  PROVE  DeeplineTypeOK'
<1> DEFINE Pcs == {"idle", "row", "balance", "decide", "call"}
<1>1. baselines' \in Seq(Baseline) /\ Len(baselines') >= Len(baselines) /\ RowsFit' /\ baselines \in Seq(Baseline)
  BY RowsFitStep DEF DeeplineTypeOK
<1>2. Len(baselines') \in Nat /\ Len(baselines) \in Nat
  BY <1>1
<1>3. Len(baselines') <= Cardinality(DeeplineCallers)
  <2>1. Len(baselines') + Cardinality(RowLess') <= DeeplineCrowd
    BY <1>1 DEF RowsFit
  <2>2. Len(baselines') <= DeeplineCrowd
    BY <1>2, <2>1, DeeplineCounts, DeeplineConstants
  <2>3. QED
    BY <2>2 DEF DeeplineCrowd
<1>4. NoBaseline \in Baseline /\ 0 \in DeeplineDays
  BY DeeplineConstants DEF NoBaseline, Baseline, DeeplineDays
<1>5. deeplinePc' \in [DeeplineCallers -> Pcs]
  BY DEF DeeplineAct, DeeplineGoto, StartCheck, ReadBaseline, FetchBalance, FetchFails, WriteBaseline, PassCheck,
         BudgetExceeded, DeeplineCall, DeeplineTypeOK
<1>6. checkDay' \in [DeeplineCallers -> DeeplineDays]
  BY <1>4 DEF DeeplineAct, StartCheck, ReadBaseline, FetchBalance, FetchFails, WriteBaseline, PassCheck,
         BudgetExceeded, DeeplineCall, DeeplineTypeOK
<1>7. rowRead' \in [DeeplineCallers -> Nat] /\ \A x \in DeeplineCallers : rowRead'[x] <= Len(baselines')
  <2>1. ASSUME rowRead' = rowRead PROVE rowRead' \in [DeeplineCallers -> Nat] /\ \A x \in DeeplineCallers : rowRead'[x] <= Len(baselines')
    BY <1>1, <1>2, <2>1 DEF DeeplineTypeOK
  <2>2. ASSUME NEW i \in Nat, i <= Len(baselines'), rowRead' = [rowRead EXCEPT ![c] = i]
        PROVE  rowRead' \in [DeeplineCallers -> Nat] /\ \A x \in DeeplineCallers : rowRead'[x] <= Len(baselines')
    BY <1>1, <1>2, <2>2 DEF DeeplineTypeOK
  <2>3. CASE ReadBaseline(c)
    <3>1. CASE baselines = <<>>
      BY <2>1, <2>3, <3>1 DEF ReadBaseline
    <3>2. CASE baselines # <<>>
      <4>1. PICK i \in DOMAIN baselines : rowRead' = [rowRead EXCEPT ![c] = i]
        BY <2>3, <3>2 DEF ReadBaseline
      <4>2. i \in Nat /\ i <= Len(baselines')
        BY <1>1, <1>2, <4>1
      <4>3. QED
        BY <2>2, <4>1, <4>2
    <3>3. QED
      BY <3>1, <3>2
  <2>4. CASE StartCheck(c) \/ FetchBalance(c) \/ DeeplineCall(c)
    BY <2>1, <2>4 DEF StartCheck, FetchBalance, DeeplineCall
  <2>5. CASE FetchFails(c) \/ WriteBaseline(c) \/ PassCheck(c) \/ BudgetExceeded(c)
    <3>1. rowRead' = [rowRead EXCEPT ![c] = 0] /\ 0 \in Nat /\ 0 <= Len(baselines')
      BY <1>2, <2>5 DEF FetchFails, WriteBaseline, PassCheck, BudgetExceeded, ForgetReadings
    <3>2. QED
      BY <2>2, <3>1
  <2>6. QED
    BY <2>3, <2>4, <2>5 DEF DeeplineAct
<1>8. valueRead' \in [DeeplineCallers -> Baseline]
  <2>1. CASE ReadBaseline(c)
    <3>1. \A i \in DOMAIN baselines : baselines[i] \in Baseline
      BY <1>1
    <3>2. QED
      BY <2>1, <3>1 DEF ReadBaseline, DeeplineTypeOK
  <2>2. CASE ~ReadBaseline(c)
    BY <1>4, <2>2 DEF DeeplineAct, ForgetReadings, StartCheck, FetchBalance, FetchFails, WriteBaseline, PassCheck,
         BudgetExceeded, DeeplineCall, DeeplineTypeOK
  <2>3. QED
    BY <2>1, <2>2
<1>9. balanceRead' \in [DeeplineCallers -> Nat]
  <2>1. balanceRead \in [DeeplineCallers -> Nat] /\ balance \in Nat
    BY DEF DeeplineTypeOK
  <2>2. balanceRead' = balanceRead \/ \E b \in Nat : balanceRead' = [balanceRead EXCEPT ![c] = b]
    BY <2>1 DEF DeeplineAct, ForgetReadings, StartCheck, ReadBaseline, FetchBalance, FetchFails, WriteBaseline,
                    PassCheck, BudgetExceeded, DeeplineCall
  <2>3. QED
    BY <2>1, <2>2
<1>10. deeplineDay' \in DeeplineDays /\ topUps' \in 0..MaxTopUps
  BY DEF DeeplineAct, StartCheck, ReadBaseline, FetchBalance, FetchFails, WriteBaseline, PassCheck,
         BudgetExceeded, DeeplineCall, DeeplineTypeOK
<1>11. balance' \in Nat /\ deeplineSpent' \in [DeeplineDays -> Nat]
       /\ carried' \in [DeeplineDays -> Nat]
  <2>1. CASE DeeplineCall(c)
    <3>1. CASE UNCHANGED <<balance, deeplineSpent, carried>>
      BY <3>1 DEF DeeplineTypeOK
    <3>2. CASE /\ balance > 0
               /\ balance' = balance - 1
               /\ deeplineSpent' = [deeplineSpent EXCEPT ![deeplineDay] = @ + 1]
               /\ carried' = [carried EXCEPT ![deeplineDay] = @ + (IF checkDay[c] = deeplineDay THEN 0 ELSE 1)]
      BY <3>2 DEF DeeplineTypeOK
    <3>3. QED
      BY <2>1, <3>1, <3>2 DEF DeeplineCall
  <2>2. CASE ~DeeplineCall(c)
    BY <2>2 DEF DeeplineAct, StartCheck, ReadBaseline, FetchBalance, FetchFails, WriteBaseline, PassCheck,
         BudgetExceeded, DeeplineTypeOK
  <2>3. QED
    BY <2>1, <2>2
<1>12. baselineCount' \in [DeeplineDays -> Nat]
  <2>1. baselineCount \in [DeeplineDays -> Nat]
    BY DEF DeeplineTypeOK
  <2>2. baselineCount' = baselineCount \/ baselineCount' = [baselineCount EXCEPT ![checkDay[c]] = @ + 1]
    BY DEF DeeplineAct, StartCheck, ReadBaseline, FetchBalance, FetchFails, WriteBaseline, PassCheck,
           BudgetExceeded, DeeplineCall
  <2>3. QED
    BY <2>1, <2>2
<1>13. QED
  BY <1>1, <1>3, <1>5, <1>6, <1>7, <1>8, <1>9, <1>10, <1>11, <1>12 DEF DeeplineTypeOK

LEMMA DatesStep ==
  ASSUME DeeplineTypeOK, DatesPast, NEW c \in DeeplineCallers, DeeplineAct(c)
  PROVE  DatesPast'
<1>1. /\ OnlyMoves(c) /\ baselines \in Seq(Baseline) /\ deeplineDay \in Nat
      /\ checkDay \in [DeeplineCallers -> DeeplineDays] /\ valueRead \in [DeeplineCallers -> Baseline]
  BY OneMoves, DeeplineNumbers DEF DeeplineTypeOK
<1>2. checkDay'[c] <= deeplineDay
  <2>1. checkDay'[c] \in {checkDay[c], deeplineDay, 0}
    BY <1>1 DEF DeeplineAct, StartCheck, ReadBaseline, FetchBalance, FetchFails, WriteBaseline, PassCheck,
         BudgetExceeded, DeeplineCall
  <2>2. QED
    BY <1>1, <2>1 DEF DatesPast
<1>3. valueRead'[c].date <= deeplineDay
  <2>1. CASE ReadBaseline(c)
    <3>1. valueRead' = valueRead \/ \E i \in DOMAIN baselines : valueRead' = [valueRead EXCEPT ![c] = baselines[i]]
      BY <2>1 DEF ReadBaseline
    <3>2. QED
      BY <1>1, <3>1 DEF DatesPast
  <2>2. CASE ~ReadBaseline(c)
    <3>1. valueRead'[c] = valueRead[c] \/ valueRead'[c] = NoBaseline
      BY <1>1, <2>2 DEF DeeplineAct, ForgetReadings, StartCheck, FetchBalance, FetchFails, WriteBaseline, PassCheck,
         BudgetExceeded, DeeplineCall
    <3>2. QED
      BY <1>1, <3>1 DEF DatesPast, NoBaseline
  <2>3. QED
    BY <2>1, <2>2
<1>4. \A i \in DOMAIN baselines' : baselines'[i].date <= deeplineDay
  <2>1. CASE baselines' = baselines
    BY <2>1 DEF DatesPast
  <2>2. CASE WriteBaseline(c)
    <3>1. PICK new : /\ new = [date |-> checkDay[c], amount |-> balanceRead[c]]
                     /\ baselines' = IF rowRead[c] = 0 THEN Append(baselines, new)
                                                        ELSE [baselines EXCEPT ![rowRead[c]] = new]
      BY <2>2 DEF WriteBaseline
    <3>2. new \in Baseline /\ new.date = checkDay[c] /\ new.date <= deeplineDay
      BY <1>1, <3>1 DEF Baseline, DatesPast, DeeplineTypeOK
    <3>3. \A i \in DOMAIN baselines' : baselines'[i] = new \/ (i \in DOMAIN baselines /\ baselines'[i] = baselines[i])
      <4>1. CASE rowRead[c] = 0
        BY <1>1, <3>1, <3>2, <4>1
      <4>2. CASE rowRead[c] # 0
        BY <1>1, <3>1, <3>2, <4>2
      <4>3. QED
        BY <4>1, <4>2
    <3>4. QED
      BY <3>2, <3>3 DEF DatesPast
  <2>3. QED
    BY <2>1, <2>2 DEF DeeplineAct, StartCheck, ReadBaseline, FetchBalance, FetchFails, PassCheck,
         BudgetExceeded, DeeplineCall
<1>5. QED
  BY <1>1, <1>2, <1>3, <1>4 DEF DatesPast, OnlyMoves

(* Within a day the slack never falls, and a payment leaves it as it is.   *)
LEMMA SlackStep ==
  ASSUME DeeplineTypeOK, NEW c \in DeeplineCallers, DeeplineAct(c)
  PROVE  /\ Slack' \in Int /\ Slack' >= Slack /\ balance' \in Int
         /\ \/ balance' = balance
            \/ /\ deeplinePc[c] = "call" /\ deeplinePc'[c] = "idle" /\ balance' = balance - 1
               /\ checkDay[c] # deeplineDay => Slack' = Slack + 1
         /\ WriteBaseline(c) /\ checkDay[c] = deeplineDay => Slack' = Slack + PerBaseline
<1>1. /\ deeplineDay \in DeeplineDays /\ deeplineDay \in Nat /\ balance \in Nat /\ topUps \in Nat
      /\ deeplineSpent[deeplineDay] \in Nat /\ baselineCount[deeplineDay] \in Nat /\ carried[deeplineDay] \in Nat
      /\ Allowance(baselineCount[deeplineDay]) \in Nat /\ Slack \in Int /\ PerBaseline \in Nat
  BY DeeplineNumbers, DeeplineConstants
<1>2. CASE UNCHANGED <<deeplineDay, balance, deeplineSpent, baselineCount, carried, topUps>> /\ ~WriteBaseline(c)
  <2>1. Slack' = Slack
    BY <1>2 DEF Slack
  <2>2. QED
    BY <1>1, <1>2, <2>1
<1>3. CASE WriteBaseline(c)
  <2>1. /\ UNCHANGED <<deeplineDay, balance, deeplineSpent, carried, topUps>>
        /\ checkDay[c] = deeplineDay => baselineCount'[deeplineDay] = baselineCount[deeplineDay] + 1
        /\ checkDay[c] # deeplineDay => baselineCount'[deeplineDay] = baselineCount[deeplineDay]
    BY <1>1, <1>3 DEF WriteBaseline, DeeplineTypeOK
  <2>2. CASE checkDay[c] = deeplineDay
    <3>1. PICK n \in Nat : n = baselineCount[deeplineDay] /\ Allowance(n) \in Nat /\ Allowance(n + 1) = Allowance(n) + PerBaseline
      BY <1>1, AllowanceFacts
    <3>2. PICK a \in Nat, u \in Nat, r \in Nat, b \in Nat, s \in Nat, p \in Nat :
            /\ a = Allowance(n) /\ u = topUps /\ r = carried[deeplineDay] /\ b = balance
            /\ s = deeplineSpent[deeplineDay] /\ p = PerBaseline
      BY <1>1, <3>1
    <3>3. Slack = u + a + r - (b + s) /\ Slack' = u + (a + p) + r - (b + s)
      BY <2>1, <2>2, <3>1, <3>2 DEF Slack
    <3>4. Slack' = Slack + p /\ Slack' >= Slack /\ Slack' \in Int
      BY <3>3
    <3>5. QED
      BY <1>1, <2>1, <3>2, <3>4
  <2>3. CASE checkDay[c] # deeplineDay
    <3>1. Slack' = Slack
      BY <2>1, <2>3 DEF Slack
    <3>2. QED
      BY <1>1, <2>1, <2>3, <3>1
  <2>4. QED
    BY <2>2, <2>3
<1>4. CASE DeeplineCall(c)
  <2>1. /\ deeplinePc[c] = "call" /\ deeplinePc'[c] = "idle" /\ UNCHANGED <<deeplineDay, baselineCount, topUps>>
        /\ ~WriteBaseline(c)
    BY <1>4 DEF DeeplineCall, DeeplineGoto, WriteBaseline, DeeplineTypeOK
  <2>2. CASE UNCHANGED <<balance, deeplineSpent, carried>>
    BY <1>2, <2>1, <2>2
  <2>3. CASE /\ balance > 0
             /\ balance' = balance - 1
             /\ deeplineSpent' = [deeplineSpent EXCEPT ![deeplineDay] = @ + 1]
             /\ carried' = [carried EXCEPT ![deeplineDay] = @ + (IF checkDay[c] = deeplineDay THEN 0 ELSE 1)]
    <3>1. PICK e \in {0, 1} : e = IF checkDay[c] = deeplineDay THEN 0 ELSE 1
      OBVIOUS
    <3>2. /\ deeplineSpent'[deeplineDay] = deeplineSpent[deeplineDay] + 1
          /\ carried'[deeplineDay] = carried[deeplineDay] + e
      BY <1>1, <2>3, <3>1 DEF DeeplineTypeOK
    <3>3. PICK a \in Nat, u \in Nat, r \in Nat, b \in Nat, s \in Nat :
            /\ a = Allowance(baselineCount[deeplineDay]) /\ u = topUps /\ r = carried[deeplineDay] /\ b = balance
            /\ s = deeplineSpent[deeplineDay]
      BY <1>1
    <3>4. Slack = u + a + r - (b + s) /\ Slack' = u + a + (r + e) - ((b - 1) + (s + 1))
      BY <2>1, <2>3, <3>2, <3>3 DEF Slack
    <3>5. Slack' = Slack + e /\ Slack' >= Slack /\ Slack' \in Int
      BY <3>4
    <3>6. QED
      BY <1>1, <2>1, <2>3, <3>1, <3>5
  <2>4. QED
    BY <1>4, <2>2, <2>3 DEF DeeplineCall
<1>5. QED
  BY <1>2, <1>3, <1>4 DEF DeeplineAct, StartCheck, ReadBaseline, FetchBalance, FetchFails, PassCheck, BudgetExceeded

(* Who is promised a call after a step of caller c.                        *)
LEMMA PromisedStep ==
  ASSUME DeeplineTypeOK, NEW c \in DeeplineCallers, DeeplineAct(c)
  PROVE  \/ c \in Promised' => c \in Promised
         \/ FetchBalance(c) /\ ~NeedsBaseline(c)' /\ SpentSince(c)' < DeeplineBudget /\ checkDay[c] = deeplineDay
         \/ WriteBaseline(c) /\ checkDay[c] = deeplineDay
<1>1. CASE StartCheck(c) \/ ReadBaseline(c) \/ FetchFails(c) \/ BudgetExceeded(c) \/ DeeplineCall(c)
  <2>1. deeplinePc'[c] \in {"row", "balance", "idle"}
    BY <1>1 DEF StartCheck, ReadBaseline, FetchFails, BudgetExceeded, DeeplineCall, DeeplineGoto, DeeplineTypeOK
  <2>2. c \notin Promised'
    BY <2>1 DEF Promised
  <2>3. QED
    BY <2>2
<1>2. CASE FetchBalance(c)
  <2>1. deeplinePc'[c] = "decide" /\ checkDay' = checkDay /\ deeplineDay' = deeplineDay
    BY <1>2 DEF FetchBalance, DeeplineGoto, DeeplineTypeOK
  <2>2. QED
    BY <1>2, <2>1 DEF Promised
<1>3. CASE WriteBaseline(c) \/ PassCheck(c)
  <2>1. deeplinePc[c] = "decide" /\ checkDay' = checkDay /\ deeplineDay' = deeplineDay
    BY <1>3 DEF WriteBaseline, PassCheck, DeeplineGoto
  <2>2. PassCheck(c) /\ checkDay[c] = deeplineDay => c \in Promised
    BY <2>1 DEF Promised, PassCheck
  <2>3. checkDay[c] # deeplineDay => c \notin Promised'
    BY <2>1 DEF Promised
  <2>4. QED
    BY <1>3, <2>2, <2>3
<1>4. QED
  BY <1>1, <1>2, <1>3 DEF DeeplineAct

LEMMA TodayStep ==
  ASSUME DeeplineInv, NEW c \in DeeplineCallers, DeeplineAct(c)
  PROVE  TodayKept'
<1>1. /\ OnlyMoves(c) /\ Slack \in Int /\ Slack' \in Int /\ Slack' >= Slack /\ balance \in Nat
      /\ Cardinality(Promised) <= Slack + balance
  BY OneMoves, SlackStep, DeeplineNumbers DEF DeeplineInv, TodayKept
<1>2. PICK p \in Nat, q \in Nat : p = Cardinality(Promised) /\ q = Cardinality(Promised') /\ p <= DeeplineCrowd /\ q <= DeeplineCrowd
  BY DeeplineCounts
<1>3. /\ c \in Promised /\ c \notin Promised' => p = q + 1
      /\ c \notin Promised /\ c \in Promised' => q = p + 1
      /\ (c \in Promised <=> c \in Promised') => q = p
  BY <1>1, <1>2, SetsMove
<1>4. q <= p + 1
  BY <1>2, <1>3
<1>5. p <= Slack + balance
  BY <1>1, <1>2
<1>6. q <= Slack' + balance'
  <2>1. CASE balance' # balance
    <3>1. /\ deeplinePc[c] = "call" /\ deeplinePc'[c] = "idle" /\ balance' = balance - 1
          /\ checkDay[c] # deeplineDay => Slack' = Slack + 1
      BY <2>1, SlackStep DEF DeeplineInv
    <3>2. c \notin Promised'
      BY <3>1 DEF Promised
    <3>3. CASE checkDay[c] = deeplineDay
      <4>1. c \in Promised
        BY <3>1, <3>3 DEF Promised
      <4>2. p = q + 1
        BY <1>3, <3>2, <4>1
      <4>3. QED
        BY <1>1, <1>2, <1>5, <3>1, <4>2
    <3>4. CASE checkDay[c] # deeplineDay
      <4>1. c \notin Promised
        BY <3>4 DEF Promised
      <4>2. p = q
        BY <1>3, <3>2, <4>1
      <4>3. QED
        BY <1>1, <1>2, <1>5, <3>1, <3>4, <4>2
    <3>5. QED
      BY <3>3, <3>4
  <2>2. CASE balance' = balance /\ (c \in Promised' => c \in Promised)
    <3>1. q <= p
      BY <1>2, <1>3, <2>2
    <3>2. QED
      BY <1>1, <1>2, <1>5, <2>2, <3>1
  <2>3. CASE balance' = balance /\ WriteBaseline(c) /\ checkDay[c] = deeplineDay
    <3>1. Slack' = Slack + PerBaseline
      BY <2>3, SlackStep DEF DeeplineInv
    <3>2. PerBaseline >= 1 /\ PerBaseline \in Nat
      BY DeeplineConstants DEF PerBaseline
    <3>3. QED
      BY <1>1, <1>2, <1>4, <1>5, <2>3, <3>1, <3>2
  <2>4. CASE /\ balance' = balance
             /\ FetchBalance(c) /\ ~NeedsBaseline(c)' /\ SpentSince(c)' < DeeplineBudget /\ checkDay[c] = deeplineDay
    <3>1. /\ balanceRead'[c] = balance /\ valueRead' = valueRead /\ rowRead' = rowRead /\ checkDay' = checkDay
          /\ valueRead[c] \in Baseline
      BY <2>4 DEF FetchBalance, DeeplineInv, DeeplineTypeOK
    <3>2. rowRead[c] # 0 /\ valueRead[c].date = deeplineDay
      BY <2>4, <3>1 DEF NeedsBaseline
    <3>3. PICK a \in Nat : a = valueRead[c].amount /\ PerBaseline <= a + Slack
      BY <3>1, <3>2 DEF DeeplineInv, ReadingsHonest, Baseline
    <3>4. (IF a > balance THEN a - balance ELSE 0) < DeeplineBudget
      BY <2>4, <3>1, <3>3 DEF SpentSince
    <3>5. a <= balance + (DeeplineBudget - 1)
      BY <1>1, <3>3, <3>4, DeeplineConstants
    <3>6. DeeplineBudget + DeeplineCrowd - 1 <= a + Slack
      BY <3>3 DEF PerBaseline
    <3>7. DeeplineCrowd <= Slack + balance
      BY <1>1, <3>3, <3>5, <3>6, DeeplineConstants
    <3>8. QED
      BY <1>1, <1>2, <2>4, <3>7, DeeplineConstants
  <2>5. QED
    BY <2>1, <2>2, <2>3, <2>4, PromisedStep DEF DeeplineInv
<1>7. QED
  BY <1>2, <1>6 DEF TodayKept

LEMMA HonestStep ==
  ASSUME DeeplineInv, NEW c \in DeeplineCallers, DeeplineAct(c)
  PROVE  RowsHonest' /\ ReadingsHonest' /\ BalancesHonest'
<1>1. /\ OnlyMoves(c) /\ Slack \in Int /\ Slack' \in Int /\ Slack' >= Slack /\ balance \in Nat /\ deeplineDay' = deeplineDay
      /\ PerBaseline \in Nat /\ baselines \in Seq(Baseline)
  BY OneMoves, SlackStep, DeeplineNumbers, DeeplineConstants DEF DeeplineInv, OnlyMoves, DeeplineTypeOK
<1>2. \A p, a \in Nat : p <= a + Slack => p <= a + Slack'
  <2>1. \A s, t \in Int, p, a \in Nat : t >= s => (p <= a + s => p <= a + t)
    OBVIOUS
  <2>2. QED
    BY <1>1, <2>1
<1>3. RowsHonest'
  <2>1. ASSUME NEW i \in DOMAIN baselines', baselines'[i].date = deeplineDay
        PROVE  PerBaseline <= baselines'[i].amount + Slack'
    <3>1. CASE i \in DOMAIN baselines /\ baselines'[i] = baselines[i]
      <4>1. PerBaseline <= baselines[i].amount + Slack
        BY <1>1, <2>1, <3>1 DEF DeeplineInv, RowsHonest
      <4>2. baselines[i] \in Baseline
        BY <1>1, <3>1
      <4>3. baselines[i].amount \in Nat
        BY <4>2 DEF Baseline
      <4>4. QED
        BY <1>1, <1>2, <3>1, <4>1, <4>3
    <3>2. CASE WriteBaseline(c) /\ baselines'[i] = [date |-> checkDay[c], amount |-> balanceRead[c]]
      <4>1. checkDay[c] = deeplineDay /\ deeplinePc[c] = "decide" /\ balanceRead[c] \in Nat
        BY <2>1, <3>2 DEF WriteBaseline, DeeplineGoto, DeeplineInv, DeeplineTypeOK
      <4>2. Slack' = Slack + PerBaseline
        BY <3>2, <4>1, SlackStep DEF DeeplineInv
      <4>3. 0 <= balanceRead[c] + Slack
        BY <4>1 DEF DeeplineInv, BalancesHonest
      <4>4. PerBaseline <= balanceRead[c] + Slack'
        BY <1>1, <4>1, <4>2, <4>3
      <4>5. QED
        BY <3>2, <4>4
    <3>3. CASE WriteBaseline(c)
      <4>1. PICK new : /\ new = [date |-> checkDay[c], amount |-> balanceRead[c]]
                       /\ baselines' = IF rowRead[c] = 0 THEN Append(baselines, new)
                                                          ELSE [baselines EXCEPT ![rowRead[c]] = new]
        BY <3>3 DEF WriteBaseline
      <4>2. new \in Baseline
        BY <4>1 DEF Baseline, DeeplineInv, DeeplineTypeOK
      <4>3. baselines'[i] = new \/ (i \in DOMAIN baselines /\ baselines'[i] = baselines[i])
        <5>1. CASE rowRead[c] = 0
          BY <1>1, <2>1, <4>1, <4>2, <5>1
        <5>2. CASE rowRead[c] # 0
          BY <1>1, <2>1, <4>1, <4>2, <5>2
        <5>3. QED
          BY <5>1, <5>2
      <4>4. QED
        BY <3>1, <3>2, <3>3, <4>1, <4>3
    <3>4. CASE ~WriteBaseline(c)
      <4>1. baselines' = baselines
        BY <3>4 DEF DeeplineAct, StartCheck, ReadBaseline, FetchBalance, FetchFails, PassCheck,
           BudgetExceeded, DeeplineCall
      <4>2. QED
        BY <2>1, <3>1, <4>1
    <3>5. QED
      BY <3>3, <3>4
  <2>2. PerBaseline' = PerBaseline
    BY DEF PerBaseline, DeeplineCrowd
  <2>3. QED
    BY <1>1, <2>1, <2>2 DEF RowsHonest
<1>4. ReadingsHonest'
  <2>1. ASSUME NEW x \in DeeplineCallers, rowRead'[x] # 0, valueRead'[x].date = deeplineDay
        PROVE  PerBaseline <= valueRead'[x].amount + Slack'
    <3>1. CASE rowRead'[x] = rowRead[x] /\ valueRead'[x] = valueRead[x]
      <4>1. PerBaseline <= valueRead[x].amount + Slack /\ valueRead[x].amount \in Nat
        BY <1>1, <2>1, <3>1 DEF DeeplineInv, ReadingsHonest, DeeplineTypeOK, Baseline
      <4>2. QED
        BY <1>1, <1>2, <3>1, <4>1
    <3>2. CASE x = c /\ ReadBaseline(c) /\ baselines # <<>>
      <4>1. PICK i \in DOMAIN baselines : valueRead' = [valueRead EXCEPT ![c] = baselines[i]]
        BY <3>2 DEF ReadBaseline
      <4>a. valueRead'[x] = baselines[i] /\ baselines[i] \in Baseline
        BY <1>1, <3>2, <4>1 DEF DeeplineInv, DeeplineTypeOK
      <4>2. valueRead'[x] = baselines[i] /\ baselines[i].amount \in Nat
        BY <4>a DEF Baseline
      <4>3. PerBaseline <= baselines[i].amount + Slack
        BY <2>1, <4>2 DEF DeeplineInv, RowsHonest
      <4>4. QED
        BY <1>1, <1>2, <4>2, <4>3
    <3>3. CASE x = c /\ (FetchFails(c) \/ WriteBaseline(c) \/ PassCheck(c) \/ BudgetExceeded(c))
      <4>1. rowRead'[c] = 0
        BY <3>3 DEF FetchFails, WriteBaseline, PassCheck, BudgetExceeded, ForgetReadings, DeeplineInv, DeeplineTypeOK
      <4>2. QED
        BY <2>1, <3>3, <4>1
    <3>4. CASE x = c /\ (StartCheck(c) \/ FetchBalance(c) \/ DeeplineCall(c) \/ (ReadBaseline(c) /\ baselines = <<>>))
      BY <3>1, <3>4 DEF StartCheck, FetchBalance, DeeplineCall, ReadBaseline
    <3>5. CASE x # c
      BY <1>1, <3>1, <3>5 DEF OnlyMoves
    <3>6. QED
      BY <3>2, <3>3, <3>4, <3>5 DEF DeeplineAct
  <2>2. PerBaseline' = PerBaseline
    BY DEF PerBaseline, DeeplineCrowd
  <2>3. QED
    BY <1>1, <2>1, <2>2 DEF ReadingsHonest
<1>5. BalancesHonest'
  <2>1. ASSUME NEW x \in DeeplineCallers, deeplinePc'[x] = "decide", checkDay'[x] = deeplineDay
        PROVE  0 <= balanceRead'[x] + Slack'
    <3>1. CASE x # c
      <4>1. 0 <= balanceRead[x] + Slack /\ balanceRead'[x] = balanceRead[x] /\ balanceRead[x] \in Nat
        BY <1>1, <2>1, <3>1 DEF OnlyMoves, DeeplineInv, BalancesHonest, DeeplineTypeOK
      <4>2. QED
        BY <1>1, <1>2, <4>1
    <3>2. CASE x = c
      <4>1. FetchBalance(c)
        BY <2>1, <3>2 DEF DeeplineAct, StartCheck, ReadBaseline, FetchFails, WriteBaseline, PassCheck,
           BudgetExceeded, DeeplineCall, DeeplineGoto, DeeplineInv, DeeplineTypeOK
      <4>2. balanceRead'[c] = balance /\ Slack' = Slack
        BY <4>1 DEF FetchBalance, Slack, DeeplineInv, DeeplineTypeOK
      <4>3. Cardinality(Promised) <= Slack + balance /\ Cardinality(Promised) \in Nat
        BY DeeplineCounts DEF DeeplineInv, TodayKept
      <4>4. 0 <= balance + Slack
        BY <1>1, <4>3
      <4>5. QED
        BY <3>2, <4>2, <4>4
    <3>3. QED
      BY <3>1, <3>2
  <2>2. QED
    BY <1>1, <2>1 DEF BalancesHonest
<1>6. QED
  BY <1>3, <1>4, <1>5

LEMMA OtherDaysStep ==
  ASSUME DeeplineInv, NEW c \in DeeplineCallers, DeeplineAct(c)
  PROVE  OtherDays'
<1>1. /\ deeplineDay \in Nat /\ deeplineDay' = deeplineDay /\ topUps \in Nat /\ topUps' = topUps
      /\ checkDay[c] \in DeeplineDays /\ checkDay[c] <= deeplineDay
      /\ baselineCount \in [DeeplineDays -> Nat] /\ deeplineSpent \in [DeeplineDays -> Nat]
      /\ carried \in [DeeplineDays -> Nat]
  <2>1. deeplineDay' = deeplineDay
    BY OneMoves DEF DeeplineInv, OnlyMoves
  <2>2. topUps' = topUps
    BY DEF DeeplineAct, StartCheck, ReadBaseline, FetchBalance, FetchFails, WriteBaseline, PassCheck,
           BudgetExceeded, DeeplineCall
  <2>3. QED
    BY <2>1, <2>2, DeeplineNumbers DEF DeeplineInv, DeeplineTypeOK, DatesPast
<1>2. ASSUME NEW d \in DeeplineDays, d # deeplineDay PROVE deeplineSpent'[d] = deeplineSpent[d] /\ carried'[d] = carried[d]
  BY <1>1, <1>2 DEF DeeplineAct, StartCheck, ReadBaseline, FetchBalance, FetchFails, WriteBaseline, PassCheck,
         BudgetExceeded, DeeplineCall
<1>3. baselineCount' = baselineCount \/ baselineCount' = [baselineCount EXCEPT ![checkDay[c]] = @ + 1]
  BY DEF DeeplineAct, StartCheck, ReadBaseline, FetchBalance, FetchFails, WriteBaseline, PassCheck,
         BudgetExceeded, DeeplineCall
<1>4. ASSUME NEW d \in DeeplineDays, d < deeplineDay
      PROVE  deeplineSpent'[d] <= Allowance(baselineCount'[d]) + carried'[d] + topUps
  <2>1. d # deeplineDay
    BY <1>1, <1>4 DEF DeeplineDays
  <2>2. deeplineSpent[d] <= Allowance(baselineCount[d]) + carried[d] + topUps
    BY <1>4 DEF DeeplineInv, OtherDays
  <2>a. PICK n \in Nat, s \in Nat, r \in Nat, u \in Nat, p \in Nat :
          n = baselineCount[d] /\ s = deeplineSpent[d] /\ r = carried[d] /\ u = topUps /\ p = PerBaseline
    BY <1>1, DeeplineConstants
  <2>b. Allowance(n) \in Nat /\ Allowance(n + 1) = Allowance(n) + p
    BY <2>a, AllowanceFacts
  <2>3. PICK a \in Nat : a = Allowance(n) /\ Allowance(n + 1) = a + p
    BY <2>b
  <2>4. baselineCount'[d] = n \/ baselineCount'[d] = n + 1
    BY <1>1, <1>3, <2>a
  <2>5. s <= a + r + u /\ s <= (a + p) + r + u
    BY <2>2, <2>a, <2>3
  <2>6. QED
    BY <1>2, <2>1, <2>a, <2>3, <2>4, <2>5
<1>5. ASSUME NEW d \in DeeplineDays, d > deeplineDay
      PROVE  deeplineSpent'[d] = 0 /\ baselineCount'[d] = 0 /\ carried'[d] = 0
  <2>1. d # deeplineDay /\ d # checkDay[c]
    BY <1>1, <1>5 DEF DeeplineDays
  <2>2. baselineCount'[d] = baselineCount[d]
    BY <1>1, <1>3, <2>1
  <2>3. QED
    BY <1>2, <1>5, <2>1, <2>2 DEF DeeplineInv, OtherDays
<1>6. QED
  BY <1>1, <1>4, <1>5 DEF OtherDays

LEMMA TopUpStep == ASSUME DeeplineInv, TopUp PROVE DeeplineInv'
<1>1. /\ UNCHANGED <<deeplineDay, baselines, deeplinePc, checkDay, rowRead, valueRead, balanceRead, deeplineSpent,
                     baselineCount, carried>>
      /\ balance' = balance + 1 /\ topUps' = topUps + 1 /\ topUps < MaxTopUps
  BY DEF TopUp, deeplineLocals
<1>2. PICK a \in Nat, u \in Nat, r \in Nat, b \in Nat, s \in Nat :
        /\ a = Allowance(baselineCount[deeplineDay]) /\ u = topUps /\ r = carried[deeplineDay] /\ b = balance
        /\ s = deeplineSpent[deeplineDay]
  BY DeeplineNumbers DEF DeeplineInv
<1>3. Slack = u + a + r - (b + s) /\ Slack' = (u + 1) + a + r - ((b + 1) + s)
  BY <1>1, <1>2 DEF Slack
<1>4. Slack' = Slack /\ Slack \in Int
  BY <1>3
<1>5. Promised' = Promised /\ RowLess' = RowLess
  BY <1>1 DEF Promised, RowLess, NeedsBaseline, SpentSince
<1>6. DeeplineTypeOK'
  BY <1>1, DeeplineConstants DEF DeeplineInv, DeeplineTypeOK
<1>7. RowsFit' /\ DatesPast'
  BY <1>1, <1>5 DEF DeeplineInv, RowsFit, DatesPast, DeeplineCrowd
<1>8. RowsHonest' /\ ReadingsHonest' /\ BalancesHonest'
  BY <1>1, <1>4 DEF DeeplineInv, RowsHonest, ReadingsHonest, BalancesHonest, PerBaseline, DeeplineCrowd
<1>9. TodayKept'
  <2>1. Cardinality(Promised) <= Slack + b /\ Cardinality(Promised) \in Nat
    BY <1>2, DeeplineCounts DEF DeeplineInv, TodayKept
  <2>2. Cardinality(Promised) <= Slack + (b + 1)
    BY <1>4, <2>1
  <2>3. QED
    BY <1>1, <1>2, <1>4, <1>5, <2>2 DEF TodayKept
<1>10. OtherDays'
  <2>1. ASSUME NEW d \in DeeplineDays, d < deeplineDay
        PROVE  deeplineSpent[d] <= Allowance(baselineCount[d]) + carried[d] + (topUps + 1)
    <3>1. deeplineSpent[d] <= Allowance(baselineCount[d]) + carried[d] + topUps
      BY <2>1 DEF DeeplineInv, OtherDays
    <3>2. PICK x \in Nat, y \in Nat, z \in Nat : x = deeplineSpent[d] /\ y = Allowance(baselineCount[d]) /\ z = carried[d]
      BY AllowanceFacts DEF DeeplineInv, DeeplineTypeOK
    <3>3. x <= y + z + (u + 1)
      BY <1>2, <3>1, <3>2
    <3>4. QED
      BY <1>2, <3>2, <3>3
  <2>2. QED
    BY <1>1, <2>1 DEF DeeplineInv, OtherDays, Allowance, PerBaseline, DeeplineCrowd
<1>11. QED
  BY <1>6, <1>7, <1>8, <1>9, <1>10 DEF DeeplineInv

LEMMA DeeplineMidnightStep == ASSUME DeeplineInv, DeeplineMidnight PROVE DeeplineInv'
<1>1. /\ UNCHANGED <<balance, baselines, deeplinePc, checkDay, rowRead, valueRead, balanceRead, deeplineSpent,
                     baselineCount, carried, topUps>>
      /\ deeplineDay' = deeplineDay + 1 /\ deeplineDay < MaxDeeplineDay
  BY DEF DeeplineMidnight, deeplineLocals
<1>2. /\ deeplineDay \in Nat /\ deeplineDay + 1 \in DeeplineDays /\ topUps \in Nat /\ balance \in Nat
      /\ checkDay \in [DeeplineCallers -> DeeplineDays] /\ valueRead \in [DeeplineCallers -> Baseline]
      /\ baselines \in Seq(Baseline)
  BY <1>1, DeeplineNumbers, DeeplineConstants DEF DeeplineInv, DeeplineTypeOK, DeeplineDays
<1>3. /\ \A i \in DOMAIN baselines : baselines[i].date # deeplineDay + 1 /\ baselines[i].date <= deeplineDay + 1
      /\ \A c \in DeeplineCallers : /\ checkDay[c] # deeplineDay + 1 /\ checkDay[c] <= deeplineDay + 1
                                    /\ valueRead[c].date # deeplineDay + 1 /\ valueRead[c].date <= deeplineDay + 1
  <2>1. \A d \in DeeplineDays : d <= deeplineDay => d # deeplineDay + 1 /\ d <= deeplineDay + 1
    BY <1>2 DEF DeeplineDays
  <2>2. \A i \in DOMAIN baselines : baselines[i] \in Baseline
    BY <1>2
  <2>3. \A r \in Baseline : r.date \in DeeplineDays
    BY DEF Baseline
  <2>4. QED
    BY <1>2, <2>1, <2>2, <2>3 DEF DeeplineInv, DatesPast
<1>4. DeeplineTypeOK'
  BY <1>1, <1>2 DEF DeeplineInv, DeeplineTypeOK
<1>5. RowsFit' /\ DatesPast'
  <2>1. RowLess' = RowLess
    BY <1>1 DEF RowLess
  <2>2. QED
    BY <1>1, <1>3, <2>1 DEF DeeplineInv, RowsFit, DatesPast, DeeplineCrowd
<1>6. RowsHonest' /\ ReadingsHonest' /\ BalancesHonest'
  BY <1>1, <1>3 DEF RowsHonest, ReadingsHonest, BalancesHonest
<1>7. deeplineSpent[deeplineDay + 1] = 0 /\ baselineCount[deeplineDay + 1] = 0 /\ carried[deeplineDay + 1] = 0
  BY <1>2 DEF DeeplineInv, OtherDays
<1>8. TodayKept'
  <2>1. Promised' = {}
    BY <1>1, <1>3 DEF Promised
  <2>2. Cardinality(Promised') = 0
    BY <2>1, FS_EmptySet
  <2>3. Slack' = topUps + 0 + 0 - (balance + 0)
    BY <1>1, <1>7, AllowanceFacts DEF Slack, Allowance, PerBaseline, DeeplineCrowd
  <2>4. 0 <= (topUps + 0 + 0 - (balance + 0)) + balance
    BY <1>2
  <2>5. QED
    BY <1>1, <2>2, <2>3, <2>4 DEF TodayKept
<1>9. OtherDays'
  <2>1. \A d \in DeeplineDays : d < deeplineDay + 1 => d < deeplineDay \/ d = deeplineDay
    BY <1>2 DEF DeeplineDays
  <2>2. \A d \in DeeplineDays : d > deeplineDay + 1 => d > deeplineDay
    BY <1>2 DEF DeeplineDays
  <2>3. deeplineSpent[deeplineDay] <= Allowance(baselineCount[deeplineDay]) + carried[deeplineDay] + topUps
    <3>1. PICK a \in Nat, u \in Nat, r \in Nat, b \in Nat, s \in Nat, p \in Nat :
            /\ a = Allowance(baselineCount[deeplineDay]) /\ u = topUps /\ r = carried[deeplineDay] /\ b = balance
            /\ s = deeplineSpent[deeplineDay] /\ p = Cardinality(Promised)
      BY DeeplineNumbers, DeeplineCounts DEF DeeplineInv
    <3>2. p <= (u + a + r - (b + s)) + b
      BY <3>1 DEF DeeplineInv, TodayKept, Slack
    <3>3. s <= a + r + u
      BY <3>2
    <3>4. QED
      BY <3>1, <3>3
  <2>4. \A n : Allowance(n)' = Allowance(n)
    BY DEF Allowance, PerBaseline, DeeplineCrowd
  <2>5. QED
    BY <1>1, <2>1, <2>2, <2>3, <2>4 DEF DeeplineInv, OtherDays
<1>10. QED
  BY <1>4, <1>5, <1>6, <1>8, <1>9 DEF DeeplineInv

LEMMA DeeplineInvStep == DeeplineInv /\ [DeeplineNext]_deeplineVars => DeeplineInv'
<1>1. SUFFICES ASSUME DeeplineInv, [DeeplineNext]_deeplineVars PROVE DeeplineInv'
  OBVIOUS
<1>2. CASE UNCHANGED deeplineVars
  <2>1. UNCHANGED <<deeplineDay, balance, baselines, deeplinePc, checkDay, rowRead, valueRead, balanceRead,
                    deeplineSpent, baselineCount, carried, topUps>>
    BY <1>2 DEF deeplineVars, deeplineLocals
  <2>2. Promised' = Promised /\ RowLess' = RowLess /\ Slack' = Slack /\ PerBaseline' = PerBaseline
    BY <2>1 DEF Promised, RowLess, NeedsBaseline, SpentSince, Slack, PerBaseline, DeeplineCrowd
  <2>3. DeeplineTypeOK' /\ RowsFit' /\ DatesPast'
    BY <1>1, <2>1, <2>2 DEF DeeplineInv, DeeplineTypeOK, RowsFit, DatesPast, DeeplineCrowd
  <2>4. RowsHonest' /\ ReadingsHonest' /\ BalancesHonest' /\ TodayKept'
    BY <1>1, <2>1, <2>2 DEF DeeplineInv, RowsHonest, ReadingsHonest, BalancesHonest, TodayKept
  <2>5. OtherDays'
    BY <1>1, <2>1 DEF DeeplineInv, OtherDays, Allowance, PerBaseline, DeeplineCrowd
  <2>6. QED
    BY <2>3, <2>4, <2>5 DEF DeeplineInv
<1>3. CASE DeeplineMidnight \/ TopUp
  BY <1>1, <1>3, DeeplineMidnightStep, TopUpStep
<1>4. ASSUME NEW c \in DeeplineCallers, DeeplineAct(c) PROVE DeeplineInv'
  <2>1. DeeplineTypeOK' /\ RowsFit'
    BY <1>1, <1>4, DeeplineTypeStep, RowsFitStep DEF DeeplineInv
  <2>2. DatesPast'
    BY <1>1, <1>4, DatesStep DEF DeeplineInv
  <2>3. RowsHonest' /\ ReadingsHonest' /\ BalancesHonest' /\ TodayKept' /\ OtherDays'
    BY <1>1, <1>4, HonestStep, TodayStep, OtherDaysStep
  <2>4. QED
    BY <2>1, <2>2, <2>3 DEF DeeplineInv
<1>5. QED
  BY <1>1, <1>2, <1>3, <1>4 DEF DeeplineNext, DeeplineAct

LEMMA DeeplineSound == DeeplineInv => DeeplineTypeOK /\ DeeplineDayBounded
<1>1. SUFFICES ASSUME DeeplineInv, NEW d \in DeeplineDays
               PROVE  deeplineSpent[d] <= Allowance(baselineCount[d]) + carried[d] + topUps
  BY DEF DeeplineInv, DeeplineDayBounded, Allowance, PerBaseline, DeeplineCrowd
<1>2. d \in Nat /\ deeplineDay \in Nat /\ topUps \in Nat
  BY <1>1, DeeplineNumbers DEF DeeplineInv, DeeplineDays
<1>3. CASE d < deeplineDay
  BY <1>1, <1>3 DEF DeeplineInv, OtherDays
<1>4. CASE d = deeplineDay
  <2>1. PICK a \in Nat, u \in Nat, r \in Nat, b \in Nat, s \in Nat, p \in Nat :
          /\ a = Allowance(baselineCount[deeplineDay]) /\ u = topUps /\ r = carried[deeplineDay] /\ b = balance
          /\ s = deeplineSpent[deeplineDay] /\ p = Cardinality(Promised)
    BY <1>1, DeeplineNumbers, DeeplineCounts DEF DeeplineInv
  <2>2. p <= (u + a + r - (b + s)) + b
    BY <1>1, <2>1 DEF DeeplineInv, TodayKept, Slack
  <2>3. s <= a + r + u
    BY <2>2
  <2>4. QED
    BY <1>4, <2>1, <2>3
<1>5. CASE d > deeplineDay
  <2>1. deeplineSpent[d] = 0 /\ baselineCount[d] = 0 /\ carried[d] = 0
    BY <1>1, <1>5 DEF DeeplineInv, OtherDays
  <2>2. QED
    BY <1>2, <2>1, AllowanceFacts
<1>6. QED
  BY <1>2, <1>3, <1>4, <1>5

(* Two first checks may write two baselines, a stalled one may put an old  *)
(* one back, and the account may be topped up meanwhile: a day spends its  *)
(* budget and the callers' last calls once per baseline, and no more.      *)
THEOREM DeeplineBudgetHolds == DeeplineSpec => [](DeeplineTypeOK /\ DeeplineDayBounded)
<1>1. DeeplineSpec => []DeeplineInv
  BY DeeplineInitInv, DeeplineInvStep, PTL DEF DeeplineSpec
<1>2. QED
  BY <1>1, DeeplineSound, PTL

---------------------------------------------------------------------------
(* The guards as the run has them, one at a time beside the others.        *)
LEMMA GuardSteps == [Steps]_budgetVars => [ApifyNext]_apifyVars /\ [DeeplineNext]_deeplineVars
<1>1. CASE UNCHANGED budgetVars
  BY <1>1 DEF budgetVars
<1>2. CASE Steps
  BY <1>2 DEF Steps, LedgerStep, ApifyStep, DeeplineStep, SensingStep
<1>3. QED
  BY <1>1, <1>2

(* Whatever the number of callers, of days, of failures and of top-ups,    *)
(* the two providers' budgets hold up to the calls let through before      *)
(* their money showed.                                                     *)
THEOREM DayBudgetsHold == Budgets => []DayBudgetsBounded
<1>1. Budgets => ApifyInit /\ [][ApifyNext]_apifyVars /\ DeeplineInit /\ [][DeeplineNext]_deeplineVars
  BY GuardSteps, PTL DEF Budgets, Start
<1>2. Budgets => [](ApifyTypeOK /\ ApifyDayBounded /\ ApifyMonthBounded) /\ [](DeeplineTypeOK /\ DeeplineDayBounded)
  BY <1>1, ApifyBudgetsHold, DeeplineBudgetHolds DEF ApifySpec, DeeplineSpec
<1>3. QED
  BY <1>2, PTL DEF DayBudgetsBounded

---------------------------------------------------------------------------
(* The sensors.                                                            *)
(* A run under way, and what it holds of an item and a tenant.             *)
Underway ==
  [at : {"ask", "count", "fall", "look", "short", "over", "lost"}, tenant : SenseTenants, part : 1..SenseParts + 1,
   answer : Answers, added : [Items -> 0..2 * SenseParts], heard : SUBSET Items, late : SUBSET Items, seenUsed : Nat]
Holds(q, t, i) == Ongoing(q) /\ senseRun[q].tenant = t /\ senseRun[q].added[i] > 0

FetchTypeOK ==
  /\ sensor \in Sensors
  /\ rows \in [SenseTenants -> [Items -> Nat]]
  /\ senseRun \in [SenseRuns -> SenseRun]
  /\ quotaUsed \in 0..FreeQuota /\ queries \in Nat /\ raced \in BOOLEAN
  /\ doubled \subseteq SenseTenants \X Items /\ undone \subseteq SenseTenants \X Items

(* No part of a run adds an item more than twice.                          *)
Bounded(rec) ==
  /\ rec.part <= SenseParts
  /\ rec.at \in {"ask", "count", "fall"} => \A i \in Items : rec.added[i] <= 2 * (rec.part - 1)
  /\ rec.at = "look" => \A i \in Items : rec.added[i] + Len(rec.answer) <= 2 * rec.part

PartsBounded == \A r \in SenseRuns : Ongoing(r) => Bounded(senseRun[r])

(* Of an item that was never looked up while in flight there is one row or *)
(* one addition.                                                           *)
Single(t, i) ==
  /\ rows[t][i] <= 1
  /\ \A q \in SenseRuns : Holds(q, t, i) => rows[t][i] = 0 /\ senseRun[q].added[i] = 1
  /\ \A p, q \in SenseRuns : Holds(p, t, i) /\ Holds(q, t, i) => p = q

OneOfEach ==
  sensor.looks # "never" => \A t \in SenseTenants, i \in Items : <<t, i>> \in doubled \/ Single(t, i)

(* What a run heard is on record, rolled back, or among its additions.     *)
OnRecord(t, i) ==
  \/ rows[t][i] > 0
  \/ sensor.looks = "everyone" /\ \E u \in SenseTenants : rows[u][i] > 0
  \/ <<t, i>> \in undone

Heard(rec) ==
  /\ \A i \in rec.heard : OnRecord(rec.tenant, i) \/ (i \in rec.late /\ rec.added[i] > 0)
  /\ rec.at = "over" => rec.late = {}

HeardInv == \A r \in SenseRuns : Ongoing(r) => Heard(senseRun[r])

FetchInv == FetchTypeOK /\ PartsBounded /\ OneOfEach /\ HeardInv /\ QuotaBounded

(* The record of a run is at rest, closed or that of a run under way.      *)
LEMMA RunsApart ==
  /\ SenseRun = {Resting, Closed} \cup Underway
  /\ Resting \notin Underway /\ Closed \notin Underway
<1>1. Resting \notin Underway /\ Closed \notin Underway
  BY DEF Resting, Closed, Underway
<1> QED
  BY <1>1 DEF SenseRun, Underway

(* Which runs are under way.                                               *)
LEMMA UnderwayAre ==
  ASSUME FetchTypeOK, NEW r \in SenseRuns
  PROVE  /\ Ongoing(r) <=> senseRun[r] \in Underway
         /\ senseRun[r].at \notin {"rest", "closed"} <=> Ongoing(r)
<1>1. senseRun[r] \in {Resting, Closed} \cup Underway
  BY RunsApart DEF FetchTypeOK
<1>2. Resting.at = "rest" /\ Closed.at = "closed" /\ \A rec \in Underway : rec.at \notin {"rest", "closed"}
  BY DEF Resting, Closed, Underway
<1> QED
  BY <1>1, <1>2, RunsApart DEF Ongoing

(* Every sensor asks at least one part, and no more than SenseParts.       *)
LEMMA SensorsKnown == sensor \in Sensors => sensor.parts \in 1..SenseParts
<1>1. SenseParts \in Nat /\ SenseParts >= 1
  BY SensingAssumption
<1>2. Plain.parts = 1 /\ Plain = [looks |-> "tenant", parts |-> 1, fails |-> "end", search |-> FALSE, capped |-> FALSE, saves |-> "end"]
  BY DEF Plain
<1>3. WebSearch.parts = 1 /\ CompanyWebsite.parts = 1 /\ TheirstackJobs.parts = 1
      /\ LinkedinJobs.parts = 1 /\ LinkedinPosts.parts = 1 /\ PostEngagement.parts = 1 /\ WebsiteVisitors.parts = 1
  BY <1>2 DEF WebSearch, CompanyWebsite, TheirstackJobs, LinkedinJobs, LinkedinPosts, PostEngagement, WebsiteVisitors
<1>4. Feeds.parts = SenseParts /\ Feeds = [Plain EXCEPT !.parts = SenseParts, !.fails = "part"]
  BY <1>2 DEF Feeds
<1>5. LinkedinReplies.parts = SenseParts /\ HackernewsStories.parts = SenseParts /\ RssArticles.parts = SenseParts
      /\ CompetitorPosts.parts = SenseParts /\ GoogleNews.parts = SenseParts
  BY <1>2, <1>4 DEF LinkedinReplies, HackernewsStories, RssArticles, CompetitorPosts, GoogleNews
<1>6. Searches.parts = SenseParts /\ WebSearchTrends.parts = SenseParts /\ CompetitorContent.parts = SenseParts
  BY <1>2, <1>4 DEF Searches, WebSearchTrends, CompetitorContent
<1> QED
  BY <1>1, <1>3, <1>5, <1>6 DEF Sensors

(* What is left of an answer is an answer.                                 *)
LEMMA AnswersAre ==
  ASSUME NEW a \in Answers
  PROVE  /\ Len(a) \in 0..2 /\ (a = <<>> <=> Len(a) = 0)
         /\ a # <<>> => Head(a) \in Items /\ Tail(a) \in Answers /\ Len(Tail(a)) = Len(a) - 1
<1>1. CASE a = <<>>
  BY <1>1
<1>2. ASSUME NEW i \in Items, a = <<i>>
      PROVE  Len(a) = 1 /\ a # <<>> /\ Head(a) \in Items /\ Tail(a) = <<>>
  BY <1>2
<1>3. ASSUME NEW i \in Items, NEW j \in Items, a = <<i, j>>
      PROVE  Len(a) = 2 /\ a # <<>> /\ Head(a) \in Items /\ Tail(a) = <<j>>
  BY <1>3
<1>4. a = <<>> \/ (\E i \in Items : a = <<i>>) \/ \E i, j \in Items : a = <<i, j>>
  <2>1. ASSUME NEW x \in Items \X Items PROVE \E i, j \in Items : x = <<i, j>>
    OBVIOUS
  <2> QED
    BY <2>1 DEF Answers
<1>5. <<>> \in Answers /\ \A i \in Items : <<i>> \in Answers
  BY DEF Answers
<1>6. ASSUME NEW i \in Items
      PROVE  Len(<<>>) = 0 /\ Len(<<i>>) = 1 /\ <<i>> # <<>>
  OBVIOUS
<1>7. CASE \E i \in Items : a = <<i>>
  <2>1. PICK i \in Items : a = <<i>>
    BY <1>7
  <2>2. Len(a) = 1 /\ a # <<>> /\ Head(a) \in Items /\ Tail(a) = <<>> /\ Len(<<>>) = 0
    BY <1>2, <1>6, <2>1
  <2>3. Tail(a) \in Answers
    BY <1>5, <2>2, Zenon
  <2>4. Len(Tail(a)) = 0
    BY <2>2, Zenon
  <2>5. Len(a) \in 0..2 /\ Len(a) - 1 = 0
    BY <2>2
  <2> QED
    BY <2>2, <2>3, <2>4, <2>5
<1>8. CASE \E i, j \in Items : a = <<i, j>>
  <2>1. PICK i \in Items, j \in Items : a = <<i, j>>
    BY <1>8
  <2>2. Len(a) = 2 /\ a # <<>> /\ Head(a) \in Items /\ Tail(a) = <<j>> /\ Len(<<j>>) = 1
    BY <1>3, <1>6, <2>1
  <2>3. Tail(a) \in Answers
    BY <1>5, <2>2, Zenon
  <2>4. Len(Tail(a)) = 1
    BY <2>2, Zenon
  <2>5. Len(a) \in 0..2 /\ Len(a) - 1 = 1
    BY <2>2
  <2> QED
    BY <2>2, <2>3, <2>4, <2>5
<1> QED
  BY <1>1, <1>4, <1>7, <1>8

(* A run that added nothing.                                               *)
LEMMA NothingPending == NoPending \in [Items -> 0..2 * SenseParts] /\ \A i \in Items : NoPending[i] = 0
BY SensingAssumption DEF NoPending

(* What a part may add, in numbers.                                        *)
LEMMA Room ==
  ASSUME NEW x \in Nat, NEW n \in 0..2, NEW p \in Nat, NEW max \in Nat, p <= max
  PROVE  /\ p >= 1 => 0 + n <= 2 * p
         /\ x <= 2 * (p - 1) => x + n <= 2 * p
         /\ n >= 1 /\ x + n <= 2 * p => x + (n - 1) <= 2 * p /\ (x + 1) + (n - 1) <= 2 * p /\ x + 1 \in 0..2 * max
OBVIOUS

(* A run under way goes on as rec.                                         *)
Turn(r, rec) ==
  /\ Ongoing(r) /\ rec \in Underway /\ rec.tenant = senseRun[r].tenant
  /\ senseRun' = [senseRun EXCEPT ![r] = rec] /\ sensor' = sensor

(* One run moves: the others, and the bounds of each, stay.                *)
LEMMA TurnKeeps ==
  ASSUME FetchInv, NEW r \in SenseRuns, NEW rec, Turn(r, rec), Bounded(rec)
  PROVE  /\ senseRun' \in [SenseRuns -> SenseRun] /\ PartsBounded'
         /\ senseRun'[r] = rec /\ \A q \in SenseRuns \ {r} : senseRun'[q] = senseRun[q]
         /\ \A q \in SenseRuns : Ongoing(q)' <=> Ongoing(q)
<1>1. /\ senseRun'[r] = rec /\ \A q \in SenseRuns \ {r} : senseRun'[q] = senseRun[q]
      /\ senseRun' \in [SenseRuns -> SenseRun]
  BY RunsApart DEF FetchInv, FetchTypeOK, Turn
<1>2. \A q \in SenseRuns : Ongoing(q)' <=> Ongoing(q)
  BY <1>1, RunsApart DEF Turn, Ongoing
<1>3. PartsBounded'
  BY <1>1, <1>2 DEF FetchInv, PartsBounded, Bounded
<1> QED
  BY <1>1, <1>2, <1>3

(* It only goes on.                                                        *)
Waits(r, rec) ==
  /\ Turn(r, rec) /\ rec.at # "over" /\ rec.added = senseRun[r].added
  /\ rec.heard = senseRun[r].heard /\ rec.late = senseRun[r].late
  /\ rows' = rows /\ doubled' = doubled /\ undone' = undone

(* A run that adds nothing and stores nothing.                             *)
LEMMA WaitsKeeps ==
  ASSUME FetchInv, NEW r \in SenseRuns, NEW rec, Waits(r, rec), Bounded(rec)
  PROVE  OneOfEach' /\ HeardInv'
<1>1. /\ senseRun'[r] = rec /\ \A q \in SenseRuns \ {r} : senseRun'[q] = senseRun[q]
      /\ \A q \in SenseRuns : Ongoing(q)' <=> Ongoing(q)
  BY TurnKeeps DEF Waits
<1>2. \A q \in SenseRuns : Ongoing(q) =>
        /\ senseRun'[q].tenant = senseRun[q].tenant /\ senseRun'[q].added = senseRun[q].added
        /\ senseRun'[q].heard = senseRun[q].heard /\ senseRun'[q].late = senseRun[q].late
        /\ senseRun'[q].at = "over" => senseRun[q].at = "over"
  BY <1>1 DEF Waits, Turn
<1>3. \A q \in SenseRuns : \A t, i : Holds(q, t, i)' <=> Holds(q, t, i)
  BY <1>1, <1>2 DEF Holds
<1>4. OneOfEach'
  <2>1. SUFFICES ASSUME sensor.looks # "never", NEW t \in SenseTenants, NEW i \in Items, <<t, i>> \notin doubled
                 PROVE  Single(t, i)'
    BY DEF OneOfEach, Waits, Turn
  <2>2. Single(t, i)
    BY <2>1 DEF FetchInv, OneOfEach
  <2>3. \A q \in SenseRuns : Holds(q, t, i) => senseRun'[q].added = senseRun[q].added
    BY <1>2 DEF Holds
  <2> QED
    BY <1>3, <2>2, <2>3 DEF Single, Waits
<1>5. HeardInv'
  BY <1>1, <1>2 DEF FetchInv, HeardInv, Heard, OnRecord, Waits, Turn
<1> QED
  BY <1>4, <1>5

(* Its session is committed.                                               *)
Commits(r, rec) ==
  /\ Turn(r, rec) /\ rec.added = NoPending
  /\ rec.heard = senseRun[r].heard /\ rec.late = {}
  /\ rows' = Stored(r) /\ doubled' = doubled /\ undone' = undone

(* What a commit makes of the rows.                                        *)
LEMMA StoredAre ==
  ASSUME FetchTypeOK, NEW r \in SenseRuns, Ongoing(r)
  PROVE  /\ Stored(r) \in [SenseTenants -> [Items -> Nat]]
         /\ \A t \in SenseTenants, i \in Items :
              Stored(r)[t][i] = IF t = senseRun[r].tenant THEN rows[t][i] + senseRun[r].added[i] ELSE rows[t][i]
<1> DEFINE T == senseRun[r].tenant
           A == senseRun[r].added
<1>1. T \in SenseTenants /\ A \in [Items -> 0..2 * SenseParts] /\ SenseParts \in Nat
  BY UnderwayAre, SensingAssumption DEF Underway
<1>2. Stored(r) = [rows EXCEPT ![T] = [i \in Items |-> rows[T][i] + A[i]]]
  BY DEF Stored
<1>3. \A i \in Items : A[i] \in Nat /\ rows[T][i] \in Nat /\ rows[T][i] + A[i] \in Nat
  BY <1>1 DEF FetchTypeOK
<1>4. [i \in Items |-> rows[T][i] + A[i]] \in [Items -> Nat]
  BY <1>3
<1> HIDE DEF A, T
<1> QED
  BY <1>1, <1>2, <1>4 DEF FetchTypeOK, T, A

(* A commit turns the additions of one run into rows.                      *)
LEMMA CommitsKeeps ==
  ASSUME FetchInv, NEW r \in SenseRuns, NEW rec, Commits(r, rec), Bounded(rec)
  PROVE  rows' \in [SenseTenants -> [Items -> Nat]] /\ OneOfEach' /\ HeardInv'
<1>1. /\ senseRun'[r] = rec /\ \A q \in SenseRuns \ {r} : senseRun'[q] = senseRun[q]
      /\ \A q \in SenseRuns : Ongoing(q)' <=> Ongoing(q)
  BY TurnKeeps DEF Commits
<1> DEFINE T == senseRun[r].tenant
           A == senseRun[r].added
<1>2. Ongoing(r) /\ T \in SenseTenants /\ A \in [Items -> Nat]
  <2>1. Ongoing(r) /\ SenseParts \in Nat
    BY SensingAssumption DEF Commits, Turn
  <2>2. senseRun[r] \in Underway
    BY <2>1, UnderwayAre DEF FetchInv
  <2> QED
    BY <2>1, <2>2 DEF Underway
<1>3. /\ rows' \in [SenseTenants -> [Items -> Nat]]
      /\ \A t \in SenseTenants, i \in Items : rows'[t][i] = IF t = T THEN rows[t][i] + A[i] ELSE rows[t][i]
  BY <1>2, StoredAre DEF FetchInv, Commits
<1>4. \A t \in SenseTenants, i \in Items : rows[t][i] \in Nat /\ (rows[t][i] > 0 => rows'[t][i] > 0)
  BY <1>2, <1>3 DEF FetchInv, FetchTypeOK
<1>5. ASSUME NEW t, NEW i \in Items
      PROVE  ~Holds(r, t, i)' /\ \A q \in SenseRuns \ {r} : Holds(q, t, i)' <=> Holds(q, t, i)
  BY <1>1, NothingPending DEF Holds, Commits
<1>6. OneOfEach'
  <2>1. SUFFICES ASSUME sensor.looks # "never", NEW t \in SenseTenants, NEW i \in Items, <<t, i>> \notin doubled
                 PROVE  Single(t, i)'
    BY DEF OneOfEach, Commits, Turn
  <2>2. Single(t, i)
    BY <2>1 DEF FetchInv, OneOfEach
  <2>3. CASE Holds(r, t, i)
    <3>1. rows[t][i] = 0 /\ A[i] = 1 /\ T = t /\ \A q \in SenseRuns \ {r} : ~Holds(q, t, i)
      BY <2>2, <2>3 DEF Single, Holds
    <3>2. rows'[t][i] = 1
      BY <1>3, <3>1
    <3>3. \A q \in SenseRuns : ~Holds(q, t, i)'
      BY <1>5, <3>1
    <3> QED
      BY <3>2, <3>3 DEF Single
  <2>4. CASE ~Holds(r, t, i)
    <3>1. t = T => A[i] = 0
      BY <1>2, <2>4 DEF Holds
    <3>2. rows'[t][i] = rows[t][i]
      BY <1>3, <1>4, <3>1
    <3>3. \A q \in SenseRuns \ {r} : senseRun'[q] = senseRun[q]
      BY <1>1
    <3> HIDE DEF T, A
    <3> QED
      BY <1>5, <2>2, <3>2, <3>3 DEF Single
  <2> QED
    BY <2>3, <2>4
<1>7. HeardInv'
  <2>1. \A t \in SenseTenants, i \in Items : OnRecord(t, i) => OnRecord(t, i)'
    BY <1>4 DEF OnRecord, Commits, Turn
  <2>2. ASSUME NEW q \in SenseRuns, Ongoing(q)', q # r PROVE Heard(senseRun[q])'
    <3>1. Heard(senseRun[q]) /\ senseRun'[q] = senseRun[q]
      BY <1>1, <2>2 DEF FetchInv, HeardInv
    <3>2. senseRun[q].tenant \in SenseTenants /\ senseRun[q].heard \subseteq Items
      <4>1. Ongoing(q) /\ FetchTypeOK
        BY <1>1, <2>2 DEF FetchInv
      <4> QED
        BY <4>1, UnderwayAre DEF Underway
    <3> QED
      BY <2>1, <3>1, <3>2 DEF Heard
  <2>3. Heard(senseRun[r])'
    <3>1. senseRun[r].heard \subseteq Items /\ Heard(senseRun[r])
      BY <1>2, UnderwayAre DEF FetchInv, Underway, HeardInv
    <3>2. T' = T
      BY <1>1 DEF Commits, Turn
    <3>3. ASSUME NEW i \in senseRun[r].heard PROVE OnRecord(T, i)'
      <4>1. CASE OnRecord(T, i)
        BY <1>2, <2>1, <3>1, <3>2, <4>1
      <4>2. CASE A[i] > 0
        <5>1. rows'[T][i] > 0
          BY <1>2, <1>3, <1>4, <3>1, <4>2
        <5> QED
          BY <3>2, <5>1 DEF OnRecord
      <4> QED
        BY <3>1, <4>1, <4>2 DEF Heard
    <3> QED
      BY <1>1, <3>2, <3>3 DEF Heard, Commits, Turn
  <2> QED
    BY <2>2, <2>3 DEF HeardInv
<1> QED
  BY <1>3, <1>6, <1>7

(* Runs are closed: what they held is gone with them.                      *)
LEMMA ClosingKeeps ==
  ASSUME FetchInv, NEW C \in SUBSET SenseRuns, sensor' = sensor,
         senseRun' \in [SenseRuns -> SenseRun],
         \A q \in SenseRuns : senseRun'[q] = IF q \in C THEN Closed ELSE senseRun[q],
         rows' = rows, quotaUsed' = quotaUsed, queries' = queries, raced' = raced,
         doubled' = doubled, undone' = undone
  PROVE  FetchInv'
<1>1. \A q \in SenseRuns : Ongoing(q)' => q \notin C /\ Ongoing(q) /\ senseRun'[q] = senseRun[q]
  BY DEF Ongoing
<1>2. PartsBounded'
  BY <1>1 DEF FetchInv, PartsBounded, Bounded
<1>3. OneOfEach'
  <2>1. SUFFICES ASSUME sensor.looks # "never", NEW t \in SenseTenants, NEW i \in Items, <<t, i>> \notin doubled
                 PROVE  Single(t, i)'
    BY DEF OneOfEach
  <2>2. Single(t, i)
    BY <2>1 DEF FetchInv, OneOfEach
  <2>3. \A q \in SenseRuns : Holds(q, t, i)' => Holds(q, t, i) /\ senseRun'[q] = senseRun[q]
    BY <1>1 DEF Holds
  <2> QED
    BY <2>2, <2>3 DEF Single
<1>4. HeardInv'
  <2>1. ASSUME NEW q \in SenseRuns, Ongoing(q)' PROVE Heard(senseRun[q])'
    <3>1. Heard(senseRun[q]) /\ senseRun'[q] = senseRun[q]
      BY <1>1, <2>1 DEF FetchInv, HeardInv
    <3> QED
      BY <3>1 DEF Heard, OnRecord
  <2> QED
    BY <2>1 DEF HeardInv
<1> QED
  BY <1>2, <1>3, <1>4 DEF FetchInv, FetchTypeOK, QuotaBounded

(* Whose signals a sensor looks an item up in.                             *)
LEMMA SensorLooks == sensor \in Sensors => sensor.looks \in {"tenant", "everyone", "never"}
<1>1. Plain.looks = "tenant" /\ Plain = [looks |-> "tenant", parts |-> 1, fails |-> "end", search |-> FALSE, capped |-> FALSE, saves |-> "end"]
  BY DEF Plain
<1>2. WebSearch.looks = "never"
  BY <1>1 DEF WebSearch
<1>3. Feeds.looks = "tenant" /\ Feeds = [Plain EXCEPT !.parts = SenseParts, !.fails = "part"]
  BY <1>1 DEF Feeds
<1>4. Searches.looks = "tenant" /\ Searches = [Feeds EXCEPT !.search = TRUE]
  BY <1>1, <1>3 DEF Searches
<1>5. LinkedinReplies.looks = "everyone"
  BY <1>1, <1>3 DEF LinkedinReplies
<1>6. CompetitorContent.looks = "tenant"
  BY <1>1, <1>3, <1>4 DEF CompetitorContent
<1> QED
  BY <1>1, <1>2, <1>3, <1>4, <1>5, <1>6
     DEF Sensors, CompanyWebsite, TheirstackJobs, LinkedinJobs, LinkedinPosts, PostEngagement, WebsiteVisitors,
         HackernewsStories, RssArticles, CompetitorPosts, GoogleNews, WebSearchTrends

(* A step that waits, or commits, beside a counter left alone.             *)
LEMMA WaitedKeeps ==
  ASSUME FetchInv, NEW r \in SenseRuns, NEW rec, Waits(r, rec), Bounded(rec),
         quotaUsed' = quotaUsed, queries' = queries, raced' = raced
  PROVE  FetchInv'
<1>1. OneOfEach' /\ HeardInv'
  BY WaitsKeeps
<1>2. senseRun' \in [SenseRuns -> SenseRun] /\ PartsBounded'
  BY TurnKeeps DEF Waits
<1> QED
  BY <1>1, <1>2 DEF FetchInv, FetchTypeOK, QuotaBounded, Waits, Turn

(* A commit that asks no further question.                                 *)
LEMMA CommittedKeeps ==
  ASSUME FetchInv, NEW r \in SenseRuns, NEW rec, Commits(r, rec), Bounded(rec),
         quotaUsed' = quotaUsed, queries' = queries, raced' = raced
  PROVE  FetchInv'
<1>1. rows' \in [SenseTenants -> [Items -> Nat]] /\ OneOfEach' /\ HeardInv'
  BY CommitsKeeps
<1>2. senseRun' \in [SenseRuns -> SenseRun] /\ PartsBounded'
  BY TurnKeeps DEF Commits
<1> QED
  BY <1>1, <1>2 DEF FetchInv, FetchTypeOK, QuotaBounded, Commits, Turn

(* A run under way as its fields say.                                      *)
LEMMA RunAt ==
  ASSUME FetchInv, NEW r \in SenseRuns, senseRun[r].at \notin {"rest", "closed"}
  PROVE  /\ Ongoing(r) /\ senseRun[r] \in Underway /\ Bounded(senseRun[r]) /\ Heard(senseRun[r])
         /\ senseRun[r].tenant \in SenseTenants /\ senseRun[r].part \in 1..SenseParts
         /\ senseRun[r].answer \in Answers /\ senseRun[r].added \in [Items -> 0..2 * SenseParts]
         /\ senseRun[r].heard \subseteq Items /\ senseRun[r].late \subseteq Items /\ senseRun[r].seenUsed \in Nat
         /\ SenseParts \in Nat
<1>1. Ongoing(r) /\ senseRun[r] \in Underway
  BY UnderwayAre DEF FetchInv
<1>2. Bounded(senseRun[r]) /\ Heard(senseRun[r])
  BY <1>1 DEF FetchInv, PartsBounded, HeardInv
<1> QED
  BY <1>1, <1>2, SensingAssumption DEF Underway, Bounded

(* A run begins with nothing in hand.                                      *)
LEMMA StartSensingKeeps ==
  ASSUME FetchInv, NEW r \in SenseRuns, StartSensing(r), sensor' = sensor
  PROVE  FetchInv'
<1>1. PICK t \in SenseTenants, at \in {"count", "ask"} :
        senseRun' = [senseRun EXCEPT ![r] =
          [at |-> at, tenant |-> t, part |-> 1, answer |-> <<>>, added |-> NoPending, heard |-> {}, late |-> {},
           seenUsed |-> quotaUsed]]
  BY DEF StartSensing, Become
<1> DEFINE rec == [at |-> at, tenant |-> t, part |-> 1, answer |-> <<>>, added |-> NoPending, heard |-> {},
                   late |-> {}, seenUsed |-> quotaUsed]
<1>2. /\ rows' = rows /\ doubled' = doubled /\ undone' = undone /\ quotaUsed' = quotaUsed
      /\ queries' = queries /\ raced' = raced /\ ~Ongoing(r)
  BY DEF StartSensing, Ongoing
<1>3. rec \in Underway
  <2>1. <<>> \in Answers /\ quotaUsed \in Nat /\ 1 \in 1..SenseParts + 1
    BY SensingAssumption DEF Answers, FetchInv, FetchTypeOK
  <2> QED
    BY <2>1, NothingPending DEF Underway
<1>4. rec.part = 1 /\ rec.added = NoPending /\ rec.heard = {} /\ rec.late = {} /\ rec.at \in {"count", "ask"}
  OBVIOUS
<1>5. senseRun' = [senseRun EXCEPT ![r] = rec]
  BY <1>1
<1> HIDE DEF rec
<1>6. /\ senseRun' \in [SenseRuns -> SenseRun] /\ senseRun'[r] = rec
      /\ \A q \in SenseRuns \ {r} : senseRun'[q] = senseRun[q]
  BY <1>3, <1>5, RunsApart DEF FetchInv, FetchTypeOK
<1>7. \A q \in SenseRuns \ {r} : Ongoing(q)' <=> Ongoing(q)
  BY <1>6 DEF Ongoing
<1>8. Bounded(rec)
  BY <1>4, NothingPending, SensingAssumption DEF Bounded
<1>9. PartsBounded'
  BY <1>6, <1>7, <1>8 DEF FetchInv, PartsBounded, Bounded
<1>10. OneOfEach'
  <2>1. SUFFICES ASSUME sensor.looks # "never", NEW t_1 \in SenseTenants, NEW i \in Items, <<t_1, i>> \notin doubled
                 PROVE  Single(t_1, i)'
    BY <1>2 DEF OneOfEach
  <2>2. Single(t_1, i)
    BY <2>1 DEF FetchInv, OneOfEach
  <2>3. ~Holds(r, t_1, i)' /\ \A q \in SenseRuns \ {r} : Holds(q, t_1, i)' <=> Holds(q, t_1, i)
    BY <1>4, <1>6, <1>7, NothingPending DEF Holds
  <2> QED
    BY <1>2, <1>6, <2>2, <2>3 DEF Single
<1>11. HeardInv'
  <2>1. ASSUME NEW q \in SenseRuns \ {r}, Ongoing(q)' PROVE Heard(senseRun[q])'
    BY <1>2, <1>6, <1>7, <2>1 DEF FetchInv, HeardInv, Heard, OnRecord
  <2>2. Heard(senseRun[r])'
    BY <1>4, <1>6 DEF Heard
  <2> QED
    BY <2>1, <2>2 DEF HeardInv
<1> QED
  BY <1>2, <1>6, <1>9, <1>10, <1>11 DEF FetchInv, FetchTypeOK, QuotaBounded

(* The free quota counts a query, or is over.                              *)
LEMMA CountQueryKeeps ==
  ASSUME FetchInv, NEW r \in SenseRuns, CountQuery(r), sensor' = sensor
  PROVE  FetchInv'
<1> DEFINE rec == senseRun[r]
<1>1. rec.at = "count" /\ doubled' = doubled /\ undone' = undone
  BY DEF CountQuery
<1>2. /\ Ongoing(r) /\ rec \in Underway /\ Bounded(rec) /\ rec.seenUsed \in Nat
  BY <1>1, RunAt
<1>3. CASE rec.seenUsed >= FreeQuota
  <2>1. Waits(r, [rec EXCEPT !.at = "fall"]) /\ Bounded([rec EXCEPT !.at = "fall"])
    <3>1. [rec EXCEPT !.at = "fall"] \in Underway
      BY <1>2 DEF Underway
    <3>2. senseRun' = [senseRun EXCEPT ![r] = [rec EXCEPT !.at = "fall"]] /\ rows' = rows
      BY <1>3 DEF CountQuery, Become
    <3> QED
      BY <1>1, <1>2, <3>1, <3>2 DEF Waits, Turn, Bounded, Underway
  <2>2. quotaUsed' = quotaUsed /\ queries' = queries /\ raced' = raced /\ rows' = rows
    BY <1>3 DEF CountQuery
  <2> QED
    BY <1>1, <2>1, <2>2, WaitsKeeps, TurnKeeps DEF FetchInv, FetchTypeOK, QuotaBounded, Waits
<1>4. CASE ~(rec.seenUsed >= FreeQuota)
  <2> DEFINE new == [rec EXCEPT !.added = NoPending, !.late = {}, !.at = "ask"]
  <2>1. Commits(r, new) /\ Bounded(new)
    <3>1. new \in Underway
      BY <1>2, NothingPending DEF Underway
    <3>2. senseRun' = [senseRun EXCEPT ![r] = new] /\ rows' = Stored(r)
      BY <1>4 DEF CountQuery, Become, Saved
    <3>3. new.added = NoPending /\ new.at = "ask" /\ new.part = rec.part /\ new.tenant = rec.tenant
          /\ new.heard = rec.heard /\ new.late = {}
      BY <1>2 DEF Underway
    <3>4. Bounded(new)
      BY <1>1, <1>2, <3>3, NothingPending DEF Bounded, Underway
    <3> QED
      BY <1>1, <1>2, <3>1, <3>2, <3>3, <3>4 DEF Commits, Turn
  <2>2. quotaUsed' = rec.seenUsed + 1 /\ queries' = queries + 1 /\ raced' = (raced \/ quotaUsed # rec.seenUsed)
    BY <1>4 DEF CountQuery
  <2>3. quotaUsed' \in 0..FreeQuota /\ queries' \in Nat /\ raced' \in BOOLEAN /\ QuotaBounded'
    <3>1. quotaUsed' \in 0..FreeQuota /\ queries' \in Nat
      BY <1>2, <1>4, <2>2, SensingAssumption DEF FetchInv, FetchTypeOK
    <3>2. raced' \in BOOLEAN
      BY <2>2, Zenon
    <3>3. ASSUME ~raced' PROVE queries' = quotaUsed'
      <4>1. ~raced /\ quotaUsed = rec.seenUsed
        BY <2>2, <3>3, Zenon
      <4>2. queries = quotaUsed
        BY <4>1 DEF FetchInv, QuotaBounded
      <4> QED
        BY <2>2, <4>1, <4>2
    <3> QED
      BY <3>1, <3>2, <3>3 DEF QuotaBounded
  <2>4. rows' \in [SenseTenants -> [Items -> Nat]] /\ OneOfEach' /\ HeardInv'
    BY <2>1, CommitsKeeps
  <2>5. senseRun' \in [SenseRuns -> SenseRun] /\ PartsBounded'
    BY <2>1, TurnKeeps DEF Commits
  <2> QED
    BY <1>1, <2>3, <2>4, <2>5 DEF FetchInv, FetchTypeOK
<1> QED
  BY <1>3, <1>4

(* The session is rolled back: what it added is marked.                    *)
Undoes(r, rec) ==
  /\ Turn(r, rec) /\ rec.added = NoPending /\ rec.at # "over"
  /\ rec.heard = senseRun[r].heard /\ rec.late = {}
  /\ rows' = rows /\ doubled' = doubled
  /\ undone' = undone \cup {<<senseRun[r].tenant, i>> : i \in {j \in Items : senseRun[r].added[j] > 0}}

(* A rollback drops the additions of one run.                              *)
LEMMA UndoesKeeps ==
  ASSUME FetchInv, NEW r \in SenseRuns, NEW rec, Undoes(r, rec), Bounded(rec)
  PROVE  undone' \subseteq SenseTenants \X Items /\ OneOfEach' /\ HeardInv'
<1>1. /\ senseRun'[r] = rec /\ \A q \in SenseRuns \ {r} : senseRun'[q] = senseRun[q]
      /\ \A q \in SenseRuns : Ongoing(q)' <=> Ongoing(q)
  BY TurnKeeps DEF Undoes
<1>2. /\ Ongoing(r) /\ senseRun[r].tenant \in SenseTenants /\ senseRun[r].heard \subseteq Items
      /\ Heard(senseRun[r])
  <2>1. Ongoing(r)
    BY DEF Undoes, Turn
  <2> QED
    BY <2>1, RunAt, UnderwayAre DEF FetchInv
<1>3. undone' \subseteq SenseTenants \X Items
  BY <1>2 DEF Undoes, FetchInv, FetchTypeOK
<1>4. ASSUME NEW t, NEW i \in Items
      PROVE  ~Holds(r, t, i)' /\ \A q \in SenseRuns \ {r} : Holds(q, t, i)' <=> Holds(q, t, i)
  BY <1>1, NothingPending DEF Holds, Undoes
<1>5. OneOfEach'
  <2>1. SUFFICES ASSUME sensor.looks # "never", NEW t \in SenseTenants, NEW i \in Items, <<t, i>> \notin doubled
                 PROVE  Single(t, i)'
    BY DEF OneOfEach, Undoes, Turn
  <2>2. Single(t, i)
    BY <2>1 DEF FetchInv, OneOfEach
  <2> QED
    BY <1>1, <1>4, <2>2 DEF Single, Undoes
<1>6. HeardInv'
  <2>1. \A t \in SenseTenants, i \in Items : OnRecord(t, i) => OnRecord(t, i)'
    BY DEF OnRecord, Undoes, Turn
  <2>2. ASSUME NEW q \in SenseRuns, Ongoing(q)', q # r PROVE Heard(senseRun[q])'
    <3>1. Heard(senseRun[q]) /\ senseRun'[q] = senseRun[q] /\ Ongoing(q)
      BY <1>1, <2>2 DEF FetchInv, HeardInv
    <3>2. senseRun[q].tenant \in SenseTenants /\ senseRun[q].heard \subseteq Items
      BY <3>1, RunAt, UnderwayAre DEF FetchInv
    <3> QED
      BY <2>1, <3>1, <3>2 DEF Heard
  <2>3. Heard(senseRun[r])'
    <3>1. senseRun'[r].tenant = senseRun[r].tenant /\ senseRun'[r].heard = senseRun[r].heard
          /\ senseRun'[r].at # "over"
      BY <1>1 DEF Undoes, Turn
    <3>2. ASSUME NEW i \in senseRun[r].heard PROVE OnRecord(senseRun[r].tenant, i)'
      <4>1. CASE OnRecord(senseRun[r].tenant, i)
        BY <1>2, <2>1, <3>1, <4>1
      <4>2. CASE senseRun[r].added[i] > 0
        <5>1. <<senseRun[r].tenant, i>> \in undone'
          BY <1>2, <4>2 DEF Undoes
        <5> QED
          BY <3>1, <5>1 DEF OnRecord
      <4> QED
        BY <1>2, <4>1, <4>2 DEF Heard
    <3> QED
      BY <3>1, <3>2 DEF Heard
  <2> QED
    BY <2>2, <2>3 DEF HeardInv
<1> QED
  BY <1>3, <1>5, <1>6

(* The paid search, with the commit or the rollback of its guard.          *)
LEMMA FallBackKeeps ==
  ASSUME FetchInv, NEW r \in SenseRuns, FallBack(r), sensor' = sensor
  PROVE  FetchInv'
<1> DEFINE rec == senseRun[r]
<1>1. /\ rec.at = "fall" /\ quotaUsed' = quotaUsed /\ queries' = queries /\ raced' = raced /\ doubled' = doubled
  BY DEF FallBack
<1>2. Ongoing(r) /\ rec \in Underway /\ Bounded(rec) /\ rec.part \in 1..SenseParts /\ <<>> \in Answers
  BY <1>1, RunAt DEF Answers
<1>3. ASSUME rows' = Stored(r), undone' = undone, NEW a \in Answers,
             Become(r, [Saved(rec) EXCEPT !.at = "look", !.answer = a])
      PROVE  FetchInv'
  <2> DEFINE new == [rec EXCEPT !.added = NoPending, !.late = {}, !.at = "look", !.answer = a]
  <2>1. Commits(r, new) /\ Bounded(new)
    <3>1. new \in Underway
      BY <1>2, NothingPending DEF Underway
    <3>2. senseRun' = [senseRun EXCEPT ![r] = new]
      BY <1>3 DEF Become, Saved
    <3>3. new.added = NoPending /\ new.at = "look" /\ new.part = rec.part /\ new.tenant = rec.tenant
          /\ new.heard = rec.heard /\ new.late = {} /\ new.answer = a
      BY <1>2 DEF Underway
    <3>4. Bounded(new)
      <4>1. Len(a) \in 0..2 /\ rec.part \in Nat /\ rec.part >= 1 /\ rec.part <= SenseParts
        BY <1>2, AnswersAre DEF Bounded
      <4> HIDE DEF new, rec
      <4>2. \A i \in Items : new.added[i] = 0
        BY <3>3, NothingPending
      <4>3. 0 + Len(new.answer) <= 2 * new.part
        <5>1. 0 + Len(a) <= 2 * rec.part
          BY <4>1, Room, 0 \in Nat, SensingAssumption
        <5> QED
          BY <3>3, <5>1
      <4> QED
        BY <3>3, <4>1, <4>2, <4>3 DEF Bounded
    <3> QED
      BY <1>1, <1>2, <1>3, <3>1, <3>2, <3>3, <3>4 DEF Commits, Turn
  <2>2. rows' \in [SenseTenants -> [Items -> Nat]] /\ OneOfEach' /\ HeardInv'
    BY <2>1, CommitsKeeps
  <2>3. senseRun' \in [SenseRuns -> SenseRun] /\ PartsBounded'
    BY <2>1, TurnKeeps DEF Commits
  <2> QED
    BY <1>1, <1>3, <2>2, <2>3 DEF FetchInv, FetchTypeOK, QuotaBounded
<1>4. ASSUME rows' = rows, undone' = undone, Become(r, [rec EXCEPT !.at = "look", !.answer = <<>>])
      PROVE  FetchInv'
  <2> DEFINE new == [rec EXCEPT !.at = "look", !.answer = <<>>]
  <2>1. Waits(r, new) /\ Bounded(new)
    <3>1. new \in Underway
      BY <1>2 DEF Underway
    <3>2. senseRun' = [senseRun EXCEPT ![r] = new]
      BY <1>4 DEF Become
    <3>3. new.added = rec.added /\ new.at = "look" /\ new.part = rec.part /\ new.tenant = rec.tenant
          /\ new.heard = rec.heard /\ new.late = rec.late /\ Len(new.answer) = 0
      BY <1>2 DEF Underway
    <3>4. Bounded(new)
      BY <1>1, <1>2, <3>3 DEF Bounded, Underway
    <3> QED
      BY <1>1, <1>2, <1>4, <3>1, <3>2, <3>3, <3>4 DEF Waits, Turn
  <2> QED
    BY <1>1, <1>4, <2>1, WaitsKeeps, TurnKeeps DEF FetchInv, FetchTypeOK, QuotaBounded, Waits
<1>5. ASSUME rows' = rows, Become(r, [Saved(rec) EXCEPT !.at = "look", !.answer = <<>>]),
             undone' = undone \cup {<<rec.tenant, i>> : i \in {j \in Items : rec.added[j] > 0}}
      PROVE  FetchInv'
  <2> DEFINE new == [rec EXCEPT !.added = NoPending, !.late = {}, !.at = "look", !.answer = <<>>]
  <2>1. Undoes(r, new) /\ Bounded(new)
    <3>1. new \in Underway
      BY <1>2, NothingPending DEF Underway
    <3>2. senseRun' = [senseRun EXCEPT ![r] = new]
      BY <1>5 DEF Become, Saved
    <3>3. new.added = NoPending /\ new.at = "look" /\ new.part = rec.part /\ new.tenant = rec.tenant
          /\ new.heard = rec.heard /\ new.late = {} /\ Len(new.answer) = 0
      BY <1>2 DEF Underway
    <3>4. Bounded(new)
      <4>1. new.part <= SenseParts /\ new.part \in Nat
        BY <1>2, <3>3 DEF Bounded
      <4> HIDE DEF new, rec
      <4>2. \A i \in Items : new.added[i] = 0
        BY <3>3, NothingPending
      <4> QED
        BY <3>3, <4>1, <4>2 DEF Bounded
    <3> QED
      BY <1>1, <1>2, <1>5, <3>1, <3>2, <3>3, <3>4 DEF Undoes, Turn
  <2>2. undone' \subseteq SenseTenants \X Items /\ OneOfEach' /\ HeardInv'
    BY <2>1, UndoesKeeps
  <2>3. senseRun' \in [SenseRuns -> SenseRun] /\ PartsBounded'
    BY <2>1, TurnKeeps DEF Undoes
  <2> QED
    BY <1>1, <1>5, <2>2, <2>3 DEF FetchInv, FetchTypeOK, QuotaBounded
<1> QED
  BY <1>3, <1>4, <1>5 DEF FallBack

(* The answer, or a failure that the sensor handles its way.               *)
LEMMA AnsweredKeeps ==
  ASSUME FetchInv, NEW r \in SenseRuns, Answered(r), sensor' = sensor
  PROVE  FetchInv'
<1> DEFINE rec == senseRun[r]
<1>1. /\ rec.at = "ask" /\ rows' = rows /\ quotaUsed' = quotaUsed /\ queries' = queries /\ raced' = raced
      /\ doubled' = doubled /\ undone' = undone
  BY DEF Answered
<1>2. Ongoing(r) /\ rec \in Underway /\ Bounded(rec) /\ rec.part \in 1..SenseParts /\ <<>> \in Answers
      /\ rec.added \in [Items -> 0..2 * SenseParts]
  BY <1>1, RunAt DEF Answers
<1>3. ASSUME NEW a \in Answers, Become(r, [rec EXCEPT !.at = "look", !.answer = a]) PROVE FetchInv'
  <2> DEFINE new == [rec EXCEPT !.at = "look", !.answer = a]
  <2>1. Waits(r, new) /\ Bounded(new)
    <3>1. new \in Underway
      BY <1>2 DEF Underway
    <3>2. senseRun' = [senseRun EXCEPT ![r] = new]
      BY <1>3 DEF Become
    <3>3. new.added = rec.added /\ new.at = "look" /\ new.part = rec.part /\ new.tenant = rec.tenant
          /\ new.heard = rec.heard /\ new.late = rec.late /\ new.answer = a
      BY <1>2 DEF Underway
    <3>4. Bounded(new)
      <4>1. Len(a) \in 0..2 /\ rec.part \in Nat /\ rec.part <= SenseParts /\ SenseParts \in Nat
            /\ \A i \in Items : rec.added[i] <= 2 * (rec.part - 1) /\ rec.added[i] \in Nat
        BY <1>1, <1>2, AnswersAre, SensingAssumption DEF Bounded
      <4> HIDE DEF new, rec
      <4>2. \A i \in Items : rec.added[i] + Len(a) <= 2 * rec.part
        BY <4>1, Room
      <4> QED
        BY <3>3, <4>1, <4>2 DEF Bounded
    <3> QED
      BY <1>1, <1>2, <3>1, <3>2, <3>3, <3>4 DEF Waits, Turn
  <2> QED
    BY <1>1, <2>1, WaitsKeeps, TurnKeeps DEF FetchInv, FetchTypeOK, QuotaBounded, Waits
<1>4. CASE Become(r, [rec EXCEPT !.at = "fall"])
  <2> DEFINE new == [rec EXCEPT !.at = "fall"]
  <2>1. Waits(r, new) /\ Bounded(new)
    <3>1. new \in Underway
      BY <1>2 DEF Underway
    <3>2. senseRun' = [senseRun EXCEPT ![r] = new]
      BY <1>4 DEF Become
    <3>3. new.added = rec.added /\ new.at = "fall" /\ new.part = rec.part /\ new.tenant = rec.tenant
          /\ new.heard = rec.heard /\ new.late = rec.late
      BY <1>2 DEF Underway
    <3> HIDE DEF new
    <3>4. Bounded(new)
      BY <1>1, <1>2, <3>3 DEF Bounded
    <3> QED
      BY <1>1, <1>2, <3>1, <3>2, <3>3, <3>4 DEF Waits, Turn
  <2> QED
    BY <1>1, <2>1, WaitsKeeps, TurnKeeps DEF FetchInv, FetchTypeOK, QuotaBounded, Waits
<1>5. CASE Become(r, Closed)
  <2>1. /\ \A q \in SenseRuns : senseRun'[q] = IF q \in {r} THEN Closed ELSE senseRun[q]
        /\ senseRun' \in [SenseRuns -> SenseRun]
    BY <1>5, RunsApart DEF Become, FetchInv, FetchTypeOK
  <2> QED
    BY <1>1, <2>1, ClosingKeeps
<1> QED
  BY <1>2, <1>3, <1>4, <1>5 DEF Answered

(* One item is looked up.                                                  *)
LEMMA LookItemKeeps ==
  ASSUME FetchInv, NEW r \in SenseRuns, LookItem(r), sensor' = sensor
  PROVE  FetchInv'
<1> DEFINE rec == senseRun[r]
           i == Head(rec.answer)
           t == rec.tenant
<1>1. /\ rec.at = "look" /\ rec.answer # <<>> /\ rows' = rows /\ quotaUsed' = quotaUsed /\ queries' = queries
      /\ raced' = raced /\ undone' = undone
  BY DEF LookItem
<1>2. /\ Ongoing(r) /\ rec \in Underway /\ Bounded(rec) /\ Heard(rec) /\ t \in SenseTenants
      /\ rec.part \in 1..SenseParts /\ rec.answer \in Answers /\ rec.added \in [Items -> 0..2 * SenseParts]
      /\ rec.heard \subseteq Items /\ rec.late \subseteq Items /\ SenseParts \in Nat
  BY <1>1, RunAt
<1>3. /\ i \in Items /\ Tail(rec.answer) \in Answers /\ Len(rec.answer) \in 1..2
      /\ Len(Tail(rec.answer)) = Len(rec.answer) - 1
  BY <1>1, <1>2, AnswersAre
<1>4. /\ rec.part <= SenseParts
      /\ \A j \in Items : rec.added[j] \in Nat /\ rec.added[j] + Len(rec.answer) <= 2 * rec.part
  BY <1>1, <1>2 DEF Bounded
<1>5. CASE Known(t, i)
  <2> DEFINE new == [rec EXCEPT !.answer = Tail(rec.answer), !.heard = rec.heard \cup {i}]
  <2>1. senseRun' = [senseRun EXCEPT ![r] = new] /\ doubled' = doubled
    BY <1>5 DEF LookItem, Become
  <2>2. new \in Underway
    BY <1>2, <1>3 DEF Underway
  <2>3. /\ new.added = rec.added /\ new.at = "look" /\ new.part = rec.part /\ new.tenant = t
        /\ new.heard = rec.heard \cup {i} /\ new.late = rec.late /\ new.answer = Tail(rec.answer)
    BY <1>1, <1>2 DEF Underway
  <2> HIDE DEF new
  <2>4. Turn(r, new) /\ Bounded(new)
    <3>1. Bounded(new)
      <4>1. ASSUME NEW j \in Items PROVE rec.added[j] + (Len(rec.answer) - 1) <= 2 * rec.part
        <5>1. /\ rec.added[j] \in Nat /\ Len(rec.answer) \in 0..2 /\ Len(rec.answer) >= 1 /\ rec.part \in Nat
              /\ rec.part <= SenseParts /\ SenseParts \in Nat /\ rec.added[j] + Len(rec.answer) <= 2 * rec.part
          BY <1>2, <1>3, <1>4
        <5> HIDE DEF rec
        <5> QED
          BY <5>1, Room
      <4> QED
        BY <1>3, <1>4, <2>3, <4>1 DEF Bounded
    <3> QED
      BY <1>2, <2>1, <2>2, <2>3, <3>1 DEF Turn
  <2>5. /\ senseRun' \in [SenseRuns -> SenseRun] /\ PartsBounded' /\ senseRun'[r] = new
        /\ \A q \in SenseRuns \ {r} : senseRun'[q] = senseRun[q]
        /\ \A q \in SenseRuns : Ongoing(q)' <=> Ongoing(q)
    BY <2>4, TurnKeeps
  <2>6. OneOfEach'
    <3>1. SUFFICES ASSUME sensor.looks # "never", NEW u \in SenseTenants, NEW j \in Items, <<u, j>> \notin doubled
                   PROVE  Single(u, j)'
      BY <2>1 DEF OneOfEach
    <3>2. Single(u, j)
      BY <3>1 DEF FetchInv, OneOfEach
    <3>3. \A q \in SenseRuns : (Holds(q, u, j)' <=> Holds(q, u, j)) /\ (Holds(q, u, j) => senseRun'[q].added = senseRun[q].added)
      BY <2>3, <2>5 DEF Holds
    <3> QED
      BY <1>1, <3>2, <3>3 DEF Single
  <2>7. HeardInv'
    <3>1. \A u, j : OnRecord(u, j)' <=> OnRecord(u, j)
      BY <1>1 DEF OnRecord
    <3>2. ASSUME NEW q \in SenseRuns, Ongoing(q)', q # r PROVE Heard(senseRun[q])'
      <4>1. senseRun'[q] = senseRun[q] /\ Heard(senseRun[q])
        BY <2>5, <3>2 DEF FetchInv, HeardInv
      <4> QED
        BY <3>1, <4>1 DEF Heard
    <3>3. OnRecord(t, i)
      BY <1>2, <1>3, <1>5 DEF Known, OnRecord
    <3>4. Heard(senseRun[r])'
      <4>1. /\ senseRun'[r].tenant = t /\ senseRun'[r].heard = rec.heard \cup {i} /\ senseRun'[r].late = rec.late
            /\ senseRun'[r].added = rec.added /\ senseRun'[r].at # "over"
        BY <2>3, <2>5
      <4>2. \A j \in senseRun'[r].heard : OnRecord(senseRun'[r].tenant, j) \/ (j \in senseRun'[r].late /\ senseRun'[r].added[j] > 0)
        BY <1>2, <3>3, <4>1 DEF Heard
      <4> QED
        BY <3>1, <4>1, <4>2 DEF Heard
    <3> QED
      BY <3>2, <3>4 DEF HeardInv
  <2> QED
    BY <1>1, <2>1, <2>5, <2>6, <2>7 DEF FetchInv, FetchTypeOK, QuotaBounded
<1>6. CASE ~Known(t, i)
  <2> DEFINE new == [rec EXCEPT !.answer = Tail(rec.answer), !.heard = rec.heard \cup {i}, !.late = rec.late \cup {i},
                                !.added[i] = rec.added[i] + 1]
  <2>1. /\ senseRun' = [senseRun EXCEPT ![r] = new]
        /\ doubled' = IF InFlight(t, i) THEN doubled \cup {<<t, i>>} ELSE doubled
    BY <1>6 DEF LookItem, Become
  <2>2. /\ new.at = "look" /\ new.part = rec.part /\ new.tenant = t
        /\ new.heard = rec.heard \cup {i} /\ new.late = rec.late \cup {i} /\ new.answer = Tail(rec.answer)
        /\ new.added = [rec.added EXCEPT ![i] = rec.added[i] + 1] /\ new.seenUsed = rec.seenUsed
    BY <1>1, <1>2 DEF Underway
  <2>3. /\ new.added[i] = rec.added[i] + 1
        /\ \A j \in Items : j = i \/ new.added[j] = rec.added[j]
        /\ new.added \in [Items -> 0..2 * SenseParts]
    <3>1. rec.added[i] + 1 \in 0..2 * SenseParts
      <4>1. /\ rec.added[i] \in Nat /\ Len(rec.answer) \in 0..2 /\ Len(rec.answer) >= 1 /\ rec.part \in Nat
            /\ rec.part <= SenseParts /\ SenseParts \in Nat /\ rec.added[i] + Len(rec.answer) <= 2 * rec.part
        BY <1>2, <1>3, <1>4
      <4> HIDE DEF rec, i
      <4> QED
        BY <4>1, Room
    <3> HIDE DEF new, rec, i
    <3> QED
      BY <1>2, <1>3, <2>2, <3>1
  <2>4. new \in Underway
    <3>1. [rec.added EXCEPT ![i] = rec.added[i] + 1] \in [Items -> 0..2 * SenseParts]
      BY <2>2, <2>3
    <3> QED
      BY <1>2, <1>3, <3>1 DEF Underway
  <2> HIDE DEF new
  <2>5. Turn(r, new) /\ Bounded(new)
    <3>1. \A j \in Items : new.added[j] + Len(new.answer) <= 2 * new.part
      <4>1. ASSUME NEW j \in Items PROVE new.added[j] + Len(new.answer) <= 2 * new.part
        <5>1. /\ rec.added[j] \in Nat /\ Len(rec.answer) \in 0..2 /\ Len(rec.answer) >= 1 /\ rec.part \in Nat
              /\ rec.part <= SenseParts /\ SenseParts \in Nat /\ rec.added[j] + Len(rec.answer) <= 2 * rec.part
          BY <1>2, <1>3, <1>4
        <5>2. new.added[j] \in {rec.added[j], rec.added[j] + 1}
          BY <2>3
        <5>3. Len(new.answer) = Len(rec.answer) - 1 /\ new.part = rec.part
          BY <1>3, <2>2
        <5> HIDE DEF rec, i
        <5>4. /\ rec.added[j] + (Len(rec.answer) - 1) <= 2 * rec.part
              /\ (rec.added[j] + 1) + (Len(rec.answer) - 1) <= 2 * rec.part
          BY <5>1, Room
        <5> QED
          BY <5>2, <5>3, <5>4
      <4> QED
        BY <4>1
    <3> QED
      BY <1>2, <1>4, <2>1, <2>2, <2>4, <3>1 DEF Turn, Bounded
  <2>6. /\ senseRun' \in [SenseRuns -> SenseRun] /\ PartsBounded' /\ senseRun'[r] = new
        /\ \A q \in SenseRuns \ {r} : senseRun'[q] = senseRun[q]
        /\ \A q \in SenseRuns : Ongoing(q)' <=> Ongoing(q)
    BY <2>5, TurnKeeps
  <2>7. doubled \subseteq doubled' /\ doubled' \subseteq SenseTenants \X Items
    BY <1>2, <1>3, <2>1 DEF FetchInv, FetchTypeOK
  <2>8. OneOfEach'
    <3>1. SUFFICES ASSUME sensor.looks # "never", NEW u \in SenseTenants, NEW j \in Items, <<u, j>> \notin doubled'
                   PROVE  Single(u, j)'
      BY DEF OneOfEach
    <3>2. Single(u, j)
      BY <2>7, <3>1 DEF FetchInv, OneOfEach
    <3>3. CASE u = t /\ j = i
      <4>1. ~InFlight(t, i)
        BY <2>1, <3>1, <3>3
      <4>2. \A q \in SenseRuns : ~Holds(q, t, i)
        BY <4>1 DEF InFlight, Holds
      <4>3. rows[t][i] = 0
        <5>1. rows[t][i] \in Nat /\ ~(rows[t][i] > 0)
          <6>1. sensor.looks \in {"tenant", "everyone"}
            BY <3>1, SensorLooks DEF FetchInv, FetchTypeOK
          <6> QED
            BY <1>2, <1>3, <1>6, <6>1 DEF Known, FetchInv, FetchTypeOK
        <5> QED
          BY <5>1
      <4>4. rec.added[i] = 0
        BY <1>2, <1>3, <1>4, <4>2 DEF Holds
      <4>5. new.added[i] = 1
        BY <2>3, <4>4
      <4> HIDE DEF t, i, rec
      <4>6. \A q \in SenseRuns \ {r} : ~Holds(q, u, j)'
        BY <2>6, <3>3, <4>2 DEF Holds
      <4>7. \A q \in SenseRuns : Holds(q, u, j)' => q = r
        BY <4>6
      <4>8. rows'[u][j] = 0 /\ senseRun'[r].added[j] = 1
        BY <1>1, <2>6, <3>3, <4>3, <4>5
      <4> QED
        BY <4>7, <4>8 DEF Single
    <3>4. CASE ~(u = t /\ j = i)
      <4>1. \A q \in SenseRuns : (Holds(q, u, j)' <=> Holds(q, u, j)) /\ (Holds(q, u, j) => senseRun'[q].added[j] = senseRun[q].added[j])
        BY <2>2, <2>3, <2>6, <3>4 DEF Holds
      <4> HIDE DEF t, i, rec
      <4> QED
        BY <1>1, <3>2, <4>1 DEF Single
    <3> QED
      BY <3>3, <3>4
  <2>9. HeardInv'
    <3>1. \A u, j : OnRecord(u, j)' <=> OnRecord(u, j)
      BY <1>1 DEF OnRecord
    <3>2. ASSUME NEW q \in SenseRuns, Ongoing(q)', q # r PROVE Heard(senseRun[q])'
      <4>1. senseRun'[q] = senseRun[q] /\ Heard(senseRun[q])
        BY <2>6, <3>2 DEF FetchInv, HeardInv
      <4> QED
        BY <3>1, <4>1 DEF Heard
    <3>3. Heard(senseRun[r])'
      <4>1. \A j \in new.heard : OnRecord(new.tenant, j) \/ (j \in new.late /\ new.added[j] > 0)
        <5>1. TAKE j \in new.heard
        <5>2. CASE j = i
          <6>1. new.added[i] > 0
            BY <1>3, <1>4, <2>3
          <6> QED
            BY <2>2, <5>2, <6>1
        <5>3. CASE j # i
          <6>1. j \in rec.heard /\ j \in Items /\ new.added[j] = rec.added[j]
            BY <1>2, <2>2, <2>3, <5>3
          <6> QED
            BY <1>2, <2>2, <6>1 DEF Heard
        <5> QED
          BY <5>2, <5>3
      <4> QED
        BY <2>2, <2>6, <3>1, <4>1 DEF Heard
    <3> QED
      BY <3>2, <3>3 DEF HeardInv
  <2> QED
    BY <1>1, <2>6, <2>7, <2>8, <2>9 DEF FetchInv, FetchTypeOK, QuotaBounded
<1> QED
  BY <1>5, <1>6

(* The next part, the end with its commit, or the return without one.      *)
LEMMA NextPartKeeps ==
  ASSUME FetchInv, NEW r \in SenseRuns, NextPart(r), sensor' = sensor
  PROVE  FetchInv'
<1> DEFINE rec == senseRun[r]
<1>1. /\ rec.at = "look" /\ rec.answer = <<>> /\ quotaUsed' = quotaUsed /\ queries' = queries
      /\ raced' = raced /\ doubled' = doubled /\ undone' = undone
  BY DEF NextPart
<1>2. /\ Ongoing(r) /\ rec \in Underway /\ Bounded(rec) /\ rec.part \in 1..SenseParts /\ SenseParts \in Nat
      /\ rec.added \in [Items -> 0..2 * SenseParts]
  BY <1>1, RunAt
<1>3. \A i \in Items : rec.added[i] \in Nat /\ rec.added[i] <= 2 * rec.part
  <2>1. \A i \in Items : rec.added[i] + Len(<<>>) <= 2 * rec.part
    BY <1>1, <1>2 DEF Bounded
  <2>2. \A i \in Items : rec.added[i] \in Nat
    BY <1>2
  <2> HIDE DEF rec
  <2> QED
    BY <2>1, <2>2
<1>4. sensor.parts \in 1..SenseParts
  BY SensorsKnown DEF FetchInv, FetchTypeOK
<1>5. CASE rec.part >= sensor.parts
  <2> DEFINE new == [rec EXCEPT !.added = NoPending, !.late = {}, !.at = "over"]
  <2>1. Commits(r, new) /\ Bounded(new)
    <3>1. new \in Underway
      BY <1>2, NothingPending DEF Underway
    <3>2. senseRun' = [senseRun EXCEPT ![r] = new] /\ rows' = Stored(r)
      <4>1. ~(rec.part < sensor.parts)
        BY <1>2, <1>4, <1>5
      <4> QED
        BY <1>5, <4>1 DEF NextPart, Become, Saved
    <3>3. new.added = NoPending /\ new.at = "over" /\ new.part = rec.part /\ new.tenant = rec.tenant
          /\ new.heard = rec.heard /\ new.late = {}
      BY <1>2 DEF Underway
    <3>4. Bounded(new)
      BY <1>2, <3>3 DEF Bounded
    <3> QED
      BY <1>1, <1>2, <3>1, <3>2, <3>3, <3>4 DEF Commits, Turn
  <2> QED
    BY <1>1, <2>1, CommittedKeeps
<1>6. CASE rec.part < sensor.parts /\ sensor.capped /\ rec.part >= QueryLimit
  <2> DEFINE new == [rec EXCEPT !.at = "short"]
  <2>1. Waits(r, new) /\ Bounded(new)
    <3>1. new \in Underway
      BY <1>2 DEF Underway
    <3>2. senseRun' = [senseRun EXCEPT ![r] = new] /\ rows' = rows
      <4>1. ~(rec.part >= sensor.parts)
        BY <1>2, <1>4, <1>6
      <4> QED
        BY <1>6, <4>1 DEF NextPart, Become
    <3>3. new.added = rec.added /\ new.at = "short" /\ new.part = rec.part /\ new.tenant = rec.tenant
          /\ new.heard = rec.heard /\ new.late = rec.late
      BY <1>2 DEF Underway
    <3>4. Bounded(new)
      BY <1>2, <3>3 DEF Bounded
    <3> QED
      BY <1>1, <1>2, <3>1, <3>2, <3>3, <3>4 DEF Waits, Turn
  <2> QED
    BY <1>1, <2>1, WaitedKeeps
<1>7. CASE rec.part < sensor.parts /\ ~(sensor.capped /\ rec.part >= QueryLimit)
  <2> DEFINE at == IF sensor.search THEN "count" ELSE "ask"
             next == [rec EXCEPT !.at = at, !.part = rec.part + 1, !.seenUsed = quotaUsed]
             saved == [next EXCEPT !.added = NoPending, !.late = {}]
  <2>1. ~(rec.part >= sensor.parts) /\ rec.part + 1 \in 1..SenseParts + 1 /\ rec.part + 1 <= SenseParts
    BY <1>2, <1>4, <1>7
  <2>2. at \in {"count", "ask"} /\ quotaUsed \in Nat
    BY DEF FetchInv, FetchTypeOK
  <2> HIDE DEF at
  <2>3. next \in Underway /\ saved \in Underway
    <3>1. next \in Underway
      BY <1>2, <2>1, <2>2 DEF Underway
    <3> HIDE DEF next
    <3> QED
      BY <3>1, NothingPending DEF Underway
  <2>4. /\ next.added = rec.added /\ next.at = at /\ next.part = rec.part + 1 /\ next.tenant = rec.tenant
        /\ next.heard = rec.heard /\ next.late = rec.late
        /\ saved.added = NoPending /\ saved.at = at /\ saved.part = rec.part + 1 /\ saved.tenant = rec.tenant
        /\ saved.heard = rec.heard /\ saved.late = {}
    BY <1>2 DEF Underway
  <2>5. \/ rows' = Stored(r) /\ senseRun' = [senseRun EXCEPT ![r] = saved]
        \/ rows' = rows /\ senseRun' = [senseRun EXCEPT ![r] = next]
    BY <1>7, <2>1 DEF NextPart, Become, Saved, at
  <2> HIDE DEF next, saved
  <2>6. Bounded(next) /\ Bounded(saved)
    <3>1. \A i \in Items : rec.added[i] <= 2 * ((rec.part + 1) - 1) /\ 0 <= 2 * ((rec.part + 1) - 1)
      BY <1>2, <1>3
    <3> HIDE DEF rec
    <3> QED
      BY <2>1, <2>2, <2>4, <3>1, NothingPending DEF Bounded
  <2>7. CASE rows' = Stored(r) /\ senseRun' = [senseRun EXCEPT ![r] = saved]
    <3>1. Commits(r, saved)
      BY <1>1, <1>2, <2>3, <2>4, <2>7 DEF Commits, Turn
    <3> QED
      BY <1>1, <2>6, <3>1, CommittedKeeps
  <2>8. CASE rows' = rows /\ senseRun' = [senseRun EXCEPT ![r] = next]
    <3>1. Waits(r, next)
      BY <1>1, <1>2, <2>2, <2>3, <2>4, <2>8 DEF Waits, Turn
    <3> QED
      BY <1>1, <2>6, <3>1, WaitedKeeps
  <2> QED
    BY <2>5, <2>7, <2>8
<1> QED
  <2>1. rec.part \in Nat /\ sensor.parts \in Nat
    BY <1>2, <1>4
  <2>2. rec.part >= sensor.parts \/ rec.part < sensor.parts
    BY <2>1
  <2> QED
    BY <1>5, <1>6, <1>7, <2>2

(* The caller commits the session of a run that returned early, or not.    *)
LEMMA CallerEndsKeeps ==
  ASSUME FetchInv, NEW r \in SenseRuns, CallerEnds(r), sensor' = sensor
  PROVE  FetchInv'
<1> DEFINE rec == senseRun[r]
<1>1. /\ rec.at = "short" /\ quotaUsed' = quotaUsed /\ queries' = queries
      /\ raced' = raced /\ doubled' = doubled /\ undone' = undone
  BY DEF CallerEnds
<1>2. /\ Ongoing(r) /\ rec \in Underway /\ Bounded(rec)
  BY <1>1, RunAt
<1>3. CASE rows' = Stored(r) /\ Become(r, [Saved(rec) EXCEPT !.at = "over"])
  <2> DEFINE new == [rec EXCEPT !.added = NoPending, !.late = {}, !.at = "over"]
  <2>1. Commits(r, new) /\ Bounded(new)
    <3>1. new \in Underway
      BY <1>2, NothingPending DEF Underway
    <3>2. senseRun' = [senseRun EXCEPT ![r] = new]
      BY <1>3 DEF Become, Saved
    <3>3. new.added = NoPending /\ new.at = "over" /\ new.part = rec.part /\ new.tenant = rec.tenant
          /\ new.heard = rec.heard /\ new.late = {}
      BY <1>2 DEF Underway
    <3>4. Bounded(new)
      BY <1>2, <3>3 DEF Bounded
    <3> QED
      BY <1>1, <1>2, <1>3, <3>1, <3>2, <3>3, <3>4 DEF Commits, Turn
  <2> QED
    BY <1>1, <2>1, CommittedKeeps
<1>4. CASE Become(r, [rec EXCEPT !.at = "lost"]) /\ rows' = rows
  <2> DEFINE new == [rec EXCEPT !.at = "lost"]
  <2>1. Waits(r, new) /\ Bounded(new)
    <3>1. new \in Underway
      BY <1>2 DEF Underway
    <3>2. senseRun' = [senseRun EXCEPT ![r] = new]
      BY <1>4 DEF Become
    <3>3. new.added = rec.added /\ new.at = "lost" /\ new.part = rec.part /\ new.tenant = rec.tenant
          /\ new.heard = rec.heard /\ new.late = rec.late
      BY <1>2 DEF Underway
    <3>4. Bounded(new)
      BY <1>2, <3>3 DEF Bounded
    <3> QED
      BY <1>1, <1>2, <1>4, <3>1, <3>2, <3>3, <3>4 DEF Waits, Turn
  <2> QED
    BY <1>1, <2>1, WaitedKeeps
<1> QED
  BY <1>3, <1>4 DEF CallerEnds

(* A run closes, or the process dies with every run.                       *)
LEMMA CloseSensingKeeps ==
  ASSUME FetchInv, NEW r \in SenseRuns, CloseSensing(r) \/ SensingCrash, sensor' = sensor
  PROVE  FetchInv'
<1>1. CASE CloseSensing(r)
  <2>1. /\ \A q \in SenseRuns : senseRun'[q] = IF q \in {r} THEN Closed ELSE senseRun[q]
        /\ senseRun' \in [SenseRuns -> SenseRun]
    BY <1>1, RunsApart DEF CloseSensing, Become, FetchInv, FetchTypeOK
  <2> QED
    BY <1>1, <2>1, ClosingKeeps DEF CloseSensing
<1>2. CASE SensingCrash
  <2> DEFINE C == {q \in SenseRuns : Ongoing(q)}
  <2>1. /\ \A q \in SenseRuns : senseRun'[q] = IF q \in C THEN Closed ELSE senseRun[q]
        /\ senseRun' \in [SenseRuns -> SenseRun]
    BY <1>2, RunsApart DEF SensingCrash, FetchInv, FetchTypeOK
  <2> HIDE DEF C
  <2>2. C \subseteq SenseRuns
    BY DEF C
  <2> QED
    BY <1>2, <2>1, <2>2, ClosingKeeps DEF SensingCrash
<1> QED
  BY <1>1, <1>2

(* Every step of the fetching keeps its invariant.                         *)
LEMMA FetchKeeps == FetchInv /\ Fetch => FetchInv'
<1>1. SUFFICES ASSUME FetchInv, Fetch PROVE FetchInv'
  OBVIOUS
<1>2. sensor' = sensor
  BY <1>1 DEF Fetch
<1>3. PICK r \in SenseRuns :
        \/ SensingCrash \/ StartSensing(r) \/ CountQuery(r) \/ FallBack(r) \/ Answered(r)
        \/ LookItem(r) \/ NextPart(r) \/ CallerEnds(r) \/ CloseSensing(r)
  BY <1>1 DEF Fetch, SensingCrash
<1> QED
  BY <1>1, <1>2, <1>3, StartSensingKeeps, CountQueryKeeps, FallBackKeeps, AnsweredKeeps, LookItemKeeps,
     NextPartKeeps, CallerEndsKeeps, CloseSensingKeeps

-----------------------------------------------------------------------------
PhraseTypeOK ==
  /\ phraseBook \in Book
  /\ searching \in [SenseRuns -> {Resting} \cup [at : {"ask", "mark"}, book : Book, due : SUBSET Phrases]]
  /\ catalog \in Nat /\ meant \in Nat /\ reverted \in BOOLEAN
  /\ asked \in [Phrases -> Nat] /\ forgiven \subseteq Phrases

Searching(r) == searching[r] # Resting

(* Of the phrases that nothing excuses: each was asked once at most, and   *)
(* is stamped or about to be; what is about to be asked was not; a search  *)
(* has every stamp there is, and two at once excuse all.                   *)
StampsKept ==
  \A p \in Phrases \ forgiven :
    /\ asked[p] <= 1
    /\ asked[p] = 0 \/ p \in InForce.marks \/ \E r \in SenseRuns : Searching(r) /\ searching[r].at = "mark" /\ p \in searching[r].due
    /\ \A r \in SenseRuns : Searching(r) =>
         /\ searching[r].at = "ask" /\ p \in searching[r].due => asked[p] = 0
         /\ p \in InForce.marks => p \in searching[r].book.marks
    /\ \A q, r \in SenseRuns : Searching(q) /\ Searching(r) => q = r

(* While no edit met a search under way, all have the operator's list.     *)
ListKept ==
  meant # 0 => phraseBook.stored /\
    (~reverted => phraseBook.list = meant /\ \A r \in SenseRuns : Searching(r) => searching[r].book.list = meant)

PhraseInv == PhraseTypeOK /\ StampsKept /\ ListKept /\ senseMishaps \in 0..MaxSenseMishaps

(* The record of a search under way.                                       *)
LEMMA SearchAre ==
  ASSUME PhraseTypeOK, NEW r \in SenseRuns, Searching(r)
  PROVE  /\ searching[r] \in [at : {"ask", "mark"}, book : Book, due : SUBSET Phrases]
         /\ searching[r].at \in {"ask", "mark"} /\ searching[r].book \in Book /\ searching[r].due \subseteq Phrases
BY DEF PhraseTypeOK, Searching

(* The list a search starts from: the stored one, or the catalogue.        *)
LEMMA BookInForce ==
  ASSUME PhraseTypeOK
  PROVE  /\ InForce \in Book /\ InForce.marks = (IF phraseBook.stored THEN phraseBook.marks ELSE {})
         /\ phraseBook.stored => InForce = phraseBook
BY DEF PhraseTypeOK, InForce, Book, NoBook

(* A search takes up phrases without a stamp.                              *)
LEMMA StartSearchKeeps ==
  ASSUME PhraseInv, NEW r \in SenseRuns, StartSearch(r)
  PROVE  PhraseInv'
<1>1. PICK due : /\ due \in DueOf(InForce)
                 /\ searching' = [searching EXCEPT ![r] = [at |-> "ask", book |-> InForce, due |-> due]]
  BY DEF StartSearch, Search
<1>2. due \subseteq Phrases \ InForce.marks
  BY <1>1 DEF DueOf
<1> DEFINE rec == [at |-> "ask", book |-> InForce, due |-> due]
<1>3. /\ rec \in [at : {"ask", "mark"}, book : Book, due : SUBSET Phrases]
      /\ rec.at = "ask" /\ rec.book = InForce /\ rec.due = due /\ rec # Resting
  <2>1. rec \in [at : {"ask", "mark"}, book : Book, due : SUBSET Phrases]
    BY <1>2, BookInForce DEF PhraseInv
  <2>2. rec.at # Resting.at
    BY DEF Resting
  <2> QED
    BY <2>1, <2>2
<1> HIDE DEF rec
<1>4. /\ searching[r] = Resting /\ phraseBook' = phraseBook /\ catalog' = catalog /\ meant' = meant /\ reverted' = reverted
      /\ asked' = asked
  BY DEF StartSearch
<1>5. searching'[r] = rec /\ \A q \in SenseRuns \ {r} : searching'[q] = searching[q]
  BY <1>1 DEF PhraseInv, PhraseTypeOK, rec
<1>6. searching' \in [SenseRuns -> {Resting} \cup [at : {"ask", "mark"}, book : Book, due : SUBSET Phrases]]
  BY <1>1, <1>3 DEF PhraseInv, PhraseTypeOK, rec
<1>7. CASE \E q \in SenseRuns : searching[q] # Resting
  <2>1. forgiven' = Phrases /\ senseMishaps' \in 0..MaxSenseMishaps
    BY <1>7, SensingAssumption DEF StartSearch, Mishap, PhraseInv
  <2>2. StampsKept'
    BY <2>1 DEF StampsKept
  <2>3. ListKept'
    BY <1>3, <1>4, <1>5, BookInForce DEF PhraseInv, ListKept, Searching
  <2> QED
    BY <1>4, <1>6, <2>1, <2>2, <2>3 DEF PhraseInv, PhraseTypeOK
<1>8. CASE ~\E q \in SenseRuns : searching[q] # Resting
  <2>1. forgiven' = forgiven /\ senseMishaps' = senseMishaps
    BY <1>8 DEF StartSearch, NoMishap
  <2>2. InForce' = InForce
    BY <1>4 DEF InForce
  <2>3. StampsKept'
    BY <1>2, <1>3, <1>4, <1>5, <1>8, <2>1, <2>2 DEF PhraseInv, PhraseTypeOK, StampsKept, Searching
  <2>4. ListKept'
    BY <1>3, <1>4, <1>5, BookInForce DEF PhraseInv, ListKept, Searching
  <2> QED
    BY <1>4, <1>6, <2>1, <2>3, <2>4 DEF PhraseInv, PhraseTypeOK
<1> QED
  BY <1>7, <1>8

(* The posts are found: the phrases were asked.                            *)
LEMMA PostsFoundKeeps ==
  ASSUME PhraseInv, NEW r \in SenseRuns, PostsFound(r)
  PROVE  PhraseInv'
<1> DEFINE rec == searching[r]
           new == [searching[r] EXCEPT !.at = "mark"]
<1>1. /\ Searching(r) /\ rec.at = "ask" /\ phraseBook' = phraseBook /\ catalog' = catalog /\ meant' = meant
      /\ reverted' = reverted /\ forgiven' = forgiven /\ senseMishaps' = senseMishaps
      /\ asked' = [p \in Phrases |-> asked[p] + IF p \in rec.due THEN 1 ELSE 0]
  BY DEF PostsFound, Searching, NoMishap
<1>2. rec \in [at : {"ask", "mark"}, book : Book, due : SUBSET Phrases]
  BY <1>1, SearchAre DEF PhraseInv
<1>3. /\ new \in [at : {"ask", "mark"}, book : Book, due : SUBSET Phrases]
      /\ new.at = "mark" /\ new.book = rec.book /\ new.due = rec.due
  BY <1>2
<1>4. new # Resting
  BY <1>3 DEF Resting
<1>5. searching' = [searching EXCEPT ![r] = new]
  BY DEF PostsFound, Search
<1> HIDE DEF new
<1>6. /\ searching'[r] = new /\ \A q \in SenseRuns \ {r} : searching'[q] = searching[q]
      /\ searching' \in [SenseRuns -> {Resting} \cup [at : {"ask", "mark"}, book : Book, due : SUBSET Phrases]]
  BY <1>3, <1>5 DEF PhraseInv, PhraseTypeOK
<1>7. asked' \in [Phrases -> Nat] /\ \A p \in Phrases : asked'[p] = IF p \in rec.due THEN asked[p] + 1 ELSE asked[p]
  <2>1. \A p \in Phrases : asked[p] \in Nat
    BY DEF PhraseInv, PhraseTypeOK
  <2>2. \A p \in Phrases : asked'[p] = asked[p] + IF p \in rec.due THEN 1 ELSE 0
    BY <1>1
  <2>3. \A p \in Phrases : asked'[p] = (IF p \in rec.due THEN asked[p] + 1 ELSE asked[p]) /\ asked'[p] \in Nat
    BY <2>1, <2>2
  <2> QED
    BY <1>1, <2>3
<1>8. InForce' = InForce /\ \A q \in SenseRuns : Searching(q)' <=> Searching(q)
  BY <1>1, <1>4, <1>6 DEF InForce, Searching
<1>9. StampsKept'
  <2>1. SUFFICES ASSUME NEW p \in Phrases \ forgiven
                 PROVE  /\ asked'[p] <= 1
                        /\ asked'[p] = 0 \/ p \in InForce.marks \/ \E q \in SenseRuns : Searching(q)' /\ searching'[q].at = "mark" /\ p \in searching'[q].due
                        /\ \A q \in SenseRuns : Searching(q)' =>
                             /\ searching'[q].at = "ask" /\ p \in searching'[q].due => asked'[p] = 0
                             /\ p \in InForce.marks => p \in searching'[q].book.marks
                        /\ \A q, s \in SenseRuns : Searching(q)' /\ Searching(s)' => q = s
    BY <1>1, <1>8 DEF StampsKept
  <2>2. /\ asked[p] <= 1 /\ (p \in rec.due => asked[p] = 0)
        /\ asked[p] = 0 \/ p \in InForce.marks \/ \E q \in SenseRuns : Searching(q) /\ searching[q].at = "mark" /\ p \in searching[q].due
        /\ p \in InForce.marks => p \in rec.book.marks
        /\ \A q \in SenseRuns : Searching(q) => q = r
    BY <1>1, <2>1 DEF PhraseInv, StampsKept
  <2>3. asked'[p] = IF p \in rec.due THEN asked[p] + 1 ELSE asked[p]
    BY <1>7
  <2>4. asked'[p] <= 1
    BY <2>2, <2>3
  <2>5. asked'[p] = 0 \/ p \in InForce.marks \/ p \in rec.due
    BY <1>1, <2>2, <2>3
  <2>6. \A q \in SenseRuns : Searching(q)' => q = r /\ searching'[q] = new
    BY <1>6, <1>8, <2>2
  <2>7. Searching(r)' /\ searching'[r] = new
    BY <1>1, <1>6, <1>8
  <2> QED
    BY <1>3, <2>2, <2>4, <2>5, <2>6, <2>7
<1>10. ListKept'
  BY <1>1, <1>3, <1>6, <1>8 DEF PhraseInv, ListKept
<1> QED
  BY <1>1, <1>6, <1>7, <1>9, <1>10 DEF PhraseInv, PhraseTypeOK

(* It fails: after the posts, its phrases are excused.                     *)
LEMMA SearchFailsKeeps ==
  ASSUME PhraseInv, NEW r \in SenseRuns, SearchFails(r)
  PROVE  PhraseInv'
<1>1. /\ Searching(r) /\ phraseBook' = phraseBook /\ catalog' = catalog /\ meant' = meant
      /\ reverted' = reverted /\ asked' = asked /\ searching' = [searching EXCEPT ![r] = Resting]
      /\ forgiven' = IF searching[r].at = "mark" THEN forgiven \cup searching[r].due ELSE forgiven
  BY DEF SearchFails, Searching, Search
<1>2. senseMishaps' \in 0..MaxSenseMishaps
  BY SensingAssumption DEF SearchFails, Mishap, PhraseInv
<1>3. searching[r].due \subseteq Phrases
  BY <1>1, SearchAre DEF PhraseInv
<1>4. /\ ~Searching(r)' /\ \A q \in SenseRuns \ {r} : searching'[q] = searching[q] /\ (Searching(q)' <=> Searching(q))
      /\ searching' \in [SenseRuns -> {Resting} \cup [at : {"ask", "mark"}, book : Book, due : SUBSET Phrases]]
  BY <1>1 DEF PhraseInv, PhraseTypeOK, Searching
<1>5. InForce' = InForce
  BY <1>1 DEF InForce
<1>6. StampsKept'
  BY <1>1, <1>4, <1>5 DEF PhraseInv, StampsKept
<1>7. ListKept'
  BY <1>1, <1>4 DEF PhraseInv, ListKept
<1> QED
  BY <1>1, <1>2, <1>3, <1>4, <1>6, <1>7 DEF PhraseInv, PhraseTypeOK

(* The stamps are written back with the configuration of the search.       *)
LEMMA RecordPhrasesKeeps ==
  ASSUME PhraseInv, NEW r \in SenseRuns, RecordPhrases(r)
  PROVE  PhraseInv'
<1> DEFINE rec == searching[r]
           new == [list |-> rec.book.list, marks |-> rec.book.marks \cup rec.due, stored |-> TRUE]
<1>1. /\ Searching(r) /\ rec.at = "mark" /\ phraseBook' = new /\ catalog' = catalog /\ meant' = meant
      /\ reverted' = reverted /\ asked' = asked /\ searching' = [searching EXCEPT ![r] = Resting]
      /\ forgiven' = forgiven /\ senseMishaps' = senseMishaps
  BY DEF RecordPhrases, Searching, Search, NoMishap
<1>2. rec.book \in Book /\ rec.due \subseteq Phrases
  BY <1>1, SearchAre DEF PhraseInv
<1>3. /\ new \in Book /\ new.list = rec.book.list /\ new.marks = rec.book.marks \cup rec.due /\ new.stored
  BY <1>2 DEF Book
<1> HIDE DEF new
<1>4. /\ ~Searching(r)' /\ \A q \in SenseRuns \ {r} : searching'[q] = searching[q] /\ (Searching(q)' <=> Searching(q))
      /\ searching' \in [SenseRuns -> {Resting} \cup [at : {"ask", "mark"}, book : Book, due : SUBSET Phrases]]
  BY <1>1 DEF PhraseInv, PhraseTypeOK, Searching
<1>5. InForce'.marks = rec.book.marks \cup rec.due
  BY <1>1, <1>3 DEF InForce
<1>6. StampsKept'
  <2>1. SUFFICES ASSUME NEW p \in Phrases \ forgiven
                 PROVE  /\ asked[p] <= 1
                        /\ asked[p] = 0 \/ p \in InForce'.marks
                        /\ \A q \in SenseRuns : ~Searching(q)'
    BY <1>1 DEF StampsKept
  <2>2. /\ asked[p] <= 1
        /\ asked[p] = 0 \/ p \in InForce.marks \/ \E q \in SenseRuns : Searching(q) /\ searching[q].at = "mark" /\ p \in searching[q].due
        /\ p \in InForce.marks => p \in rec.book.marks
        /\ \A q \in SenseRuns : Searching(q) => q = r
    BY <1>1, <2>1 DEF PhraseInv, StampsKept
  <2> QED
    BY <1>4, <1>5, <2>2
<1>7. ListKept'
  BY <1>1, <1>3, <1>4 DEF PhraseInv, ListKept
<1> QED
  BY <1>1, <1>3, <1>4, <1>6, <1>7 DEF PhraseInv, PhraseTypeOK

(* An operator's edit, a deployment, and the gap.                          *)
LEMMA EditPhrasesKeeps ==
  ASSUME PhraseInv, EditPhrases
  PROVE  PhraseInv'
<1>1. PICK kept \in {InForce.marks, {}} :
        /\ phraseBook' = [list |-> meant', marks |-> kept, stored |-> TRUE]
        /\ forgiven' = forgiven \cup (InForce.marks \ kept)
  BY DEF EditPhrases
<1>2. /\ searching' = searching /\ catalog' = catalog /\ asked' = asked
      /\ reverted' = (\E r \in SenseRuns : searching[r] # Resting) /\ meant' = 10 + senseMishaps
  BY DEF EditPhrases
<1>3. meant' \in Nat /\ senseMishaps' \in 0..MaxSenseMishaps
  BY <1>2, SensingAssumption DEF EditPhrases, Mishap, PhraseInv
<1>4. InForce.marks \subseteq Phrases
  BY BookInForce DEF PhraseInv, Book
<1>5. phraseBook' \in Book /\ phraseBook'.marks = kept /\ phraseBook'.list = meant' /\ phraseBook'.stored
  BY <1>1, <1>3, <1>4 DEF Book
<1>6. InForce'.marks = kept
  BY <1>5 DEF InForce
<1>7. StampsKept'
  BY <1>1, <1>2, <1>6 DEF PhraseInv, StampsKept, Searching
<1>8. ListKept'
  <2>1. ~reverted' => \A r \in SenseRuns : ~Searching(r)'
    BY <1>2 DEF Searching
  <2> QED
    BY <1>5, <2>1 DEF ListKept
<1>9. reverted' \in BOOLEAN
  BY <1>2, Zenon
<1> QED
  BY <1>1, <1>2, <1>3, <1>4, <1>5, <1>7, <1>8, <1>9 DEF PhraseInv, PhraseTypeOK

(* A deployment changes the phrases of the catalogue.                      *)
LEMMA DeployCatalogKeeps ==
  ASSUME PhraseInv, DeployCatalog
  PROVE  PhraseInv'
<1>1. /\ phraseBook' = phraseBook /\ searching' = searching /\ meant' = meant /\ reverted' = reverted
      /\ asked' = asked /\ forgiven' = forgiven /\ catalog' = catalog + 1 /\ senseMishaps' \in 0..MaxSenseMishaps
  BY SensingAssumption DEF DeployCatalog, Mishap, PhraseInv
<1>2. PhraseTypeOK'
  BY <1>1 DEF PhraseInv, PhraseTypeOK
<1>3. InForce'.marks = InForce.marks
  BY <1>1, <1>2, BookInForce DEF PhraseInv, InForce, NoBook
<1>4. StampsKept' /\ ListKept'
  BY <1>1, <1>3 DEF PhraseInv, StampsKept, ListKept, Searching
<1> QED
  BY <1>1, <1>2, <1>4 DEF PhraseInv

(* The gap passes, and every phrase is due again.                          *)
LEMMA GapPassesKeeps ==
  ASSUME PhraseInv, GapPasses
  PROVE  PhraseInv'
<1>1. /\ phraseBook' = [phraseBook EXCEPT !.marks = {}] /\ searching' = searching /\ catalog' = catalog
      /\ meant' = meant /\ reverted' = reverted /\ asked' = [p \in Phrases |-> 0] /\ forgiven' = {}
      /\ senseMishaps' = senseMishaps /\ \A r \in SenseRuns : ~Searching(r)
  BY DEF GapPasses, NoMishap, Searching
<1>2. phraseBook' \in Book /\ phraseBook'.list = phraseBook.list /\ phraseBook'.stored = phraseBook.stored
  BY <1>1 DEF PhraseInv, PhraseTypeOK, Book
<1>3. StampsKept' /\ ListKept'
  BY <1>1, <1>2 DEF PhraseInv, StampsKept, ListKept, Searching
<1> QED
  BY <1>1, <1>2, <1>3 DEF PhraseInv, PhraseTypeOK

(* Every step of the search for posts keeps its invariant.                 *)
LEMMA KeywordsKeep == PhraseInv /\ Keywords => PhraseInv'
BY StartSearchKeeps, PostsFoundKeeps, SearchFailsKeeps, RecordPhrasesKeeps, EditPhrasesKeeps,
   DeployCatalogKeeps, GapPassesKeeps DEF Keywords

-----------------------------------------------------------------------------
SensingInv == FetchInv /\ PhraseInv /\ phraseScene \in BOOLEAN

(* The fetch leaves the phrases alone, the phrases the fetch.              *)
LEMMA PartsApart ==
  ASSUME SensingInv
  PROVE  /\ Fetch => PhraseInv'
         /\ UNCHANGED <<sensor, fetchVars>> => FetchInv'
         /\ UNCHANGED <<phraseVars, senseMishaps>> => PhraseInv'
<1>1. ASSUME UNCHANGED phraseVars, senseMishaps' \in 0..MaxSenseMishaps PROVE PhraseInv'
  BY <1>1 DEF SensingInv, PhraseInv, phraseVars, PhraseTypeOK, StampsKept, ListKept, InForce, Searching
<1>2. ASSUME Fetch PROVE senseMishaps' \in 0..MaxSenseMishaps /\ UNCHANGED phraseVars
  <2>1. UNCHANGED phraseVars /\ (Mishap \/ NoMishap)
    BY <1>2 DEF Fetch, SensingCrash, StartSensing, CountQuery, FallBack, Answered, LookItem, NextPart, CallerEnds, CloseSensing
  <2> QED
    BY <2>1, SensingAssumption DEF Mishap, NoMishap, SensingInv, PhraseInv
<1>3. ASSUME UNCHANGED <<sensor, fetchVars>> PROVE FetchInv'
  BY <1>3 DEF SensingInv, FetchInv, FetchTypeOK, PartsBounded, Bounded, OneOfEach, Single, Holds, Ongoing,
             HeardInv, Heard, OnRecord, QuotaBounded, fetchVars
<1> QED
  BY <1>1, <1>2, <1>3 DEF SensingInv, PhraseInv

(* An item has two rows only by a look that another addition raced; what a *)
(* run heard is kept; the free quota, the phrases of a gap and an          *)
(* operator's list are respected, for any number of runs, items, phrases.  *)
THEOREM SensingRulesHold == SensingSpec => []SensingRules
<1>1. SensingInit => SensingInv
  <2>1. SUFFICES ASSUME SensingInit PROVE SensingInv
    OBVIOUS
  <2>2. FetchTypeOK /\ \A r \in SenseRuns : ~Ongoing(r)
    <3>1. rows \in [SenseTenants -> [Items -> Nat]]
      BY <2>1 DEF SensingInit, NoPending
    <3>2. senseRun \in [SenseRuns -> SenseRun] /\ \A r \in SenseRuns : ~Ongoing(r)
      BY <2>1, RunsApart DEF SensingInit, Ongoing
    <3>3. quotaUsed \in 0..FreeQuota
      <4>1. quotaUsed = 0 /\ FreeQuota \in Nat
        BY <2>1, SensingAssumption DEF SensingInit
      <4> QED
        BY <4>1
    <3>4. sensor \in Sensors /\ raced \in BOOLEAN /\ queries \in Nat
      BY <2>1 DEF SensingInit
    <3>5. doubled = {} /\ undone = {}
      BY <2>1 DEF SensingInit
    <3> QED
      BY <3>1, <3>2, <3>3, <3>4, <3>5 DEF FetchTypeOK
  <2>3. PartsBounded /\ HeardInv /\ QuotaBounded
    BY <2>1, <2>2 DEF SensingInit, PartsBounded, HeardInv, QuotaBounded
  <2>4. OneOfEach
    BY <2>1, <2>2 DEF SensingInit, OneOfEach, Single, Holds, NoPending
  <2>5. PhraseTypeOK /\ InForce.marks = {}
    <3>1. NoBook \in Book /\ NoBook.marks = {} /\ ~NoBook.stored
      BY DEF NoBook, Book
    <3>2. PhraseTypeOK
      BY <2>1, <3>1 DEF SensingInit, PhraseTypeOK
    <3> QED
      BY <2>1, <3>1, <3>2, BookInForce DEF SensingInit
  <2>6. StampsKept /\ ListKept
    BY <2>1, <2>5 DEF SensingInit, StampsKept, ListKept, Searching
  <2> QED
    BY <2>1, <2>2, <2>3, <2>4, <2>5, <2>6, SensingAssumption DEF SensingInv, FetchInv, PhraseInv, SensingInit
<1>2. SensingInv /\ [SensingNext]_sensingVars => SensingInv'
  <2>1. SUFFICES ASSUME SensingInv, [SensingNext]_sensingVars PROVE SensingInv'
    OBVIOUS
  <2>2. CASE Fetch
    BY <2>1, <2>2, FetchKeeps, PartsApart DEF SensingInv, Fetch
  <2>3. CASE Keywords
    BY <2>1, <2>3, KeywordsKeep, PartsApart DEF SensingInv, Keywords
  <2>4. CASE UNCHANGED sensingVars
    BY <2>1, <2>4, PartsApart DEF SensingInv, sensingVars
  <2> QED
    BY <2>1, <2>2, <2>3, <2>4 DEF SensingNext
<1>3. SensingInv => SensingRules
  <2>1. SUFFICES ASSUME SensingInv PROVE SensingRules
    OBVIOUS
  <2>2. SensingTypeOK
    BY <2>1 DEF SensingInv, FetchInv, FetchTypeOK, PhraseInv, PhraseTypeOK, SensingTypeOK
  <2>3. SensedOnce
    <3>1. ASSUME NEW t \in SenseTenants, NEW i \in Items, rows[t][i] <= 1 PROVE ~(rows[t][i] > 1)
      <4>1. rows[t][i] \in Nat
        BY <2>1 DEF SensingInv, FetchInv, FetchTypeOK
      <4> QED
        BY <3>1, <4>1
    <3> QED
      BY <2>1, <3>1 DEF SensingInv, FetchInv, OneOfEach, Single, SensedOnce
  <2>4. HeardIsKept
    <3>1. SUFFICES ASSUME NEW r \in SenseRuns, senseRun[r].at \in {"over", "lost"}, NEW i \in senseRun[r].heard
                   PROVE  OnRecord(senseRun[r].tenant, i) \/ (senseRun[r].at = "lost" /\ i \in senseRun[r].late)
      BY DEF HeardIsKept, OnRecord
    <3>2. Heard(senseRun[r])
      BY <2>1, <3>1, RunAt DEF SensingInv
    <3> QED
      BY <3>1, <3>2 DEF Heard
  <2>5. SearchedOncePerGap
    <3>1. SUFFICES ASSUME NEW p \in Phrases, p \notin forgiven PROVE ~(asked[p] > 1)
      BY DEF SearchedOncePerGap
    <3>2. asked[p] <= 1 /\ asked[p] \in Nat
      BY <2>1, <3>1 DEF SensingInv, PhraseInv, PhraseTypeOK, StampsKept
    <3> QED
      BY <3>2
  <2>6. EditStands
    BY <2>1, BookInForce DEF SensingInv, PhraseInv, ListKept, EditStands
  <2> QED
    BY <2>1, <2>2, <2>3, <2>4, <2>5, <2>6 DEF SensingInv, FetchInv, SensingRules
<1> QED
  BY <1>1, <1>2, <1>3, PTL DEF SensingSpec
=============================================================================
