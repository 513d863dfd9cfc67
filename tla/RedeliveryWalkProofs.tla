------------------------- MODULE RedeliveryWalkProofs -------------------------
(***************************************************************************)
(* The redelivery walk keeps its own account: for every list of failed     *)
(* deliveries, every quota and every number of retries, the calls it       *)
(* records in a window never exceed the budget of that window.             *)
(***************************************************************************)
EXTENDS RedeliveryWalk, RedisListsProofs, TLAPS

-----------------------------------------------------------------------------
(* The strengthening: while a unit of work is under way, what it may still *)
(* record fits in the budget.                                              *)

Owed ==
    CASE op = "list" -> 1
      [] op = "get" -> redeliveryCallEstimate(CurrentHook.action)
      [] op = "status" -> 2
      [] op = "post" -> 1

NumbersOK == budget \in Nat /\ spent \in Nat /\ remaining \in Nat
UnitFits ==
    /\ pc \in {"start", "reserve", "wait"} => op \in {"list", "get"}
    /\ pc \in {"call", "paused"} => op \in {"list", "get", "status", "post"}
    /\ pc \in {"call", "paused"} => spent + Owed <= budget
    /\ pc = "decide" => spent + 1 <= budget
IInv == NumbersOK /\ UnitFits /\ WithinBudget

LEMMA HalfIsNat ==
    ASSUME NEW n \in Nat
    PROVE  RedeliveryBudgetFromRemaining(n) \in Nat
  BY DEF RedeliveryBudgetFromRemaining

LEMMA EstimateIsNat ==
    ASSUME NEW a
    PROVE  redeliveryCallEstimate(a) \in {2, 3}
  BY DEF redeliveryCallEstimate

\* What Reserve asks for is what the unit owes when it starts.
LEMMA NeedIsOwed ==
    ASSUME op \in {"list", "get"}
    PROVE  Need = Owed /\ Need \in {1, 2, 3}
  BY EstimateIsNat DEF Need, Owed

LEMMA InitIInv == Init => IInv
  BY ConstantsAssumption DEF Init, IInv, NumbersOK, UnitFits, WithinBudget

LEMMA BudgetingKeepsIInv ==
    ASSUME IInv, Budgeting
    PROVE  IInv'
<1> USE DEF IInv, NumbersOK, UnitFits, WithinBudget, Goto
<1>1. CASE FirstRefresh
  BY <1>1, HalfIsNat DEF FirstRefresh, StartWindow, window, call
<1>2. CASE Reserved
  <2>1. op \in {"list", "get"} /\ spent + Need <= budget
    BY <1>2 DEF Reserved, CanSpend
  <2>2. Owed' = Owed
    BY <1>2 DEF Reserved, Owed, CurrentHook, Current, lists, github
  <2>3. QED BY <1>2, <2>1, <2>2, NeedIsOwed DEF Reserved, window
<1>3. CASE RefreshInReserve
  <2>1. op \in {"list", "get"}
    BY <1>3 DEF RefreshInReserve
  <2>2. Owed' = Owed /\ op' = op
    BY <1>3 DEF RefreshInReserve, Owed, CurrentHook, Current, lists, github
  <2>3. /\ budget' = RedeliveryBudgetFromRemaining(remaining) /\ budget' \in Nat
        /\ spent' = 0 /\ remaining' = remaining
    BY <1>3, HalfIsNat DEF RefreshInReserve, StartWindow
  <2>4. CASE Need <= RedeliveryBudgetFromRemaining(remaining)
    BY <1>3, <2>1, <2>2, <2>3, <2>4, NeedIsOwed DEF RefreshInReserve
  <2>5. CASE ~(Need <= RedeliveryBudgetFromRemaining(remaining))
    BY <1>3, <2>1, <2>2, <2>3, <2>5 DEF RefreshInReserve
  <2>6. QED BY <2>4, <2>5
<1>4. CASE WaitForReset
  BY <1>4 DEF WaitForReset, window
<1>5. CASE ResetWaited
  BY <1>5, HalfIsNat DEF ResetWaited, StartWindow, call
<1>6. CASE ReserveFails
  BY <1>6 DEF ReserveFails, Fail, window, call
<1>7. QED BY <1>1, <1>2, <1>3, <1>4, <1>5, <1>6 DEF Budgeting

LEMMA CallingKeepsIInv ==
    ASSUME IInv, Calling
    PROVE  IInv'
<1> USE DEF IInv, NumbersOK, UnitFits, WithinBudget, Goto
<1>1. CASE CallRunsLow
  <2>1. Owed' = Owed
    BY <1>1 DEF CallRunsLow, Owed, CurrentHook, Current, lists, github
  <2>2. QED BY <1>1, <2>1 DEF CallRunsLow, Sent
<1>2. CASE RepeatAfterPause
  <2>1. Owed' = Owed
    BY <1>2 DEF RepeatAfterPause, Owed, CurrentHook, Current, lists, github, call
  <2>2. QED BY <1>2, <2>1 DEF RepeatAfterPause, window, call
<1>3. CASE CallNotFound
  <2>1. Owed' = Owed
    BY <1>3 DEF CallNotFound, Owed, CurrentHook, Current, lists, github
  <2>2. remaining' \in Nat
    BY <1>3, ConstantsAssumption DEF CallNotFound
  <2>3. QED BY <1>3, <2>1, <2>2 DEF CallNotFound
<1>4. QED BY <1>1, <1>2, <1>3 DEF Calling

\* A call that ends, either way, leaves numbers and records one call.
LEMMA RecordsOne ==
    ASSUME IInv, Answered \/ Refused, Applied \/ Unapplied
    PROVE  /\ NumbersOK' /\ spent' = spent + 1 /\ budget' = budget
           /\ pc \in {"call", "paused"} /\ spent + Owed <= budget
  BY DEF IInv, NumbersOK, UnitFits, Answered, Refused, Applied, Unapplied, ApplyRate, Record, Sent

\* With the call of a unit recorded, the budget holds wherever the walk goes
\* next, as long as it is not in the middle of the unit.
LEMMA UnitEnds ==
    ASSUME NumbersOK', spent' <= budget',
           pc' \in {"reserve", "sleep", "done", "failed", "queuedKeys", "queued", "completed"},
           op' \in {"list", "get"}
    PROVE  IInv'
  BY DEF IInv, UnitFits, WithinBudget

LEMMA NextUnitGoes ==
    ASSUME NEW k, NextUnit(k)
    PROVE  pc' \in {"reserve", "sleep", "done"} /\ op' = "get"
  BY DEF NextUnit, Goto

LEMMA ListingKeepsIInv ==
    ASSUME IInv, Listing
    PROVE  IInv'
<1>1. op = "list" /\ op' = "list" /\ pc' \in {"queuedKeys", "reserve", "failed"}
  BY DEF Listing, ListPage, ListFails, Goto, Fail, call
<1>2. NumbersOK' /\ spent' = spent + 1 /\ budget' = budget /\ spent + Owed <= budget
  BY RecordsOne DEF Listing, ListPage, ListFails
<1>3. spent' <= budget'
  BY <1>1, <1>2 DEF Owed, IInv, NumbersOK
<1>4. QED BY <1>1, <1>2, <1>3, UnitEnds

LEMMA SnapshotKeepsIInv ==
    ASSUME IInv, Snapshot
    PROVE  IInv'
<1>1. UNCHANGED <<remaining, window>>
  BY DEF Snapshot, ListQueuedKeys, ListCompletedKeys, SnapshotTaken, RedisFails, ReadQueued,
         ReadCompleted
<1>2. NumbersOK' /\ WithinBudget'
  BY <1>1 DEF IInv, NumbersOK, WithinBudget, window
<1>3. CASE SnapshotTaken
  BY <1>2, <1>3, NextUnitGoes DEF SnapshotTaken, IInv, UnitFits
<1>4. CASE ~SnapshotTaken
  <2>1. pc' \in {"queued", "completed", "failed"}
    BY <1>4 DEF Snapshot, ListQueuedKeys, ListCompletedKeys, RedisFails, ReadQueued,
                ReadCompleted, Goto, Fail
  <2>2. QED BY <1>2, <2>1 DEF IInv, UnitFits
<1>5. QED BY <1>3, <1>4

LEMMA DecidingKeepsIInv ==
    ASSUME IInv, Deciding
    PROVE  IInv'
<1> USE DEF IInv
<1>1. CASE GetUnlabelled \/ GetFails
  <2>1. op = "get" /\ op' = "get" /\ pc' \in {"reserve", "sleep", "done"}
    BY <1>1, NextUnitGoes DEF GetUnlabelled, GetFails, Decide
  <2>2. NumbersOK' /\ spent' = spent + 1 /\ budget' = budget /\ spent + Owed <= budget
    BY <1>1, RecordsOne DEF GetUnlabelled, GetFails
  <2>3. spent' <= budget'
    BY <2>1, <2>2, EstimateIsNat DEF Owed, NumbersOK
  <2>4. QED BY <2>1, <2>2, <2>3, UnitEnds
<1>2. CASE GetDelivery
  <2>1. NumbersOK' /\ spent' = spent + 1 /\ budget' = budget /\ spent + Owed <= budget
    BY <1>2, RecordsOne DEF GetDelivery
  <2>2. op = "get"
    BY <1>2 DEF GetDelivery
  <2>3. CASE CurrentHook.action = "queued"
    <3>1. Owed = 3
      BY <2>2, <2>3 DEF Owed, redeliveryCallEstimate
    <3>2. op' = "status" /\ pc' = "call"
      BY <1>2, <2>3 DEF GetDelivery, Goto
    <3>3. Owed' = 2
      BY <3>2 DEF Owed
    <3>4. QED BY <2>1, <3>1, <3>2, <3>3 DEF NumbersOK, UnitFits, WithinBudget
  <2>4. CASE CurrentHook.action # "queued"
    <3>1. Owed = 2
      BY <2>2, <2>4 DEF Owed, redeliveryCallEstimate
    <3>2. pc' = "decide"
      BY <1>2, <2>4 DEF GetDelivery, Goto
    <3>3. QED BY <2>1, <3>1, <3>2 DEF NumbersOK, UnitFits, WithinBudget
  <2>5. QED BY <2>3, <2>4
<1>3. CASE JobProgressed
  <2>1. op = "status" /\ op' = "get" /\ pc' \in {"reserve", "sleep", "done"}
    BY <1>3, NextUnitGoes DEF JobProgressed, Decide
  <2>2. NumbersOK' /\ spent' = spent + 1 /\ budget' = budget /\ spent + Owed <= budget
    BY <1>3, RecordsOne DEF JobProgressed
  <2>3. spent' <= budget'
    BY <2>1, <2>2 DEF Owed, NumbersOK
  <2>4. QED BY <2>1, <2>2, <2>3, UnitEnds
<1>4. CASE JobStillQueued \/ StatusFails
  <2>1. op = "status" /\ pc' = "decide"
    BY <1>4 DEF JobStillQueued, StatusFails, Goto
  <2>2. NumbersOK' /\ spent' = spent + 1 /\ budget' = budget /\ spent + Owed <= budget
    BY <1>4, RecordsOne DEF JobStillQueued, StatusFails
  <2>3. QED BY <2>1, <2>2 DEF Owed, NumbersOK, UnitFits, WithinBudget
<1>5. CASE KeepCompleted \/ RemoveCompleted
  <2>1. op' = "get" /\ pc' \in {"reserve", "sleep", "done"}
    BY <1>5, NextUnitGoes DEF KeepCompleted, RemoveCompleted, Decide
  <2>2. NumbersOK' /\ spent' <= budget'
    BY <1>5 DEF KeepCompleted, RemoveCompleted, NumbersOK, WithinBudget, window
  <2>3. QED BY <2>1, <2>2, UnitEnds
<1>6. CASE Redeliver
  <2>1. op' = "post" /\ pc' = "call" /\ UNCHANGED <<remaining, window>> /\ pc = "decide"
    BY <1>6 DEF Redeliver, Goto
  <2>2. Owed' = 1
    BY <2>1 DEF Owed
  <2>3. QED BY <2>1, <2>2 DEF NumbersOK, UnitFits, WithinBudget, window
<1>7. CASE Redelivered
  <2>1. op = "post" /\ op' = "get" /\ pc' \in {"reserve", "sleep", "done"}
    BY <1>7, NextUnitGoes DEF Redelivered, Decide
  <2>2. NumbersOK' /\ spent' = spent + 1 /\ budget' = budget /\ spent + Owed <= budget
    BY <1>7, RecordsOne DEF Redelivered
  <2>3. spent' <= budget'
    BY <2>1, <2>2 DEF Owed, NumbersOK
  <2>4. QED BY <2>1, <2>2, <2>3, UnitEnds
<1>8. CASE Slept
  BY <1>8 DEF Slept, Goto, Fail, NumbersOK, UnitFits, WithinBudget, window
<1>9. QED BY <1>1, <1>2, <1>3, <1>4, <1>5, <1>6, <1>7, <1>8 DEF Deciding

LEMMA OthersKeepIInv ==
    ASSUME IInv, \/ WindowResets \/ HandlersCall
                 \/ \E j \in Jobs : RecordMoves(j) \/ CompletedMoves(j)
                 \/ UNCHANGED vars
    PROVE  IInv'
<1>1. UNCHANGED <<pc, op, budget, spent, lists, log>>
  BY DEF WindowResets, HandlersCall, RecordMoves, CompletedMoves, vars, call, window, lists, github
<1>2. Owed' = Owed
  BY <1>1 DEF Owed, CurrentHook, Current, lists
<1>3. remaining' \in Nat
  BY ConstantsAssumption DEF IInv, NumbersOK, WindowResets, HandlersCall, RecordMoves,
                             CompletedMoves, vars
<1>4. QED BY <1>1, <1>2, <1>3 DEF IInv, NumbersOK, UnitFits, WithinBudget

-----------------------------------------------------------------------------
\* However pages, retries, failures and resets of the window interleave, the
\* walk never records more calls than half of the quota it read
\* (RedeliveryBudget.Reserve, runRedeliveryWalk).
THEOREM BudgetHolds == Spec => []WithinBudget
<1>1. IInv /\ [Next]_vars => IInv'
  BY BudgetingKeepsIInv, CallingKeepsIInv, ListingKeepsIInv, SnapshotKeepsIInv,
     DecidingKeepsIInv, OthersKeepIInv DEF Next, Walk
<1>2. IInv => WithinBudget
  BY DEF IInv
<1>3. QED BY InitIInv, <1>1, <1>2, PTL DEF Spec

-----------------------------------------------------------------------------
(* The deliveries to look at are a sequence in ascending order.             *)

Ascends(s, S) ==
    /\ \A e \in S : \E i \in 1..Cardinality(S) : s[i] = e
    /\ \A i, k \in 1..Cardinality(S) : i < k => s[i] < s[k]

LEMMA IndicesFinite ==
    ASSUME NEW n \in Nat, NEW S \in SUBSET (1..n)
    PROVE  IsFiniteSet(S) /\ Cardinality(S) \in Nat
<1>1. IsFiniteSet(1..n)
  BY FS_Interval
<1>2. IsFiniteSet(S)
  BY <1>1, FS_Subset
<1>3. QED BY <1>2, FS_CardinalityType

\* An ascending sequence of the numbers below n, extended by n.
LEMMA AscendingGrows ==
    ASSUME NEW n \in Nat, NEW S \in SUBSET (1..n), n \in S,
           NEW t \in [1..Cardinality(S \ {n}) -> S \ {n}], Ascends(t, S \ {n})
    PROVE  \E s \in [1..Cardinality(S) -> S] : Ascends(s, S)
<1>1. PICK R : R = S \ {n}
  OBVIOUS
<1>2. PICK c : c = Cardinality(R)
  OBVIOUS
<1>3. c \in Nat /\ Cardinality(S) = c + 1
  <2>1. IsFiniteSet(S)
    BY IndicesFinite
  <2>2. IsFiniteSet(R) /\ Cardinality(R) = Cardinality(S) - 1
    BY <1>1, <2>1, FS_RemoveElement
  <2>3. Cardinality(R) \in Nat /\ Cardinality(S) \in Nat
    BY <2>1, <2>2, FS_CardinalityType
  <2>4. QED BY <1>2, <2>2, <2>3
<1>4. \A i \in 1..c : t[i] \in S /\ t[i] \in Nat /\ t[i] < n
  <2>1. ASSUME NEW i \in 1..c
        PROVE  t[i] \in S /\ t[i] \in Nat /\ t[i] < n
    <3>1. t[i] \in S /\ t[i] # n
      BY <1>1, <1>2
    <3>2. t[i] \in 1..n
      BY <3>1
    <3>3. QED BY <3>1, <3>2
  <2>2. QED BY <2>1
<1>5. /\ \A e \in R : \E i \in 1..c : t[i] = e
      /\ \A i, k \in 1..c : i < k => t[i] < t[k]
  BY <1>1, <1>2 DEF Ascends
<1> DEFINE s == [i \in 1..(c + 1) |-> IF i <= c THEN t[i] ELSE n]
<1>6. s \in [1..(c + 1) -> S]
  <2>1. ASSUME NEW i \in 1..(c + 1)
        PROVE  (IF i <= c THEN t[i] ELSE n) \in S
    <3>1. CASE i <= c
      <4>1. i \in 1..c
        BY <1>3, <3>1
      <4>2. QED BY <1>4, <3>1, <4>1
    <3>2. QED BY <3>1
  <2>2. QED BY <2>1
<1>7. /\ \A i \in 1..c : i \in 1..(c + 1) /\ s[i] = t[i]
      /\ c + 1 \in 1..(c + 1) /\ s[c + 1] = n
      /\ \A i \in 1..(c + 1) : i \in 1..c \/ i = c + 1
  BY <1>3
<1> HIDE DEF s
<1>8. ASSUME NEW e \in S
      PROVE  \E i \in 1..(c + 1) : s[i] = e
  <2>1. CASE e = n
    BY <1>7, <2>1
  <2>2. CASE e # n
    <3>1. PICK i \in 1..c : t[i] = e
      BY <1>1, <1>5, <2>2
    <3>2. QED BY <1>7, <3>1
  <2>3. QED BY <2>1, <2>2
<1>9. ASSUME NEW i \in 1..(c + 1), NEW k \in 1..(c + 1), i < k
      PROVE  s[i] < s[k]
  <2>1. i \in 1..c
    BY <1>3, <1>9
  <2>2. CASE k \in 1..c
    BY <1>5, <1>7, <1>9, <2>1, <2>2
  <2>3. CASE k = c + 1
    BY <1>4, <1>7, <2>1, <2>3
  <2>4. QED BY <1>7, <2>2, <2>3
<1>10. Ascends(s, S)
  BY <1>3, <1>8, <1>9 DEF Ascends
<1>11. s \in [1..Cardinality(S) -> S]
  BY <1>3, <1>6
<1>12. QED BY <1>10, <1>11

LEMMA AscendingExists ==
    ASSUME NEW n \in Nat, NEW S \in SUBSET (1..n)
    PROVE  \E s \in [1..Cardinality(S) -> S] : Ascends(s, S)
<1> DEFINE Fails(m) == \E U \in SUBSET (1..m) : \A s \in [1..Cardinality(U) -> U] : ~Ascends(s, U)
           T == {m \in 1..n : Fails(m)}
<1>1. \A U : U = {} => \E s \in [1..Cardinality(U) -> U] : Ascends(s, U)
  <2>1. Cardinality({}) = 0
    BY FS_EmptySet
  <2>2. <<>> \in [1..0 -> {}]
    OBVIOUS
  <2>3. Ascends(<<>>, {})
    BY <2>1 DEF Ascends
  <2>4. QED BY <2>1, <2>2, <2>3
<1>2. SUFFICES ASSUME \A s \in [1..Cardinality(S) -> S] : ~Ascends(s, S)
               PROVE  FALSE
  OBVIOUS
<1>3. Fails(n) /\ n # 0
  <2>1. ASSUME n = 0 PROVE FALSE
    <3>1. 1..n = {}
      BY <2>1
    <3>2. S = {}
      BY <3>1
    <3>3. QED BY <1>1, <1>2, <3>2
  <2>2. QED BY <1>2, <2>1
<1>4. T \subseteq 1..n /\ n \in T
  BY <1>3
<1>5. PICK m \in T : \A y \in T : m <= y
  <2> HIDE DEF T
  <2>1. T # {}
    BY <1>4
  <2>2. QED BY <1>4, <2>1, Least
<1>6. m \in 1..n /\ Fails(m)
  BY <1>5
<1>7. PICK U \in SUBSET (1..m) : \A s \in [1..Cardinality(U) -> U] : ~Ascends(s, U)
  BY <1>6
<1>8. ~Fails(m - 1)
  <2>1. CASE m = 1
    <3>1. ASSUME NEW V \in SUBSET (1..(m - 1))
          PROVE  V = {}
      BY <2>1
    <3>2. QED BY <1>1, <3>1
  <2>2. CASE m # 1
    <3>1. m - 1 \in 1..n /\ ~(m <= m - 1)
      BY <1>6, <2>2
    <3>2. m - 1 \notin T
      BY <1>5, <3>1
    <3>3. QED BY <3>1, <3>2
  <2>3. QED BY <2>1, <2>2
<1>9. CASE m \in U
  <2>1. U \ {m} \in SUBSET (1..(m - 1))
    BY <1>6
  <2>2. PICK t \in [1..Cardinality(U \ {m}) -> U \ {m}] : Ascends(t, U \ {m})
    BY <1>8, <2>1
  <2>3. m \in Nat
    BY <1>6
  <2>4. QED BY <1>7, <1>9, <2>2, <2>3, AscendingGrows
<1>10. CASE m \notin U
  <2>1. U \in SUBSET (1..(m - 1))
    BY <1>6, <1>10
  <2>2. QED BY <1>7, <1>8, <2>1
<1>11. QED BY <1>9, <1>10

LEMMA AscendingFact ==
    ASSUME NEW n \in Nat, NEW S \in SUBSET (1..n)
    PROVE  /\ Cardinality(S) \in Nat
           /\ Ascending(S) \in [1..Cardinality(S) -> S]
           /\ Ascends(Ascending(S), S)
<1>1. Cardinality(S) \in Nat
  BY IndicesFinite
<1>2. \E s \in [1..Cardinality(S) -> S] :
         /\ \A e \in S : \E i \in 1..Cardinality(S) : s[i] = e
         /\ \A i, k \in 1..Cardinality(S) : i < k => s[i] < s[k]
  BY AscendingExists DEF Ascends
<1>3. QED BY <1>1, <1>2 DEF Ascending, Ascends

-----------------------------------------------------------------------------
(* The types.                                                               *)

Types ==
    /\ TypeOK
    /\ op = "list" => left = 0
    /\ pc = "start" => op = "list"

LEMMA Bounds == Limit \in Nat /\ LowWater \in Nat /\ MaxRetries \in Nat
  BY ConstantsAssumption

LEMMA InitTypes == Init => Types
<1> SUFFICES ASSUME Init PROVE Types
  OBVIOUS
<1> USE DEF Init
<1>1. log \in Seq(Hook) /\ Len(log) \in Nat
  BY ConstantsAssumption
<1>2. toRedeliver \in Seq(1..Len(log)) /\ Len(toRedeliver) = 0
  OBVIOUS
<1>3. verdict \in [1..Len(log) -> Verdicts]
  BY DEF Verdicts
<1>4. tries \in 0..MaxRetries /\ listed \in 0..Len(log) /\ left \in 0..Len(toRedeliver)
  BY <1>1, <1>2, ConstantsAssumption
<1>5. QED BY <1>2, <1>3, <1>4 DEF Types, TypeOK, WalkPcs

LEMMA HalfOfRemaining ==
    ASSUME TypeOK
    PROVE  RedeliveryBudgetFromRemaining(remaining) \in Nat
<1>1. remaining \in 0..Limit
  BY DEF TypeOK
<1>2. remaining \in Nat
  BY <1>1, Bounds
<1>3. QED BY <1>2, HalfIsNat

LEMMA BudgetingKeepsTypes ==
    ASSUME Types, Budgeting
    PROVE  Types'
<1> USE DEF Types, TypeOK, WalkPcs, Goto, Fail, github, redis, window, call, lists, result,
           StartWindow
<1>1. CASE FirstRefresh
  BY <1>1, HalfOfRemaining DEF FirstRefresh
<1>2. CASE Reserved
  BY <1>2, Bounds DEF Reserved
<1>3. CASE RefreshInReserve
  <2>1. budget' \in Nat /\ spent' = 0 /\ resetAt' = "future"
    BY <1>3, HalfOfRemaining DEF RefreshInReserve
  <2>2. pc = "reserve" /\ pc' \in {"call", "wait"} /\ tries' \in {0, tries} /\ due' \in BOOLEAN
    BY <1>3 DEF RefreshInReserve
  <2>3. tries' \in 0..MaxRetries
    BY <2>2, Bounds
  <2>4. UNCHANGED <<log, gh, remaining, place, donePlace, stayed, op, ctx, lists, result>>
    BY <1>3 DEF RefreshInReserve
  <2>5. QED BY <2>1, <2>2, <2>3, <2>4
<1>4. CASE WaitForReset
  BY <1>4 DEF WaitForReset
<1>5. CASE ResetWaited
  BY <1>5, HalfOfRemaining DEF ResetWaited
<1>6. CASE ReserveFails
  BY <1>6 DEF ReserveFails
<1>7. QED BY <1>1, <1>2, <1>3, <1>4, <1>5, <1>6 DEF Budgeting

LEMMA CallingKeepsTypes ==
    ASSUME Types, Calling
    PROVE  Types'
<1> USE DEF Types, TypeOK, WalkPcs, Goto, Fail, github, redis, window, call, lists, result, Sent
<1>1. CASE CallRunsLow
  <2>1. remaining' \in 0..Limit
    BY <1>1, Bounds DEF CallRunsLow
  <2>2. pc = "call" /\ pc' = "paused" /\ due' = FALSE
    BY <1>1 DEF CallRunsLow
  <2>3. UNCHANGED <<log, gh, place, donePlace, stayed, op, tries, ctx, budget, spent, resetAt, lists, result>>
    BY <1>1 DEF CallRunsLow
  <2>4. QED BY <2>1, <2>2, <2>3
<1>2. CASE RepeatAfterPause
  BY <1>2 DEF RepeatAfterPause
<1>3. CASE CallNotFound
  BY <1>3, Bounds DEF CallNotFound
<1>4. QED BY <1>1, <1>2, <1>3 DEF Calling

\* A call that ends, either way, leaves a number in the account.
LEMMA RecordsTyped ==
    ASSUME Types, Answered \/ Refused, Applied \/ Unapplied
    PROVE  /\ remaining' \in 0..Limit /\ budget' \in Nat /\ spent' \in Nat
           /\ resetAt' \in {"zero", "future", "past"}
  BY ConstantsAssumption DEF Types, TypeOK, Answered, Refused, Applied, Unapplied,
     ApplyRate, Record, Sent

LEMMA ListedTyped ==
    ASSUME Types
    PROVE  /\ PageEnd \in 0..Len(log)
           /\ Ascending(Listed(PageEnd)) \in Seq(1..Len(log))
<1>1. Len(log) \in Nat /\ listed \in 0..Len(log) /\ PageSize \in Nat
  BY ConstantsAssumption DEF Types, TypeOK
<1>2. PageEnd \in 0..Len(log)
  BY <1>1 DEF PageEnd
<1>3. PICK n \in 0..Len(log) : n = PageEnd
  BY <1>2
<1>4. n \in Nat /\ Listed(n) \in SUBSET (1..n) /\ Listed(n) \subseteq 1..Len(log)
  BY <1>1 DEF Listed
<1>5. Cardinality(Listed(n)) \in Nat /\ Ascending(Listed(n)) \in [1..Cardinality(Listed(n)) -> Listed(n)]
  BY <1>4, AscendingFact
<1>6. Ascending(Listed(n)) \in Seq(1..Len(log))
  BY <1>4, <1>5
<1>7. QED BY <1>2, <1>3, <1>6

LEMMA ListingKeepsTypes ==
    ASSUME Types, Listing
    PROVE  Types'
<1> USE DEF Types, TypeOK, WalkPcs, Goto, Fail, github, redis, call, lists, result
<1>1. /\ remaining' \in 0..Limit /\ budget' \in Nat /\ spent' \in Nat
      /\ resetAt' \in {"zero", "future", "past"}
  BY RecordsTyped DEF Listing, ListPage, ListFails
<1>2. CASE ListPage
  <2>1. listed' \in 0..Len(log) /\ toRedeliver' \in Seq(1..Len(log))
    BY <1>2, ListedTyped DEF ListPage
  <2>2. left = 0 /\ left' = 0 /\ op' = "list" /\ pc' \in {"queuedKeys", "reserve"}
    BY <1>2 DEF ListPage
  <2>3. ctx' \in {"live", "pausing", "dead"}
    BY <1>2 DEF ListPage, Kept
  <2>4. UNCHANGED <<log, gh, place, donePlace, stayed, tries, due, keys, inQueue, inDone, requested, verdict>>
    BY <1>2 DEF ListPage
  <2>5. left' \in 0..Len(toRedeliver')
    BY <2>1, <2>2
  <2>6. QED BY <1>1, <2>1, <2>2, <2>3, <2>4, <2>5
<1>3. CASE ListFails
  BY <1>1, <1>3 DEF ListFails
<1>4. QED BY <1>2, <1>3 DEF Listing

LEMMA SnapshotKeepsTypes ==
    ASSUME Types, Snapshot
    PROVE  Types'
<1> USE DEF Types, TypeOK, WalkPcs, Goto, Fail, github, redis, window, call, lists, result
<1>1. CASE ListQueuedKeys
  BY <1>1 DEF ListQueuedKeys, QueuedKeys
<1>2. CASE ListCompletedKeys
  BY <1>2 DEF ListCompletedKeys
<1>3. CASE RedisFails
  BY <1>3 DEF RedisFails
<1>4. ASSUME NEW k \in Places, ReadQueued(k)
      PROVE  Types'
  BY <1>4 DEF ReadQueued, At
<1>5. ASSUME NEW k \in DonePlaces, ReadCompleted(k)
      PROVE  Types'
  BY <1>5 DEF ReadCompleted, At
<1>6. CASE SnapshotTaken
  <2>1. Len(toRedeliver) \in Nat
    OBVIOUS
  <2>2. left' = Len(toRedeliver) /\ op' = "get" /\ pc' \in {"reserve", "sleep", "done"}
    BY <1>6 DEF SnapshotTaken, NextUnit
  <2>3. pc' = "reserve" => left' > 0
    BY <1>6, <2>1 DEF SnapshotTaken, NextUnit
  <2>4. UNCHANGED <<log, gh, place, donePlace, stayed, remaining, budget, spent, resetAt, tries,
                    due, ctx, listed, toRedeliver, keys, inQueue, inDone, requested, verdict>>
    BY <1>6 DEF SnapshotTaken
  <2>5. left' \in 0..Len(toRedeliver')
    BY <2>1, <2>2, <2>4
  <2>6. QED BY <2>2, <2>3, <2>4, <2>5
<1>7. QED BY <1>1, <1>2, <1>3, <1>4, <1>5, <1>6 DEF Snapshot

\* What deciding on the delivery in hand does to the walk's own state.
LEMMA DecideFact ==
    ASSUME Types, left > 0, NEW v \in Verdicts, Decide(v), UNCHANGED <<log, toRedeliver>>
    PROVE  /\ Current \in 1..Len(log) /\ left \in 1..Len(toRedeliver)
           /\ verdict' = [verdict EXCEPT ![Current] = v]
           /\ verdict' \in [1..Len(log) -> Verdicts]
           /\ ctx' = "live" /\ op' = "get"
           /\ left' = left - 1 /\ left' \in 0..Len(toRedeliver)
           /\ pc' \in {"reserve", "sleep", "done"}
           /\ pc' = "reserve" <=> left' > 0
<1>1. toRedeliver \in Seq(1..Len(log)) /\ left \in 0..Len(toRedeliver) /\ Len(toRedeliver) \in Nat
  BY DEF Types, TypeOK
<1>2. left \in 1..Len(toRedeliver) /\ left - 1 \in 0..Len(toRedeliver)
  BY <1>1
<1>3. Current \in 1..Len(log)
  BY <1>1, <1>2 DEF Current
<1>4. /\ verdict' = [verdict EXCEPT ![Current] = v] /\ ctx' = "live" /\ op' = "get"
      /\ left' = left - 1
      /\ pc' = IF left - 1 > 0 THEN "reserve" ELSE IF requested' THEN "sleep" ELSE "done"
  BY DEF Decide, NextUnit, Goto
<1>5. verdict' \in [1..Len(log) -> Verdicts]
  BY <1>3, <1>4 DEF Types, TypeOK
<1>6. QED BY <1>2, <1>3, <1>4, <1>5

\* A unit's last step: only the records, the account and the walk's state change.
LEMMA DecideKeepsTypes ==
    ASSUME Types, left > 0, NEW v \in Verdicts, Decide(v),
           UNCHANGED <<log, gh, place, stayed, tries, due, listed, toRedeliver, keys, inQueue, inDone>>,
           donePlace' \in [Jobs -> DonePlaces \cup {"none"}],
           remaining' \in 0..Limit, budget' \in Nat, spent' \in Nat,
           resetAt' \in {"zero", "future", "past"}, requested' \in BOOLEAN
    PROVE  Types'
<1>1. /\ verdict' \in [1..Len(log') -> Verdicts] /\ ctx' = "live" /\ op' = "get"
      /\ left' \in 0..Len(toRedeliver') /\ pc' \in {"reserve", "sleep", "done"}
      /\ pc' = "reserve" <=> left' > 0
  BY DecideFact
<1>2. QED BY <1>1 DEF Types, TypeOK, WalkPcs

LEMMA DecidingKeepsTypes ==
    ASSUME Types, Deciding
    PROVE  Types'
<1> USE DEF github, redis, lists, result, window
<1>1. CASE GetUnlabelled \/ GetFails \/ JobProgressed \/ Redelivered
  <2>1. left > 0
    BY <1>1 DEF GetUnlabelled, GetFails, JobProgressed, Redelivered, Answered, Refused,
                Types, TypeOK
  <2>2. /\ remaining' \in 0..Limit /\ budget' \in Nat /\ spent' \in Nat
        /\ resetAt' \in {"zero", "future", "past"}
    BY <1>1, RecordsTyped DEF GetUnlabelled, GetFails, JobProgressed, Redelivered
  <2>3. requested' \in BOOLEAN
    BY <1>1 DEF GetUnlabelled, GetFails, JobProgressed, Redelivered, Types, TypeOK
  <2>4. UNCHANGED <<log, gh, place, donePlace, stayed, tries, due, listed, toRedeliver, keys,
                    inQueue, inDone>>
    BY <1>1 DEF GetUnlabelled, GetFails, JobProgressed, Redelivered, UnitDone
  <2>5. PICK v \in Verdicts : Decide(v)
    BY <1>1 DEF GetUnlabelled, GetFails, JobProgressed, Redelivered, Verdicts
  <2>6. donePlace' \in [Jobs -> DonePlaces \cup {"none"}]
    BY <2>4 DEF Types, TypeOK
  <2>7. QED BY <2>1, <2>2, <2>3, <2>4, <2>5, <2>6, DecideKeepsTypes
<1>2. CASE KeepCompleted \/ RemoveCompleted
  <2>1. left > 0
    BY <1>2 DEF KeepCompleted, RemoveCompleted, Types, TypeOK
  <2>2. UNCHANGED <<remaining, budget, spent, resetAt, requested, log, gh, place, stayed, tries, due,
                    listed, toRedeliver, keys, inQueue, inDone>>
    BY <1>2 DEF KeepCompleted, RemoveCompleted, UnitDone
  <2>3. donePlace' \in [Jobs -> DonePlaces \cup {"none"}]
    BY <1>2 DEF KeepCompleted, RemoveCompleted, UnitDone, Types, TypeOK
  <2>4. PICK v \in Verdicts : Decide(v)
    BY <1>2 DEF KeepCompleted, RemoveCompleted, Verdicts
  <2>5. /\ remaining' \in 0..Limit /\ budget' \in Nat /\ spent' \in Nat
        /\ resetAt' \in {"zero", "future", "past"} /\ requested' \in BOOLEAN
    BY <2>2 DEF Types, TypeOK
  <2>6. QED BY <2>1, <2>2, <2>3, <2>4, <2>5, DecideKeepsTypes
<1>3. CASE GetDelivery \/ JobStillQueued \/ StatusFails
  <2>1. /\ remaining' \in 0..Limit /\ budget' \in Nat /\ spent' \in Nat
        /\ resetAt' \in {"zero", "future", "past"}
    BY <1>3, RecordsTyped DEF GetDelivery, JobStillQueued, StatusFails
  <2>2. left > 0
    BY <1>3 DEF GetDelivery, JobStillQueued, StatusFails, Answered, Refused, Types, TypeOK
  <2>3. op' \in {"get", "status"} /\ pc' \in {"call", "decide"}
    BY <1>3 DEF GetDelivery, JobStillQueued, StatusFails, Goto
  <2>4. tries' \in 0..MaxRetries
    BY <1>3, Bounds DEF GetDelivery, JobStillQueued, StatusFails, Within, Types, TypeOK
  <2>5. ctx' \in {"live", "pausing", "dead"}
    BY <1>3 DEF GetDelivery, JobStillQueued, StatusFails, Kept, Dropped, Types, TypeOK
  <2>6. UNCHANGED <<log, gh, place, donePlace, stayed, due, listed, toRedeliver, keys,
                    inQueue, inDone, left, requested, verdict>>
    BY <1>3 DEF GetDelivery, JobStillQueued, StatusFails, Within
  <2>7. QED BY <2>1, <2>2, <2>3, <2>4, <2>5, <2>6 DEF Types, TypeOK, WalkPcs
<1>4. CASE Redeliver
  <2>1. 0 \in 0..MaxRetries
    BY Bounds
  <2>2. QED BY <1>4, <2>1 DEF Redeliver, Goto, Types, TypeOK, WalkPcs
<1>5. CASE Slept
  BY <1>5 DEF Slept, Goto, Fail, call, Types, TypeOK, WalkPcs
<1>6. QED BY <1>1, <1>2, <1>3, <1>4, <1>5 DEF Deciding

LEMMA MeanwhileKeepsTypes ==
    ASSUME Types, \/ WindowResets \/ HandlersCall
                  \/ \E j \in Jobs : RecordMoves(j) \/ CompletedMoves(j)
                  \/ UNCHANGED vars
    PROVE  Types'
<1> USE DEF Types, TypeOK, github, redis, window, call, lists, result
<1>1. CASE WindowResets
  BY <1>1, Bounds DEF WindowResets
<1>2. CASE HandlersCall
  <2>1. remaining' \in 0..Limit
    BY <1>2, Bounds DEF HandlersCall
  <2>2. QED BY <1>2, <2>1 DEF HandlersCall
<1>3. ASSUME NEW j \in Jobs, RecordMoves(j)
      PROVE  Types'
  <2>1. place' \in [Jobs -> Places \cup {"none"}]
    BY <1>3, ConstantsAssumption DEF RecordMoves
  <2>2. QED BY <1>3, <2>1 DEF RecordMoves
<1>4. ASSUME NEW j \in Jobs, CompletedMoves(j)
      PROVE  Types'
  <2>1. donePlace' \in [Jobs -> DonePlaces \cup {"none"}]
    BY <1>4 DEF CompletedMoves
  <2>2. QED BY <1>4, <2>1 DEF CompletedMoves
<1>5. CASE UNCHANGED vars
  BY <1>5 DEF vars
<1>6. QED BY <1>1, <1>2, <1>3, <1>4, <1>5

LEMMA NextKeepsTypes == Types /\ [Next]_vars => Types'
  BY BudgetingKeepsTypes, CallingKeepsTypes, ListingKeepsTypes, SnapshotKeepsTypes,
     DecidingKeepsTypes, MeanwhileKeepsTypes DEF Next, Walk

\* Besides the types: a unit of work is reserved or made only for a delivery that
\* is left to look at, and no index is outside the lists (runRedeliveryWalk).
THEOREM WalkTypesCorrect == Spec => []TypeOK
<1>1. Types => TypeOK
  BY DEF Types
<1>2. QED BY InitTypes, NextKeepsTypes, <1>1, PTL DEF Spec

-----------------------------------------------------------------------------
(* The order of the walk, and that it forgets nothing.                      *)

Reading == {"queuedKeys", "queued", "completed"}

\* What the listing leaves once it ends: the last page, or a page with a delivery
\* that is too old.
Phases ==
    /\ pc = "start" \/ pc \in Reading => op = "list"
    /\ pc \in {"decide", "sleep", "done"} => op # "list"
    /\ pc \in {"sleep", "done"} => left = 0
    /\ op # "list" \/ pc \in Reading => listed = Len(log) \/ ~NewerThanLimit(listed)

\* toRedeliver has the failed originals among the listed deliveries, ascending.
Selected ==
    /\ \A e \in 1..Len(log) :
          e \in Listed(listed) <=> \E i \in 1..Len(toRedeliver) : toRedeliver[i] = e
    /\ \A i, k \in 1..Len(toRedeliver) : i < k => toRedeliver[i] < toRedeliver[k]

\* The deliveries decided on are those of toRedeliver after the first left.
Looked(e) == \E i \in 1..Len(toRedeliver) : left < i /\ toRedeliver[i] = e
Decided ==
    \A e \in 1..Len(log) : verdict[e] # "none" <=> op # "list" /\ Looked(e)

WalkInv == Phases /\ Selected /\ Decided

LEMMA InitWalkInv == Init => WalkInv
<1> SUFFICES ASSUME Init PROVE WalkInv
  OBVIOUS
<1>1. Phases
  BY DEF Init, Phases, Reading
<1>2. Selected
  BY DEF Init, Selected, Listed
<1>3. Decided
  BY DEF Init, Decided
<1>4. QED BY <1>1, <1>2, <1>3 DEF WalkInv

\* Steps that neither list nor decide.
LEMMA SameWalkInv ==
    ASSUME WalkInv, UNCHANGED <<log, listed, toRedeliver, left, verdict>>,
           op' # "list" <=> op # "list", Phases'
    PROVE  WalkInv'
<1>1. Selected'
  BY DEF WalkInv, Selected, Listed, FailedOriginal, NewerThanLimit
<1>2. Decided'
  BY DEF WalkInv, Decided, Looked
<1>3. QED BY <1>1, <1>2 DEF WalkInv

LEMMA BudgetingKeepsWalkInv ==
    ASSUME Types, WalkInv, Budgeting \/ Calling
    PROVE  WalkInv'
<1>1. UNCHANGED <<log, listed, toRedeliver, left, verdict, op>>
  BY DEF Budgeting, Calling, FirstRefresh, Reserved, RefreshInReserve, WaitForReset,
         ResetWaited, ReserveFails, CallRunsLow, RepeatAfterPause, CallNotFound,
         lists, result, github, call
<1>2. pc' \in {"reserve", "call", "wait", "failed", "paused"}
  BY DEF Budgeting, Calling, FirstRefresh, Reserved, RefreshInReserve, WaitForReset,
         ResetWaited, ReserveFails, CallRunsLow, RepeatAfterPause, CallNotFound,
         Goto, Fail
<1>3. Phases'
  BY <1>1, <1>2 DEF WalkInv, Phases, Reading, NewerThanLimit
<1>4. QED BY <1>1, <1>3, SameWalkInv

LEMMA ListPageKeepsWalkInv ==
    ASSUME Types, WalkInv, ListPage
    PROVE  WalkInv'
<1>1. PICK n \in 0..Len(log) : n = PageEnd
  BY ListedTyped
<1>2. /\ listed' = n /\ toRedeliver' = Ascending(Listed(n))
      /\ op = "list" /\ op' = "list" /\ UNCHANGED <<log, left, verdict>>
      /\ pc' = IF n = Len(log) \/ ~NewerThanLimit(n) THEN "queuedKeys" ELSE "reserve"
  BY <1>1 DEF ListPage, Goto, github, result
<1>3. n \in Nat /\ Listed(n) \in SUBSET (1..n) /\ Listed(n) \subseteq 1..Len(log)
  BY <1>1 DEF Listed, Types, TypeOK
<1>4. Phases'
  BY <1>2 DEF Phases, Reading, NewerThanLimit
<1>5. PICK S : S = Listed(n)
  OBVIOUS
<1>6. PICK c : c = Cardinality(S)
  OBVIOUS
<1>7. /\ c \in Nat /\ toRedeliver' \in [1..c -> S] /\ Ascends(toRedeliver', S)
  BY <1>2, <1>3, <1>5, <1>6, AscendingFact
<1>8. Len(toRedeliver') = c /\ \A i \in 1..c : toRedeliver'[i] \in S
  BY <1>7
<1>9. Listed(listed)' = S
  BY <1>2, <1>5 DEF Listed, FailedOriginal, NewerThanLimit
<1>10. Selected'
  <2>1. ASSUME NEW e \in 1..Len(log')
        PROVE  e \in S <=> \E i \in 1..Len(toRedeliver') : toRedeliver'[i] = e
    BY <1>6, <1>7, <1>8 DEF Ascends
  <2>2. \A i, k \in 1..Len(toRedeliver') : i < k => toRedeliver'[i] < toRedeliver'[k]
    BY <1>6, <1>7, <1>8 DEF Ascends
  <2>3. QED BY <1>9, <2>1, <2>2 DEF Selected
<1>11. Decided'
  BY <1>2 DEF WalkInv, Decided
<1>12. QED BY <1>4, <1>10, <1>11 DEF WalkInv

LEMMA ListingKeepsWalkInv ==
    ASSUME Types, WalkInv, Listing
    PROVE  WalkInv'
<1>1. CASE ListPage
  BY <1>1, ListPageKeepsWalkInv
<1>2. CASE ListFails
  <2>1. UNCHANGED <<log, listed, toRedeliver, left, verdict, op>> /\ pc' = "failed"
    BY <1>2 DEF ListFails, Goto, Fail, github, call, lists, result
  <2>2. Phases'
    BY <2>1 DEF WalkInv, Phases, Reading, NewerThanLimit
  <2>3. QED BY <2>1, <2>2, SameWalkInv
<1>3. QED BY <1>1, <1>2 DEF Listing

LEMMA SnapshotKeepsWalkInv ==
    ASSUME Types, WalkInv, Snapshot
    PROVE  WalkInv'
<1>1. CASE SnapshotTaken
  <2>1. /\ UNCHANGED <<log, listed, toRedeliver, verdict>>
        /\ left' = Len(toRedeliver) /\ op' = "get" /\ pc = "completed"
        /\ pc' = IF Len(toRedeliver) > 0 THEN "reserve" ELSE IF requested' THEN "sleep" ELSE "done"
    BY <1>1 DEF SnapshotTaken, NextUnit, Goto, github, result
  <2>2. Len(toRedeliver) \in Nat
    BY DEF Types, TypeOK
  <2>3. op = "list" /\ (listed = Len(log) \/ ~NewerThanLimit(listed))
    BY <2>1 DEF WalkInv, Phases, Reading
  <2>4. Phases'
    BY <2>1, <2>2, <2>3 DEF Phases, Reading, NewerThanLimit
  <2>5. Selected'
    BY <2>1 DEF WalkInv, Selected, Listed, FailedOriginal, NewerThanLimit
  <2>6. Decided'
    <3>1. \A e : ~Looked(e)'
      BY <2>1, <2>2 DEF Looked
    <3>2. QED BY <2>1, <2>3, <3>1 DEF WalkInv, Decided
  <2>7. QED BY <2>4, <2>5, <2>6 DEF WalkInv
<1>2. CASE ~SnapshotTaken
  <2>1. UNCHANGED <<log, listed, toRedeliver, left, verdict, op>>
    BY <1>2 DEF Snapshot, ListQueuedKeys, ListCompletedKeys, RedisFails, ReadQueued,
                ReadCompleted, github, lists, result, call
  <2>2. pc \in Reading /\ pc' \in Reading \cup {"failed"}
    BY <1>2 DEF Snapshot, ListQueuedKeys, ListCompletedKeys, RedisFails, ReadQueued,
                ReadCompleted, Goto, Fail, Reading
  <2>3. Phases'
    BY <2>1, <2>2 DEF WalkInv, Phases, Reading, NewerThanLimit
  <2>4. QED BY <2>1, <2>3, SameWalkInv
<1>3. QED BY <1>1, <1>2

\* A decision is on the last delivery that is left.
LEMMA DecideKeepsWalkInv ==
    ASSUME Types, WalkInv, left > 0, op # "list", NEW v \in Verdicts \ {"none"}, Decide(v),
           UNCHANGED <<log, listed, toRedeliver>>
    PROVE  WalkInv'
<1>1. /\ Current \in 1..Len(log) /\ left \in 1..Len(toRedeliver)
      /\ verdict' = [verdict EXCEPT ![Current] = v]
      /\ op' = "get" /\ left' = left - 1
      /\ pc' \in {"reserve", "sleep", "done"} /\ (pc' = "reserve" <=> left' > 0)
      /\ left' \in 0..Len(toRedeliver)
  BY DecideFact
<1>2. Phases'
  <2>1. left' = 0 <=> pc' \in {"sleep", "done"}
    BY <1>1
  <2>2. QED BY <1>1, <2>1 DEF WalkInv, Phases, Reading, NewerThanLimit
<1>3. Selected'
  BY DEF WalkInv, Selected, Listed, FailedOriginal, NewerThanLimit
<1>4. ASSUME NEW e \in 1..Len(log)
      PROVE  verdict'[e] # "none" <=> op' # "list" /\ Looked(e)'
  <2>1. CASE e = Current
    <3>1. verdict'[e] = v
      BY <1>1, <2>1 DEF Types, TypeOK
    <3>2. Looked(e)'
      BY <1>1, <2>1 DEF Looked, Current
    <3>3. QED BY <1>1, <3>1, <3>2
  <2>2. CASE e # Current
    <3>1. verdict'[e] = verdict[e]
      BY <1>1, <2>2 DEF Types, TypeOK
    <3>2. \A i \in 1..Len(toRedeliver) : toRedeliver[i] = e => (left < i <=> left' < i)
      BY <1>1, <2>2 DEF Current
    <3>3. Looked(e)' <=> Looked(e)
      BY <3>2 DEF Looked
    <3>4. QED BY <1>1, <3>1, <3>3 DEF WalkInv, Decided
  <2>3. QED BY <2>1, <2>2
<1>5. Decided'
  BY <1>4 DEF Decided
<1>6. QED BY <1>2, <1>3, <1>5 DEF WalkInv

LEMMA DecidingKeepsWalkInv ==
    ASSUME Types, WalkInv, Deciding
    PROVE  WalkInv'
<1> USE DEF github, redis, lists, result
<1>1. CASE GetUnlabelled \/ GetFails \/ JobProgressed \/ Redelivered \/ KeepCompleted
           \/ RemoveCompleted
  <2>1. op # "list"
    BY <1>1 DEF GetUnlabelled, GetFails, JobProgressed, Redelivered, KeepCompleted,
                RemoveCompleted, WalkInv, Phases
  <2>2. left > 0
    BY <1>1, <2>1 DEF GetUnlabelled, GetFails, JobProgressed, Redelivered, KeepCompleted,
                RemoveCompleted, Answered, Refused, Types, TypeOK
  <2>3. UNCHANGED <<log, listed, toRedeliver>>
    BY <1>1 DEF GetUnlabelled, GetFails, JobProgressed, Redelivered, KeepCompleted,
                RemoveCompleted, UnitDone
  <2>4. PICK v \in Verdicts \ {"none"} : Decide(v)
    BY <1>1 DEF GetUnlabelled, GetFails, JobProgressed, Redelivered, KeepCompleted,
                RemoveCompleted, Verdicts
  <2>5. QED BY <2>1, <2>2, <2>3, <2>4, DecideKeepsWalkInv
<1>2. CASE GetDelivery \/ JobStillQueued \/ StatusFails \/ Redeliver \/ Slept
  <2>1. UNCHANGED <<log, listed, toRedeliver, left, verdict>>
    BY <1>2 DEF GetDelivery, JobStillQueued, StatusFails, Redeliver, Slept, Within
  <2>2. op # "list" /\ op' # "list"
    BY <1>2 DEF GetDelivery, JobStillQueued, StatusFails, Redeliver, Slept, call,
                WalkInv, Phases
  <2>3. /\ pc' \in {"call", "decide", "done", "failed"}
        /\ pc' = "done" => pc = "sleep"
    BY <1>2 DEF GetDelivery, JobStillQueued, StatusFails, Redeliver, Slept, Goto, Fail
  <2>4. Phases'
    BY <2>1, <2>2, <2>3 DEF WalkInv, Phases, Reading, NewerThanLimit
  <2>5. QED BY <2>1, <2>2, <2>4, SameWalkInv
<1>3. QED BY <1>1, <1>2 DEF Deciding

LEMMA NextKeepsWalkInv == Types /\ WalkInv /\ [Next]_vars => WalkInv'
<1> SUFFICES ASSUME Types, WalkInv, [Next]_vars PROVE WalkInv'
  OBVIOUS
<1>1. CASE Walk
  BY <1>1, BudgetingKeepsWalkInv, ListingKeepsWalkInv, SnapshotKeepsWalkInv,
     DecidingKeepsWalkInv DEF Walk
<1>2. CASE ~Walk
  <2>1. UNCHANGED <<log, listed, toRedeliver, left, verdict, op, pc>>
    BY <1>2 DEF Next, WindowResets, HandlersCall, RecordMoves, CompletedMoves, vars,
                github, lists, result, call
  <2>2. Phases'
    BY <2>1 DEF WalkInv, Phases, Reading, NewerThanLimit
  <2>3. QED BY <2>1, <2>2, SameWalkInv
<1>3. QED BY <1>1, <1>2

\* The walk looks at the failed deliveries from the oldest to the newest, whatever
\* calls fail or wait in between (the loop at redeliver.go:159).
THEOREM WalksOldestFirst == Spec => []OldestFirst
<1>1. Types /\ WalkInv => OldestFirst
  <2> SUFFICES ASSUME Types, WalkInv, NEW i \in 1..Len(toRedeliver),
                      NEW k \in 1..Len(toRedeliver), i < k, verdict[toRedeliver[i]] # "none"
               PROVE  verdict[toRedeliver[k]] # "none"
    BY DEF OldestFirst
  <2>1. /\ toRedeliver[i] \in 1..Len(log) /\ toRedeliver[k] \in 1..Len(log)
        /\ Len(toRedeliver) \in Nat /\ left \in Nat
    <3>1. toRedeliver \in Seq(1..Len(log)) /\ left \in 0..Len(toRedeliver)
      BY DEF Types, TypeOK
    <3>2. QED BY <3>1
  <2>2. op # "list" /\ Looked(toRedeliver[i])
    BY <2>1 DEF WalkInv, Decided
  <2>3. PICK n \in 1..Len(toRedeliver) : left < n /\ toRedeliver[n] = toRedeliver[i]
    BY <2>2 DEF Looked
  <2>4. \A m \in 1..Len(toRedeliver) : toRedeliver[m] \in Nat
    <3>1. toRedeliver \in Seq(1..Len(log))
      BY DEF Types, TypeOK
    <3>2. \A m \in 1..Len(toRedeliver) : toRedeliver[m] \in 1..Len(log)
      BY <3>1
    <3>3. QED BY <3>2
  <2>5. n = i
    BY <2>1, <2>3, <2>4 DEF WalkInv, Selected
  <2>6. left < k
    BY <2>1, <2>3, <2>5
  <2>7. Looked(toRedeliver[k])
    BY <2>6 DEF Looked
  <2>8. QED BY <2>1, <2>2, <2>7 DEF WalkInv, Decided
<1>2. QED BY InitTypes, NextKeepsTypes, InitWalkInv, NextKeepsWalkInv, <1>1, PTL DEF Spec

\* A walk that ends has decided on exactly the failed originals that are not too
\* old, however they were spread over pages (runRedeliveryWalk, filterFailedOriginalDeliveries).
THEOREM WalkForgetsNothing == Spec => []NoFailureForgotten
<1>1. Types /\ WalkInv => NoFailureForgotten
  <2> SUFFICES ASSUME Types, WalkInv, pc = "done", NEW i \in 1..Len(log)
               PROVE  verdict[i] # "none" <=>
                          /\ ~log[i].old /\ ~log[i].redelivery
                          /\ log[i].action \in {"queued", "completed"}
    BY DEF NoFailureForgotten
  <2>1. left = 0 /\ op # "list" /\ (listed = Len(log) \/ ~NewerThanLimit(listed))
    BY DEF WalkInv, Phases
  <2>2. Looked(i) <=> \E n \in 1..Len(toRedeliver) : toRedeliver[n] = i
    BY <2>1 DEF Looked, Types, TypeOK
  <2>3. verdict[i] # "none" <=> i \in Listed(listed)
    BY <2>1, <2>2 DEF WalkInv, Decided, Selected
  <2>4. log \in Logs /\ log \in Seq(Hook) /\ Len(log) \in Nat /\ listed \in 0..Len(log)
    BY ConstantsAssumption DEF Types, TypeOK
  <2>5. log[i].action \in HookActions /\ log[i].old \in BOOLEAN
    <3>1. log[i] \in Hook
      BY <2>4
    <3>2. QED BY <3>1 DEF Hook
  <2>6. \A k \in 1..Len(log) : k < i /\ log[k].old => log[i].old
    BY <2>4, NewestFirst
  <2>7. NewerThanLimit(i) <=> ~log[i].old
    <3>1. i \in 1..i /\ i \in Nat
      OBVIOUS
    <3>2. ASSUME NEW k \in 1..i, log[k].old
          PROVE  log[i].old
      BY <2>4, <2>6, <3>2
    <3>3. QED BY <3>1, <3>2 DEF NewerThanLimit
  <2>8. i > listed => ~NewerThanLimit(i)
    <3>1. ASSUME i > listed PROVE ~NewerThanLimit(i)
      <4>1. ~NewerThanLimit(listed)
        BY <2>1, <2>4, <3>1
      <4>2. PICK k \in 1..listed : log[k].old
        BY <4>1 DEF NewerThanLimit
      <4>3. k \in 1..i
        BY <2>4, <3>1
      <4>4. QED BY <4>2, <4>3 DEF NewerThanLimit
    <3>2. QED BY <3>1
  <2>9. i \in Listed(listed) <=> FailedOriginal(i) /\ NewerThanLimit(i)
    BY <2>4, <2>8 DEF Listed
  <2>10. FailedOriginal(i) <=> ~log[i].redelivery /\ log[i].action \in {"queued", "completed"}
    BY <2>5 DEF FailedOriginal, HookActions
  <2>11. QED BY <2>3, <2>7, <2>9, <2>10
<1>2. QED BY InitTypes, NextKeepsTypes, InitWalkInv, NextKeepsWalkInv, <1>1, PTL DEF Spec

-----------------------------------------------------------------------------
(* The snapshot of the queued lists, while records move between them.      *)

\* A record that stays where it is while the lists are read is in a list still to
\* be read, or in the snapshot; and the snapshot never changes once it is taken.
Seen ==
    /\ pc = "queued" =>
           \A j \in stayed : place[j] # "none" /\ (place[j] \in keys \/ j \in inQueue)
    /\ pc = "completed" \/ op # "list" => stayed \subseteq inQueue

LEMMA InitSeen == Init => Seen
  BY DEF Init, Seen

LEMMA NextKeepsSeen == Types /\ WalkInv /\ Seen /\ [Next]_vars => Seen'
<1> SUFFICES ASSUME Types, WalkInv, Seen, [Next]_vars PROVE Seen'
  OBVIOUS
<1> USE DEF github, redis, lists, result, call, window
<1>1. CASE Budgeting \/ Calling
  <2>1. UNCHANGED <<place, stayed, keys, inQueue, op>>
    BY <1>1 DEF Budgeting, Calling, FirstRefresh, Reserved, RefreshInReserve, WaitForReset,
         ResetWaited, ReserveFails, CallRunsLow, RepeatAfterPause, CallNotFound
  <2>2. pc' \in {"reserve", "call", "wait", "failed", "paused"}
    BY <1>1 DEF Budgeting, Calling, FirstRefresh, Reserved, RefreshInReserve, WaitForReset,
         ResetWaited, ReserveFails, CallRunsLow, RepeatAfterPause, CallNotFound, Goto, Fail
  <2>3. QED BY <2>1, <2>2 DEF Seen
<1>2. CASE Listing
  <2>1. op' = "list" /\ pc' \in {"queuedKeys", "reserve", "failed"}
    BY <1>2 DEF Listing, ListPage, ListFails, Goto, Fail
  <2>2. QED BY <2>1 DEF Seen
<1>3. CASE Snapshot
  <2>0. op = "list"
    BY <1>3 DEF Snapshot, ListQueuedKeys, ListCompletedKeys, SnapshotTaken, RedisFails,
                ReadQueued, ReadCompleted, WalkInv, Phases, Reading
  <2>1. CASE ListQueuedKeys
    <3>1. UNCHANGED <<place, op, inQueue>> /\ pc' = "queued"
          /\ keys' = {k \in Places : At(k) # {}}
          /\ stayed' = {j \in Jobs : place[j] # "none"}
      BY <2>1 DEF ListQueuedKeys, QueuedKeys, Goto
    <3>2. ASSUME NEW j \in Jobs, place[j] # "none" PROVE place[j] \in keys'
      <4>1. place[j] \in Places /\ j \in At(place[j])
        BY <3>2 DEF At, Types, TypeOK
      <4>2. QED BY <3>1, <4>1
    <3>3. QED BY <2>0, <3>1, <3>2 DEF Seen
  <2>2. ASSUME NEW k \in Places, ReadQueued(k) PROVE Seen'
    <3>1. UNCHANGED <<place, stayed, op, pc>> /\ pc = "queued" /\ k \in keys
          /\ keys' = keys \ {k} /\ inQueue' = inQueue \cup At(k)
      BY <2>2 DEF ReadQueued
    <3>2. ASSUME NEW j \in stayed PROVE place[j] \in keys' \/ j \in inQueue'
      <4>1. CASE place[j] = k
        <5>1. j \in Jobs
          BY DEF Types, TypeOK
        <5>2. QED BY <3>1, <4>1, <5>1 DEF At
      <4>2. CASE place[j] # k
        BY <3>1, <4>2 DEF Seen
      <4>3. QED BY <4>1, <4>2
    <3>3. QED BY <2>0, <3>1, <3>2 DEF Seen
  <2>3. CASE ListCompletedKeys
    <3>1. UNCHANGED <<stayed, inQueue, op>> /\ pc = "queued" /\ keys = {} /\ pc' = "completed"
      BY <2>3 DEF ListCompletedKeys, Goto
    <3>2. QED BY <3>1 DEF Seen
  <2>4. ASSUME NEW k \in DonePlaces, ReadCompleted(k) PROVE Seen'
    <3>1. UNCHANGED <<stayed, inQueue, op, pc>> /\ pc = "completed"
      BY <2>4 DEF ReadCompleted
    <3>2. QED BY <3>1 DEF Seen
  <2>5. CASE SnapshotTaken
    <3>1. /\ UNCHANGED <<stayed, inQueue>> /\ pc = "completed"
          /\ pc' \in {"reserve", "sleep", "done"}
      BY <2>5, NextUnitGoes DEF SnapshotTaken
    <3>2. QED BY <3>1 DEF Seen
  <2>6. CASE RedisFails
    BY <2>0, <2>6 DEF RedisFails, Fail, Goto, Seen
  <2>7. QED BY <1>3, <2>1, <2>2, <2>3, <2>4, <2>5, <2>6 DEF Snapshot
<1>4. CASE Deciding
  <2>1. UNCHANGED <<stayed, inQueue>>
    BY <1>4 DEF Deciding, GetUnlabelled, GetFails, GetDelivery, JobProgressed, JobStillQueued,
                StatusFails, KeepCompleted, RemoveCompleted, Redeliver, Redelivered, Slept,
                UnitDone, Within
  <2>2. pc' \notin Reading
    BY <1>4, NextUnitGoes DEF Deciding, GetUnlabelled, GetFails, GetDelivery, JobProgressed,
                JobStillQueued, StatusFails, KeepCompleted, RemoveCompleted, Redeliver,
                Redelivered, Slept, Decide, Goto, Fail, Reading
  <2>3. op # "list"
    BY <1>4 DEF Deciding, GetUnlabelled, GetFails, GetDelivery, JobProgressed, JobStillQueued,
                StatusFails, KeepCompleted, RemoveCompleted, Redeliver, Redelivered, Slept,
                WalkInv, Phases
  <2>4. QED BY <2>1, <2>2, <2>3 DEF Seen, Reading
<1>5. CASE ~Walk
  <2>1. UNCHANGED <<keys, inQueue, op, pc>>
    BY <1>5 DEF Next, WindowResets, HandlersCall, RecordMoves, CompletedMoves, vars
  <2>2. stayed' \subseteq stayed
    BY <1>5 DEF Next, WindowResets, HandlersCall, RecordMoves, CompletedMoves, vars
  <2>3. ASSUME pc = "queued", NEW j \in stayed' PROVE place'[j] = place[j]
    BY <1>5, <2>3 DEF Next, WindowResets, HandlersCall, RecordMoves, CompletedMoves, vars,
                      Types, TypeOK
  <2>4. QED BY <2>1, <2>2, <2>3 DEF Seen
<1>6. QED BY <1>1, <1>2, <1>3, <1>4, <1>5 DEF Walk

\* However records are claimed, returned and taken over, and however long the walk
\* takes, a completed record is deleted only of a job that was in no queued list when
\* the walk began to read these, or was moved before it had read them all
\* (redeliver.go:141, 247).
THEOREM StayedAreKept == Spec => OrphanUnlessMoved
<1>1. Types /\ WalkInv /\ Seen /\ [Next]_vars =>
          [\A j \in Jobs : pc = "decide" /\ donePlace'[j] # donePlace[j] /\ pc' # "decide"
              => j \notin stayed]_vars
  <2> SUFFICES ASSUME Types, WalkInv, Seen, Next, NEW j \in Jobs,
                      pc = "decide", donePlace'[j] # donePlace[j], pc' # "decide"
               PROVE  j \notin stayed
    OBVIOUS
  <2>1. RemoveCompleted
    BY DEF Next, Walk, Budgeting, Calling, Listing, Snapshot, Deciding, FirstRefresh, Reserved,
           RefreshInReserve, WaitForReset, ResetWaited, ReserveFails, CallRunsLow,
           RepeatAfterPause, CallNotFound, ListPage, ListFails, ListQueuedKeys,
           ListCompletedKeys, SnapshotTaken, RedisFails, ReadQueued, ReadCompleted,
           GetUnlabelled, GetFails, GetDelivery, JobProgressed, JobStillQueued, StatusFails,
           KeepCompleted, Redeliver, Redelivered, Slept, WindowResets, HandlersCall,
           RecordMoves, CompletedMoves, UnitDone, redis, Answered, Refused
  <2>2. j = CurrentHook.job /\ j \notin inQueue
    BY <2>1 DEF RemoveCompleted, InQueued, Types, TypeOK
  <2>3. op # "list"
    BY DEF WalkInv, Phases
  <2>4. QED BY <2>2, <2>3 DEF Seen
<1>2. QED BY InitTypes, NextKeepsTypes, InitWalkInv, NextKeepsWalkInv, InitSeen,
             NextKeepsSeen, <1>1, PTL DEF Spec, OrphanUnlessMoved
=============================================================================
