------------------------ MODULE LiveOrderGateProofs -------------------------
(***************************************************************************)
(* Theorems about LiveOrderGate, for any finite set of gates.          *)
(*                                                                         *)
(* OvershootBounded is not inductive: the limit is enforced on the rows,   *)
(* which lag behind what is being sent.  The strengthening counts the buys *)
(* that have passed the check against the rows, and the buys the broker    *)
(* has accepted against the rows and what was lost on the way.             *)
(***************************************************************************)
EXTENDS LiveOrderGate, FiniteSetTheorems, TLAPS

\* Buys that have passed the count and have no row yet.
Sending == {g \in Gates : side[g] = "buy" /\ pc[g] \in {"send", "answer", "audit"}}

\* Buys that the broker has accepted and that have no row yet.
Unsettled == {g \in Gates : side[g] = "buy" /\ pc[g] \in {"answer", "audit"}}

\* The attempts of a call bound what the broker accepts for it.
CallOK(g) ==
  /\ copies[g] <= Attempts(g, side[g])
  /\ pc[g] \in {"latch", "count"} => side[g] = "buy" /\ left[g] = 1 /\ copies[g] = 0
  /\ pc[g] = "send" => left[g] >= 1 /\ copies[g] + left[g] <= Attempts(g, side[g])
  /\ pc[g] = "answer" =>
       left[g] >= 1 /\ copies[g] >= 1 /\ copies[g] + left[g] <= Attempts(g, side[g]) + 1
  /\ pc[g] = "audit" => copies[g] >= 1

CallsOK == \A g \in Gates : CallOK(g)

RowsBounded == buyRows + Cardinality(Sending) <= MaxOrders - 1 + Cardinality(Gates)

BoughtCounted == bought <= buyRows + unrecorded + Cardinality(Unsettled)

IInv == TypeOK /\ CallsOK /\ RowsBounded /\ BoughtCounted

(***************************************************************************)
(* Counting                                                                *)
(***************************************************************************)

LEMMA Sizes ==
  /\ Cardinality(Gates) \in Nat \ {0}
  /\ \A S \in SUBSET Gates :
       IsFiniteSet(S) /\ Cardinality(S) \in 0..Cardinality(Gates)
<1>1. Cardinality(Gates) \in Nat \ {0}
  BY GatesAssumption, FS_CardinalityType, FS_EmptySet
<1>2. ASSUME NEW S \in SUBSET Gates
      PROVE  IsFiniteSet(S) /\ Cardinality(S) \in 0..Cardinality(Gates)
  <2>1. IsFiniteSet(S) /\ Cardinality(S) <= Cardinality(Gates)
    BY GatesAssumption, FS_Subset
  <2>2. Cardinality(S) \in Nat
    BY <2>1, FS_CardinalityType
  <2> QED
    BY <1>1, <2>1, <2>2
<1> QED
  BY <1>1, <1>2

\* The gates that are sending and those whose order has no row yet are finite
\* sets, so that they can be counted.
LEMMA SetsOfGates ==
  /\ Sending \in SUBSET Gates /\ Unsettled \in SUBSET Gates
  /\ Cardinality(Sending) \in 0..Cardinality(Gates)
  /\ Cardinality(Unsettled) \in 0..Cardinality(Gates)
<1>1. Sending \in SUBSET Gates /\ Unsettled \in SUBSET Gates
  BY DEF Sending, Unsettled
<1> QED
  BY <1>1, Sizes

\* A step of one gate changes the counted sets by that gate alone.
LEMMA OthersStay ==
  ASSUME TypeOK, TypeOK', NEW g \in Gates,
         \A h \in Gates \ {g} : pc'[h] = pc[h] /\ side'[h] = side[h]
  PROVE  /\ g \in Sending' => Sending' = Sending \cup {g}
         /\ g \notin Sending' => Sending' = Sending \ {g}
         /\ g \in Unsettled' => Unsettled' = Unsettled \cup {g}
         /\ g \notin Unsettled' => Unsettled' = Unsettled \ {g}
BY DEF Sending, Unsettled

(***************************************************************************)
(* Types and calls                                                         *)
(***************************************************************************)

LEMMA TypeStep ==
  ASSUME TypeOK, CallsOK, [Next]_vars
  PROVE  TypeOK'
<1> USE LimitAssumption, LimitsAssumption, BoundAssumption DEF TypeOK, Goto, PcValues, Fail, Lost
<1>1. ASSUME NEW g \in Gates, Call(g)
      PROVE  TypeOK'
  BY <1>1 DEF Call, Attempts
<1>2. ASSUME NEW g \in Gates, CheckLatch(g)
      PROVE  TypeOK'
  BY <1>2 DEF CheckLatch, CheckShared, CheckLoss, Pass, Refuse
<1>3. ASSUME NEW g \in Gates, CheckCount(g)
      PROVE  TypeOK'
  BY <1>3 DEF CheckCount
<1>4. ASSUME NEW g \in Gates, Accepted(g)
      PROVE  TypeOK'
  <2>1. copies[g] + 1 \in 0..1 + MaxRetries
    BY <1>4 DEF Accepted, CallsOK, CallOK, Attempts
  <2> QED
    BY <1>4, <2>1 DEF Accepted
<1>5. ASSUME NEW g \in Gates, Answered(g)
      PROVE  TypeOK'
  BY <1>5 DEF Answered
<1>6. ASSUME NEW g \in Gates, Failed(g)
      PROVE  TypeOK'
  <2>1. left[g] >= 1
    BY <1>6 DEF Failed, CallsOK, CallOK
  <2> QED
    BY <1>6, <2>1 DEF Failed
<1>7. ASSUME NEW g \in Gates, Audit(g)
      PROVE  TypeOK'
  BY <1>7 DEF Audit
<1>8. ASSUME NEW g \in Gates, Recreate(g)
      PROVE  TypeOK'
  BY <1>8 DEF Recreate, calls
<1>9. ASSUME NEW g \in Gates, Crash(g)
      PROVE  TypeOK'
  BY <1>9 DEF Crash
<1>10. CASE NewDay
  BY <1>10 DEF NewDay, calls
<1>11. CASE UNCHANGED vars
  BY <1>11 DEF vars, calls
<1> QED
  BY <1>1, <1>2, <1>3, <1>4, <1>5, <1>6, <1>7, <1>8, <1>9, <1>10, <1>11
     DEF Next, Step

\* A step of gate g leaves the calls of the others as they are.
LEMMA CallsStep ==
  ASSUME TypeOK, CallsOK, [Next]_vars
  PROVE  CallsOK'
<1> USE LimitAssumption, LimitsAssumption DEF TypeOK, CallsOK, CallOK, Goto, Attempts
<1>1. ASSUME NEW g \in Gates, Call(g)
      PROVE  CallsOK'
  BY <1>1 DEF Call
<1>2. ASSUME NEW g \in Gates, CheckLatch(g)
      PROVE  CallsOK'
  BY <1>2 DEF CheckLatch, CheckShared, CheckLoss, Pass, Refuse
<1>3. ASSUME NEW g \in Gates, CheckCount(g)
      PROVE  CallsOK'
  BY <1>3 DEF CheckCount
<1>4. ASSUME NEW g \in Gates, Accepted(g)
      PROVE  CallsOK'
  BY <1>4 DEF Accepted
<1>5. ASSUME NEW g \in Gates, Answered(g)
      PROVE  CallsOK'
  BY <1>5 DEF Answered
<1>6. ASSUME NEW g \in Gates, Failed(g)
      PROVE  CallsOK'
  BY <1>6 DEF Failed
<1>7. ASSUME NEW g \in Gates, Audit(g)
      PROVE  CallsOK'
  BY <1>7 DEF Audit
<1>8. ASSUME NEW g \in Gates, Recreate(g)
      PROVE  CallsOK'
  BY <1>8 DEF Recreate, calls
<1>9. ASSUME NEW g \in Gates, Crash(g)
      PROVE  CallsOK'
  BY <1>9 DEF Crash
<1>10. CASE NewDay
  BY <1>10 DEF NewDay, calls
<1>11. CASE UNCHANGED vars
  BY <1>11 DEF vars, calls
<1> QED
  BY <1>1, <1>2, <1>3, <1>4, <1>5, <1>6, <1>7, <1>8, <1>9, <1>10, <1>11
     DEF Next, Step

(***************************************************************************)
(* The bounds                                                              *)
(***************************************************************************)

Bounds == RowsBounded /\ BoughtCounted

\* Steps that move no buy past a check and count nothing.
LEMMA QuietStep ==
  ASSUME IInv, TypeOK', NEW g \in Gates,
         UNCHANGED <<buyRows, bought, unrecorded>>,
         \A h \in Gates \ {g} : pc'[h] = pc[h] /\ side'[h] = side[h],
         g \in Sending' <=> g \in Sending,
         g \in Unsettled' <=> g \in Unsettled
  PROVE  Bounds'
<1>1. Sending' = Sending /\ Unsettled' = Unsettled
  BY OthersStay DEF IInv
<1> QED
  BY <1>1 DEF IInv, Bounds, RowsBounded, BoughtCounted

\* The count lets a buy through.
LEMMA CountStep ==
  ASSUME IInv, TypeOK', NEW g \in Gates, CheckCount(g)
  PROVE  Bounds'
<1>1. /\ side[g] = "buy" /\ side' = side /\ pc \in [Gates -> PcValues]
      /\ \A h \in Gates \ {g} : pc'[h] = pc[h] /\ side'[h] = side[h]
      /\ UNCHANGED <<buyRows, bought, unrecorded>>
  BY DEF IInv, TypeOK, CallsOK, CallOK, CheckCount, Goto
<1>2. CASE UnderLimit(g)
  <2>1. g \notin Unsettled' /\ g \notin Unsettled
    BY <1>1, <1>2 DEF CheckCount, Goto, Unsettled
  <2>2. Unsettled' = Unsettled
    BY <1>1, <2>1, OthersStay DEF IInv
  <2>3. Cardinality(Sending') \in 0..Cardinality(Gates)
    <3>1. Sending' \in SUBSET Gates
      BY DEF Sending
    <3> QED
      BY <3>1, Sizes
  <2> QED
    BY <1>1, <1>2, <2>2, <2>3, Sizes, LimitAssumption, LimitsAssumption
       DEF IInv, TypeOK, Bounds, RowsBounded, BoughtCounted, UnderLimit
<1>3. CASE ~UnderLimit(g)
  <2>1. g \notin Sending' /\ g \notin Sending /\ g \notin Unsettled' /\ g \notin Unsettled
    BY <1>1, <1>3 DEF CheckCount, Goto, Sending, Unsettled
  <2> QED
    BY <1>1, <2>1, QuietStep
<1> QED
  BY <1>2, <1>3

\* The broker accepts a request.
LEMMA AcceptedStep ==
  ASSUME IInv, TypeOK', NEW g \in Gates, Accepted(g)
  PROVE  Bounds'
<1>1. /\ side' = side /\ pc \in [Gates -> PcValues] /\ pc[g] = "send" /\ pc'[g] = "answer"
      /\ \A h \in Gates \ {g} : pc'[h] = pc[h] /\ side'[h] = side[h]
      /\ UNCHANGED <<buyRows, unrecorded>>
  BY DEF IInv, TypeOK, Accepted, Goto
<1>2. CASE side[g] = "buy"
  <2>1. g \in Sending' /\ g \in Sending /\ g \in Unsettled' /\ g \notin Unsettled
    BY <1>1, <1>2 DEF Sending, Unsettled
  <2>2. Sending' = Sending /\ Unsettled' = Unsettled \cup {g}
    BY <1>1, <2>1, OthersStay DEF IInv
  <2>3. Cardinality(Unsettled') = Cardinality(Unsettled) + 1
    BY <2>1, <2>2, SetsOfGates, Sizes, FS_AddElement
  <2>4. bought' = bought + 1
    BY <1>2 DEF Accepted
  <2> QED
    BY <1>1, <2>2, <2>3, <2>4, SetsOfGates
       DEF IInv, TypeOK, Bounds, RowsBounded, BoughtCounted
<1>3. CASE side[g] # "buy"
  <2>1. g \notin Sending' /\ g \notin Sending /\ g \notin Unsettled' /\ g \notin Unsettled
    BY <1>1, <1>3 DEF Sending, Unsettled
  <2>2. bought' = bought
    BY <1>3 DEF Accepted
  <2> QED
    BY <1>1, <2>1, <2>2, QuietStep
<1> QED
  BY <1>2, <1>3

\* A call of g ends.  Unless its buy has been accepted and is not in the rows
\* now, nothing is lost; what is lost is counted.
LEMMA EndStep ==
  ASSUME IInv, TypeOK', NEW g \in Gates,
         pc' = [pc EXCEPT ![g] = "idle"], side' = side, bought' = bought,
         \/ /\ g \in Sending /\ buyRows' = buyRows + 1 /\ unrecorded' = unrecorded
         \/ /\ g \in Unsettled /\ buyRows' = buyRows /\ unrecorded' = unrecorded + 1
         \/ /\ g \notin Unsettled /\ buyRows' = buyRows /\ unrecorded' = unrecorded
  PROVE  Bounds'
<1>1. /\ g \notin Sending' /\ g \notin Unsettled'
      /\ \A h \in Gates \ {g} : pc'[h] = pc[h] /\ side'[h] = side[h]
  BY DEF IInv, TypeOK, Sending, Unsettled
<1>2. Sending' = Sending \ {g} /\ Unsettled' = Unsettled \ {g}
  BY <1>1, OthersStay DEF IInv
<1>3. /\ Cardinality(Sending') =
           IF g \in Sending THEN Cardinality(Sending) - 1 ELSE Cardinality(Sending)
      /\ Cardinality(Unsettled') =
           IF g \in Unsettled THEN Cardinality(Unsettled) - 1 ELSE Cardinality(Unsettled)
  BY <1>2, SetsOfGates, Sizes, FS_RemoveElement
<1>4. g \in Unsettled => g \in Sending
  BY DEF Sending, Unsettled
<1> QED
  BY <1>3, <1>4, SetsOfGates, Sizes, LimitAssumption
     DEF IInv, TypeOK, Bounds, RowsBounded, BoughtCounted

\* An accepted buy is one that Lost counts.
LEMMA LostIsUnsettled ==
  ASSUME IInv, NEW g \in Gates, pc[g] # "idle"
  PROVE  side[g] = "buy" /\ copies[g] > 0 <=> g \in Unsettled
BY LimitAssumption
   DEF IInv, TypeOK, CallsOK, CallOK, Attempts, Unsettled, PcValues

\* A lost or refused request keeps the bounds: the order leaves the set of
\* unsettled ones by a row, a retry or the count of orders without a row.
LEMMA FailedStep ==
  ASSUME IInv, TypeOK', NEW g \in Gates, Failed(g)
  PROVE  Bounds'
<1>1. /\ side' = side /\ pc \in [Gates -> PcValues] /\ pc[g] \in {"send", "answer"}
      /\ UNCHANGED <<buyRows, bought>>
  BY DEF IInv, TypeOK, Failed
<1>2. CASE left[g] > 1
  <2>1. side[g] # "buy"
    BY <1>1, <1>2, LimitAssumption DEF IInv, TypeOK, CallsOK, CallOK, Attempts
  <2>2. /\ pc' = [pc EXCEPT ![g] = "send"] /\ unrecorded' = unrecorded
    BY <1>2 DEF Failed, Goto
  <2>3. g \notin Sending' /\ g \notin Sending /\ g \notin Unsettled' /\ g \notin Unsettled
    BY <1>1, <2>1 DEF Sending, Unsettled
  <2> QED
    BY <1>1, <2>2, <2>3, QuietStep
<1>3. CASE ~(left[g] > 1)
  <2>1. /\ pc' = [pc EXCEPT ![g] = "idle"]
        /\ unrecorded' = IF g \in Unsettled THEN unrecorded + 1 ELSE unrecorded
    BY <1>1, <1>3, LostIsUnsettled DEF Failed, Goto, Lost
  <2> QED
    BY <1>1, <2>1, EndStep
<1> QED
  BY <1>2, <1>3

\* Writing the row of an order keeps the bounds: one more row, one unsettled
\* order less.
LEMMA AuditStep ==
  ASSUME IInv, TypeOK', NEW g \in Gates, Audit(g)
  PROVE  Bounds'
<1>1. /\ side' = side /\ pc[g] = "audit" /\ bought' = bought
      /\ pc' = [pc EXCEPT ![g] = "idle"]
  BY DEF Audit, Goto
<1>2. CASE side[g] = "buy" /\ buyRows' = buyRows + 1 /\ unrecorded' = unrecorded
  <2>1. g \in Sending
    BY <1>1, <1>2 DEF Sending
  <2> QED
    BY <1>1, <1>2, <2>1, EndStep
<1>3. CASE side[g] # "buy" /\ buyRows' = buyRows /\ unrecorded' = unrecorded
  <2>1. g \notin Unsettled
    BY <1>3 DEF Unsettled
  <2> QED
    BY <1>1, <1>3, <2>1, EndStep
<1>4. CASE Lost(g) /\ buyRows' = buyRows
  <2>1. unrecorded' = IF g \in Unsettled THEN unrecorded + 1 ELSE unrecorded
    BY <1>1, <1>4, LostIsUnsettled DEF Lost
  <2> QED
    BY <1>1, <1>4, <2>1, EndStep
<1> QED
  BY <1>2, <1>3, <1>4 DEF Audit

\* A call that dies keeps the bounds: its unsettled order is counted among
\* those without a row.
LEMMA CrashStep ==
  ASSUME IInv, TypeOK', NEW g \in Gates, Crash(g)
  PROVE  Bounds'
<1>1. /\ pc' = [pc EXCEPT ![g] = "idle"] /\ UNCHANGED <<side, buyRows, bought>>
      /\ unrecorded' = IF g \in Unsettled THEN unrecorded + 1 ELSE unrecorded
  BY LostIsUnsettled DEF Crash, Lost, Goto
<1> QED
  BY <1>1, EndStep

\* A new day: only what is on its way can still be counted.
LEMMA NewDayStep ==
  ASSUME IInv, TypeOK', NewDay
  PROVE  Bounds'
<1>1. Sending' = Sending /\ Unsettled' = Unsettled
  BY DEF NewDay, calls, Sending, Unsettled
<1> QED
  BY <1>1, SetsOfGates, Sizes, LimitAssumption
     DEF NewDay, Bounds, RowsBounded, BoughtCounted

\* Every step of every gate, and midnight, keeps the bounds.
LEMMA BoundsStep ==
  ASSUME IInv, TypeOK', [Next]_vars
  PROVE  Bounds'
<1> USE DEF Goto
<1>1. ASSUME NEW g \in Gates, Call(g)
      PROVE  Bounds'
  <2>1. g \notin Sending' /\ g \notin Sending /\ g \notin Unsettled' /\ g \notin Unsettled
    BY <1>1 DEF Call, IInv, TypeOK, Sending, Unsettled
  <2>2. \A h \in Gates \ {g} : pc'[h] = pc[h] /\ side'[h] = side[h]
    BY <1>1 DEF Call, IInv, TypeOK
  <2> QED
    BY <1>1, <2>1, <2>2, QuietStep DEF Call
<1>2. ASSUME NEW g \in Gates, CheckLatch(g)
      PROVE  Bounds'
  <2>1. g \notin Sending' /\ g \notin Sending /\ g \notin Unsettled' /\ g \notin Unsettled
    BY <1>2 DEF CheckLatch, CheckShared, CheckLoss, Pass, Refuse, IInv, TypeOK, Sending, Unsettled
  <2>2. \A h \in Gates \ {g} : pc'[h] = pc[h] /\ side'[h] = side[h]
    BY <1>2 DEF CheckLatch, CheckShared, CheckLoss, Pass, Refuse, IInv, TypeOK
  <2> QED
    BY <1>2, <2>1, <2>2, QuietStep DEF CheckLatch, CheckShared, CheckLoss, Pass, Refuse
<1>3. ASSUME NEW g \in Gates, Answered(g)
      PROVE  Bounds'
  <2>1. /\ g \in Sending' <=> g \in Sending
        /\ g \in Unsettled' <=> g \in Unsettled
        /\ \A h \in Gates \ {g} : pc'[h] = pc[h] /\ side'[h] = side[h]
    BY <1>3 DEF Answered, IInv, TypeOK, Sending, Unsettled
  <2> QED
    BY <1>3, <2>1, QuietStep DEF Answered
<1>4. CASE UNCHANGED vars \/ \E g \in Gates : Recreate(g)
  <2>1. UNCHANGED <<buyRows, bought, unrecorded, pc, side>>
    BY <1>4 DEF vars, calls, Recreate
  <2>2. Sending' = Sending /\ Unsettled' = Unsettled
    BY <2>1 DEF Sending, Unsettled
  <2> QED
    BY <2>1, <2>2 DEF IInv, Bounds, RowsBounded, BoughtCounted
<1> QED
  BY <1>1, <1>2, <1>3, <1>4, CountStep, AcceptedStep, FailedStep, AuditStep,
     CrashStep, NewDayStep DEF Next, Step

\* Gates that have not been called satisfy the inductive invariant.
LEMMA Initially == Init => IInv
<1> SUFFICES ASSUME Init PROVE IInv
  OBVIOUS
<1>1. Sending = {} /\ Unsettled = {}
  BY DEF Init, Sending, Unsettled
<1>2. Cardinality({}) = 0
  BY FS_EmptySet
<1> QED
  BY <1>1, <1>2, Sizes, LimitAssumption, BoundAssumption
     DEF Init, IInv, TypeOK, PcValues, CallsOK, CallOK, Attempts, RowsBounded,
         BoughtCounted

\* Every state the gates reach satisfies the inductive invariant.
THEOREM Invariance == Spec => []IInv
<1>1. IInv /\ [Next]_vars => IInv'
  BY TypeStep, CallsStep, BoundsStep DEF IInv, Bounds
<1> QED
  BY <1>1, Initially, PTL DEF Spec

\* The variables of the gates, of the audit file and of the latch file keep
\* their types, for any finite set of gates and any bounds.
THEOREM TypeCorrect == Spec => []TypeOK
<1>1. IInv => TypeOK
  BY DEF IInv
<1> QED
  BY <1>1, Invariance, PTL

\* However many calls are under way, in one process or in several, and whatever
\* fails, the largest limit of the day is exceeded by no more than the other calls
\* that may be past the check at once and the orders that left no row.
THEOREM OvershootIsBounded == Spec => []OvershootBounded
<1>1. ASSUME IInv PROVE OvershootBounded
  <2>1. Unsettled \in SUBSET Sending
    BY DEF Unsettled, Sending
  <2>2. Cardinality(Unsettled) <= Cardinality(Sending)
    BY <2>1, SetsOfGates, Sizes, FS_Subset
  <2>3. /\ Cardinality(Unsettled) \in Nat
        /\ Cardinality(Sending) \in Nat
        /\ Cardinality(Gates) \in Nat
    BY SetsOfGates, Sizes
  <2> QED
    BY <1>1, <2>2, <2>3, LimitAssumption
       DEF IInv, TypeOK, RowsBounded, BoughtCounted, OvershootBounded
<1> QED
  BY <1>1, Invariance, PTL

\* No buy is accepted twice for one call.
THEOREM BuysAreAcceptedOnce == Spec => []BuyAcceptedOnce
<1>1. IInv => BuyAcceptedOnce
  BY DEF IInv, CallsOK, CallOK, Attempts, BuyAcceptedOnce
<1> QED
  BY <1>1, Invariance, PTL

(***************************************************************************)
(* The latch                                                               *)
(***************************************************************************)

\* The day of the latest breach is in the latch file until the day is over.
LatchSaved ==
  /\ breach = Never \/ (breach \in Nat /\ breach <= day /\ BlockEnabled)
  /\ breach = day => latchFile = day

\* A breach of the day that has been latched stays in the latch file until
\* midnight.
LEMMA LatchStaysSaved ==
  ASSUME TypeOK, LatchSaved, [Next]_vars
  PROVE  LatchSaved'
<1> USE DEF TypeOK, LatchSaved
<1>1. ASSUME NEW g \in Gates, CheckLatch(g)
      PROVE  LatchSaved'
  BY <1>1 DEF CheckLatch, CheckShared, CheckLoss, Pass, Refuse
<1>2. ASSUME NEW g \in Gates, Step(g), ~CheckLatch(g)
      PROVE  LatchSaved'
  BY <1>2 DEF Step, Call, CheckCount, Accepted, Answered, Failed, Audit,
              Recreate, Crash
<1>3. CASE NewDay
  BY <1>3, NeverAssumption DEF NewDay
<1>4. CASE UNCHANGED vars
  BY <1>4 DEF vars
<1> QED
  BY <1>1, <1>2, <1>3, <1>4 DEF Next

\* A buy that leaves the latch check for the count found no latch of today.
LEMMA NothingPassesTheLatch ==
  ASSUME TypeOK, LatchSaved, [Next]_vars, faults' = faults,
         NEW g \in Latching, pc[g] = "latch", pc'[g] = "count"
  PROVE  breach # day
<1>1. g \in Gates
  BY LatchingAssumption
<1>2. ASSUME NEW h \in Gates, Step(h)
      PROVE  CheckLatch(g)
  <2>1. ASSUME h # g
        PROVE  FALSE
    BY <1>1, <1>2, <2>1
       DEF TypeOK, Step, Call, CheckLatch, CheckShared, CheckLoss, Pass, Refuse,
           CheckCount, Accepted, Answered, Failed, Audit, Recreate, Crash, Goto, calls
  <2> QED
    BY <1>1, <1>2, <2>1 DEF TypeOK, Step, Call, CheckCount, Accepted, Answered,
                            Failed, Audit, Recreate, Crash, Goto, calls
<1>3. CheckLatch(g)
  BY <1>2 DEF Next, NewDay, vars, calls
<1> QED
  BY <1>1, <1>3, NeverAssumption
     DEF CheckLatch, CheckShared, Pass, Refuse, Latched, LatchSaved, TypeOK, Goto, Fail

\* A day on which a gate with the latch saw the loss limit reached and could save
\* it stays closed to the buys of every gate with the latch that reads the file,
\* in any process and whatever crashes.  The gates without it are not bound.
THEOREM LatchLasts == Spec => LatchHolds
<1>1. Init => LatchSaved
  BY NeverAssumption DEF Init, LatchSaved
<1>2. TypeOK /\ LatchSaved /\ [Next]_vars => LatchSaved'
  BY LatchStaysSaved
<1>3. TypeOK /\ LatchSaved /\ [Next]_vars
        => [\A g \in Latching : pc[g] = "latch" /\ pc'[g] = "count" /\ faults' = faults
              => breach # day]_vars
  BY NothingPassesTheLatch
<1> QED
  BY <1>1, <1>2, <1>3, TypeCorrect, PTL DEF Spec, LatchHolds

=============================================================================
