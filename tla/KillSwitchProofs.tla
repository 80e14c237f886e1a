------------------------- MODULE KillSwitchProofs ---------------------------
(***************************************************************************)
(* Theorems about KillSwitch, for every threshold, window, outage limit,   *)
(* cooldown, loss limit and set of balances.                               *)
(***************************************************************************)
EXTENDS KillSwitch, SequenceTheorems, TLAPS

\* The recorded slippage times run forward.
SlipsSorted ==
  \A i \in 1..Len(slips) : slips[i] <= now /\ \A j \in i..Len(slips) : slips[i] <= slips[j]

\* While the deque is empty nothing has been recorded since the last reset.
Base == TypeOK /\ SlipsSorted /\ (slips = <<>> => events = <<>>)

LastTripInv == lastTrip # None => lastTrip <= now

IInv ==
  /\ Base /\ LastTripInv
  /\ WindowIsExact /\ BurstTrips
  /\ StateAgreesWithLatestTrip /\ Blackout

\* What the popleft loop leaves of a sequence it was given.
LEMMA SuffixProperties ==
  ASSUME NEW S, NEW q \in Seq(S), NEW k \in 0..Len(q)
  PROVE  /\ SubSeq(q, k + 1, Len(q)) \in Seq(S)
         /\ Len(SubSeq(q, k + 1, Len(q))) = Len(q) - k
         /\ \A i \in 1..Len(q) - k : SubSeq(q, k + 1, Len(q))[i] = q[k + i]
<1>1. Len(q) \in Nat
  BY LenProperties
<1>2. \A i \in k + 1..Len(q) : q[i] \in S
  BY <1>1, ElementOfSeq
<1>3. /\ SubSeq(q, k + 1, Len(q)) \in Seq(S)
      /\ Len(SubSeq(q, k + 1, Len(q))) = IF k + 1 <= Len(q) THEN Len(q) - (k + 1) + 1 ELSE 0
      /\ \A i \in 1..Len(q) - (k + 1) + 1 : SubSeq(q, k + 1, Len(q))[i] = q[k + 1 + i - 1]
  BY <1>1, <1>2, SubSeqProperties
<1> QED
  BY <1>1, <1>3

\* The clock and the constants are numbers.
LEMMA Numbers == TypeOK => now \in Nat /\ Window \in Nat /\ Cooldown \in Nat /\ Threshold \in Nat
BY DurationAssumption, ThresholdAssumption, BoundAssumption DEF TypeOK, Time

\* Appending one slippage event keeps the history sorted.
LEMMA RecordSlipsSorted ==
  ASSUME TypeOK, SlipsSorted, RecordSlippage
  PROVE  /\ slips' \in Seq(Time) /\ Len(slips') = Len(slips) + 1 /\ Len(slips) \in Nat
         /\ slips'[Len(slips) + 1] = now
         /\ \A i \in 1..Len(slips) : slips'[i] = slips[i]
         /\ SlipsSorted'
<1>1. slips \in Seq(Time) /\ now \in Time /\ slips' = Append(slips, now) /\ now' = now
  BY DEF TypeOK, RecordSlippage
<1>2. /\ slips' \in Seq(Time) /\ Len(slips') = Len(slips) + 1 /\ Len(slips) \in Nat
      /\ slips'[Len(slips) + 1] = now
      /\ \A i \in 1..Len(slips) : slips'[i] = slips[i]
  BY <1>1, AppendProperties, LenProperties
<1>3. \A i \in 1..Len(slips) : slips[i] \in Int
  BY <1>1, ElementOfSeq, BoundAssumption DEF Time
<1>4. now \in Int
  BY <1>1, BoundAssumption DEF Time
<1>5. SlipsSorted'
  <2> SUFFICES ASSUME NEW i \in 1..Len(slips'), NEW j \in i..Len(slips')
               PROVE  slips'[i] <= now /\ slips'[i] <= slips'[j]
    BY <1>1, <1>2 DEF SlipsSorted
  <2>1. CASE i = Len(slips) + 1
    BY <1>2, <1>4, <2>1
  <2>2. CASE i <= Len(slips) /\ j = Len(slips) + 1
    BY <1>2, <1>4, <2>2 DEF SlipsSorted
  <2>3. CASE j <= Len(slips)
    BY <1>2, <2>3 DEF SlipsSorted
  <2> QED
    BY <1>2, <2>1, <2>2, <2>3
<1> QED
  BY <1>2, <1>5

\* Recording keeps the deque equal to the part of the history in the window.
LEMMA RecordKeepsWindow ==
  ASSUME Base, WindowIsExact, RecordSlippage
  PROVE  WindowIsExact'
<1> DEFINE n == Len(slips)
           q == Append(events, now)
<1>1. /\ slips' \in Seq(Time) /\ Len(slips') = n + 1 /\ n \in Nat
      /\ slips'[n + 1] = now
      /\ \A i \in 1..n : slips'[i] = slips[i]
      /\ SlipsSorted'
  BY RecordSlipsSorted DEF Base
<1>2. events \in Seq(Time) /\ now \in Time /\ now \in Nat /\ Window \in Nat
  BY Numbers DEF Base, TypeOK
<1>3. /\ q \in Seq(Time) /\ Len(q) = Len(events) + 1 /\ Len(events) \in Nat
      /\ q[Len(events) + 1] = now
      /\ \A i \in 1..Len(events) : q[i] = events[i]
  BY <1>2, AppendProperties, LenProperties
<1>4. PICK k \in 0..Len(q) : /\ StalePrefix(q, k, now - Window)
                             /\ events' = SubSeq(q, k + 1, Len(q))
  BY DEF RecordSlippage
\* The deque before the call is a suffix of the history, m entries shorter.
<1>5. PICK m \in 0..n : /\ Len(events) = n - m
                        /\ \A i \in 1..n - m : events[i] = slips[m + i]
                        /\ \A i \in 1..m : slips[i] < now - Window
  <2>1. CASE slips = <<>>
    <3>0. \A x : x = <<>> => Len(x) = 0
      OBVIOUS
    <3>1. n = 0 /\ Len(events) = 0
      BY <2>1, <3>0 DEF Base
    <3> HIDE DEF n
    <3>2. 0 \in 0..n /\ Len(events) = n - 0
      BY <3>1
    <3>3. (1..n - 0) = {} /\ (1..0) = {}
      BY <3>1
    <3> QED
      BY <3>2, <3>3
  <2>2. CASE slips # <<>>
    <3>1. slips \in Seq(Time) /\ n >= 1
      BY <2>2, EmptySeq DEF Base, TypeOK
    <3>2. PICK m \in 0..n : /\ events = SubSeq(slips, m + 1, n)
                            /\ \A i \in 1..n : i <= m <=> slips[i] < slips[n] - Window
      BY <2>2 DEF WindowIsExact
    <3>3. /\ Len(events) = n - m
          /\ \A i \in 1..n - m : events[i] = slips[m + i]
      BY <3>1, <3>2, SuffixProperties
    <3>4. \A i \in 1..n : slips[i] \in Int
      BY <3>1, ElementOfSeq, BoundAssumption DEF Time
    <3>5. slips[n] <= now
      BY <3>1 DEF Base, SlipsSorted
    <3>6. \A i \in 1..m : slips[i] < now - Window
      BY <1>2, <3>1, <3>2, <3>4, <3>5
    <3> QED
      BY <3>3, <3>6
  <2> QED
    BY <2>1, <2>2
<1> HIDE DEF n, q
<1>6. Len(q) = n - m + 1 /\ \A i \in 1..n - m + 1 : q[i] = slips'[m + i]
  BY <1>1, <1>3, <1>5
<1>7. events' = SubSeq(slips', m + k + 1, n + 1)
  <2>1. /\ events' \in Seq(Time) /\ Len(events') = Len(q) - k
        /\ \A i \in 1..Len(q) - k : events'[i] = q[k + i]
    BY <1>3, <1>4, SuffixProperties
  <2>2. m + k \in 0..Len(slips')
    BY <1>1, <1>4, <1>5, <1>6
  <2> DEFINE r == SubSeq(slips', m + k + 1, n + 1)
  <2>3. /\ r \in Seq(Time) /\ Len(r) = n + 1 - (m + k)
        /\ \A i \in 1..n + 1 - (m + k) : r[i] = slips'[m + k + i]
    BY <1>1, <2>2, SuffixProperties
  <2> HIDE DEF r
  <2>4. Len(events') = Len(r)
    BY <1>1, <1>4, <1>5, <1>6, <2>1, <2>3
  <2>5. \A i \in 1..Len(events') : events'[i] = r[i]
    BY <1>1, <1>4, <1>5, <1>6, <2>1, <2>3
  <2>6. events' = r
    BY <2>1, <2>3, <2>4, <2>5, SeqEqual
  <2> QED
    BY <2>6 DEF r
<1>8. \A i \in 1..n + 1 : i <= m + k <=> slips'[i] < now - Window
  <2> SUFFICES ASSUME NEW i \in 1..n + 1
               PROVE  i <= m + k <=> slips'[i] < now - Window
    OBVIOUS
  <2>1. \A j \in 1..n + 1 : slips'[j] \in Int
    BY <1>1, ElementOfSeq, BoundAssumption DEF Time
  <2>2. CASE i <= m
    BY <1>1, <1>4, <1>5, <2>2
  <2>3. CASE m < i /\ i <= m + k
    <3>1. i - m \in 1..k /\ q[i - m] = slips'[i]
      BY <1>1, <1>4, <1>5, <1>6, <2>3
    <3>2. q[i - m] < now - Window
      BY <1>4, <3>1 DEF StalePrefix
    <3> QED
      BY <2>3, <3>1, <3>2
  <2>4. CASE m + k < i
    <3>1. k < Len(q) /\ q[k + 1] = slips'[m + k + 1] /\ m + k + 1 \in 1..n + 1
      BY <1>1, <1>4, <1>5, <1>6, <2>4
    <3>2. slips'[m + k + 1] >= now - Window
      BY <1>4, <3>1 DEF StalePrefix
    <3>3. slips'[m + k + 1] <= slips'[i]
      BY <1>1, <1>4, <1>5, <2>4, <3>1 DEF SlipsSorted
    <3>4. slips'[i] >= now - Window
      BY <1>2, <2>1, <3>1, <3>2, <3>3
    <3> QED
      BY <1>2, <1>4, <1>5, <2>1, <2>4, <3>4
  <2> QED
    BY <1>1, <1>4, <1>5, <2>2, <2>3, <2>4
<1>9. m + k \in 0..n + 1
  BY <1>1, <1>4, <1>5, <1>6
<1> QED
  BY <1>1, <1>7, <1>8, <1>9 DEF WindowIsExact

\* A burst completed by this event fills the deque to the threshold: none of
\* its events can have been evicted.
LEMMA RecordKeepsBurst ==
  ASSUME Base, WindowIsExact, BurstTrips, RecordSlippage
  PROVE  BurstTrips'
<1> DEFINE n == Len(slips)
<1>1. /\ slips' \in Seq(Time) /\ Len(slips') = n + 1 /\ n \in Nat
      /\ slips'[n + 1] = now
      /\ \A i \in 1..n : slips'[i] = slips[i]
      /\ SlipsSorted'
  BY RecordSlipsSorted DEF Base
<1>2. now \in Nat /\ Window \in Nat /\ Threshold \in Nat \ {0}
  BY Numbers, ThresholdAssumption DEF Base
<1>3. WindowIsExact' /\ slips' # <<>>
  <2>1. \A x : x = <<>> => Len(x) = 0
    OBVIOUS
  <2> QED
    BY <1>1, <2>1, RecordKeepsWindow
<1>4. PICK k \in 0..n + 1 :
        /\ events' = SubSeq(slips', k + 1, n + 1)
        /\ \A i \in 1..n + 1 : i <= k <=> slips'[i] < now - Window
  BY <1>1, <1>3 DEF WindowIsExact
<1>5. Len(events') = n + 1 - k
  BY <1>1, <1>4, SuffixProperties
<1> HIDE DEF n
<1> SUFFICES ASSUME NEW i \in 1..Len(slips'), i + Threshold - 1 <= Len(slips'),
                    slips'[i + Threshold - 1] - slips'[i] <= Window
             PROVE  isActive'
  BY DEF BurstTrips
<1>6. isActive => isActive'
  BY DEF RecordSlippage, Trip, NoTrip, state
<1>7. CASE i + Threshold - 1 <= n
  <2>1. i \in 1..n /\ slips[i + Threshold - 1] - slips[i] <= Window
    BY <1>1, <1>2, <1>7
  <2>2. isActive
    BY <1>7, <2>1 DEF BurstTrips, n
  <2> QED
    BY <1>6, <2>2
<1>8. CASE i + Threshold - 1 = n + 1
  <2>1. i \in 1..n + 1 /\ slips'[i] \in Int
    BY <1>1, ElementOfSeq, BoundAssumption DEF Time
  <2>2. ~(slips'[i] < now - Window)
    BY <1>1, <1>2, <1>8, <2>1
  <2>3. i > k
    BY <1>4, <2>1, <2>2
  <2>4. ThresholdReached(events')
    BY <1>1, <1>2, <1>4, <1>5, <1>8, <2>1, <2>3 DEF ThresholdReached
  <2> QED
    BY <2>4 DEF RecordSlippage, Trip
<1> QED
  BY <1>1, <1>2, <1>7, <1>8

\* Recording a slippage (record_slippage prunes, then appends) leaves a nonempty
\* sorted deque of times.
LEMMA RecordKeepsBase ==
  ASSUME Base, RecordSlippage
  PROVE  events' \in Seq(Time) /\ slips' \in Seq(Time) /\ slips' # <<>> /\ SlipsSorted'
<1>1. events \in Seq(Time) /\ now \in Time
  BY DEF Base, TypeOK
<1>2. Append(events, now) \in Seq(Time)
  BY <1>1, AppendProperties
<1>3. events' \in Seq(Time)
  BY <1>2, SuffixProperties DEF RecordSlippage
<1>4. slips' \in Seq(Time) /\ Len(slips') = Len(slips) + 1 /\ Len(slips) \in Nat /\ SlipsSorted'
  BY RecordSlipsSorted DEF Base
<1>5. \A x : x = <<>> => Len(x) = 0
  OBVIOUS
<1> QED
  BY <1>3, <1>4, <1>5

\* A step that keeps the two sequences and does not turn the clock back or the
\* switch off keeps what is said about them.
LEMMA SequencesKept ==
  ASSUME IInv, UNCHANGED <<events, slips>>, now' \in Time, now' >= now, isActive => isActive'
  PROVE  WindowIsExact' /\ BurstTrips' /\ SlipsSorted'
         /\ (slips' = <<>> => events' = <<>>)
<1>1. slips \in Seq(Time) /\ now \in Nat /\ now' \in Nat
  BY Numbers, BoundAssumption DEF IInv, Base, TypeOK, Time
<1>2. \A i \in 1..Len(slips) : slips[i] \in Int
  BY <1>1, ElementOfSeq, BoundAssumption DEF Time
<1>3. SlipsSorted'
  BY <1>1, <1>2 DEF IInv, Base, SlipsSorted
<1>4. WindowIsExact' /\ BurstTrips'
  BY DEF IInv, WindowIsExact, BurstTrips
<1> QED
  BY <1>3, <1>4 DEF IInv, Base

\* A trip freezes a state that agrees with it; without one nothing changes.
LEMMA TripProperties ==
  ASSUME IInv, now' = now,
         (\E why \in Reasons : Trip(why)) \/ NoTrip
  PROVE  /\ isActive' \in BOOLEAN /\ triggeredAt' \in Time \cup {None}
         /\ reason' \in Reasons \cup {None} /\ cooldownUntil' \in Nat \cup {None}
         /\ lastTrip' \in Time \cup {None}
         /\ isActive => isActive'
         /\ LastTripInv' /\ StateAgreesWithLatestTrip' /\ Blackout'
<1>1. now \in Time /\ now \in Nat /\ Cooldown \in Nat /\ None \notin Nat /\ None \notin Reasons
  BY Numbers, NoneAssumption DEF IInv, Base, TypeOK
<1>2. CASE \E why \in Reasons : Trip(why)
  <2>1. PICK why \in Reasons : Trip(why)
    BY <1>2
  <2>2. now + Cooldown \in Nat
    BY <1>1
  <2> QED
    BY <1>1, <2>1, <2>2 DEF Trip, LastTripInv, StateAgreesWithLatestTrip, Blackout
<1>3. CASE NoTrip
  BY <1>3 DEF NoTrip, state, IInv, Base, TypeOK, LastTripInv, StateAgreesWithLatestTrip,
              Blackout
<1> QED
  BY <1>2, <1>3

\* Every operation of the switch, and the clock, keeps the inductive invariant.
LEMMA NextKeepsIInv == IInv /\ [Next]_vars => IInv'
<1> SUFFICES ASSUME IInv, [Next]_vars
             PROVE  IInv'
  OBVIOUS
<1> DEFINE Frozen == /\ isActive' \in BOOLEAN /\ triggeredAt' \in Time \cup {None}
                     /\ reason' \in Reasons \cup {None}
                     /\ cooldownUntil' \in Nat \cup {None}
                     /\ lastTrip' \in Time \cup {None}
                     /\ isActive => isActive'
                     /\ LastTripInv' /\ StateAgreesWithLatestTrip' /\ Blackout'
<1>t. now \in Time /\ now \in Nat /\ Cooldown \in Nat
  BY Numbers DEF IInv, Base, TypeOK
<1>0. ASSUME UNCHANGED <<now, state, lastTrip>>
      PROVE  Frozen
  BY <1>0, TripProperties DEF NoTrip
\* The steps that touch neither the two sequences nor the clock.
<1>s. ASSUME UNCHANGED <<now, events, slips>>, Frozen,
             base' \in Balances \cup {None}, downSince' \in Time \cup {None}
      PROVE  IInv'
  <2>1. WindowIsExact' /\ BurstTrips' /\ SlipsSorted' /\ (slips' = <<>> => events' = <<>>)
    BY <1>s, <1>t, SequencesKept
  <2> QED
    BY <1>s, <2>1 DEF IInv, Base, TypeOK
<1>u. base \in Balances \cup {None} /\ downSince \in Time \cup {None}
  BY DEF IInv, Base, TypeOK
<1> HIDE DEF Frozen
<1>1. CASE Tick
  <2>1. now' \in Time /\ now' >= now /\ now' = now + 1
    BY <1>1, <1>t, BoundAssumption DEF Tick, Time
  <2>2. WindowIsExact' /\ BurstTrips' /\ SlipsSorted' /\ (slips' = <<>> => events' = <<>>)
    BY <1>1, <2>1, SequencesKept DEF Tick, state
  <2>3. UNCHANGED <<isActive, triggeredAt, reason, cooldownUntil, lastTrip, base, downSince,
                    events, slips>>
    BY <1>1 DEF Tick, state
  <2>4. lastTrip # None => lastTrip \in Int
    BY BoundAssumption DEF IInv, Base, TypeOK, Time
  <2>5. LastTripInv' /\ StateAgreesWithLatestTrip' /\ Blackout'
    BY <1>t, <2>1, <2>3, <2>4 DEF IInv, LastTripInv, StateAgreesWithLatestTrip, Blackout
  <2> QED
    BY <2>1, <2>2, <2>3, <2>5 DEF IInv, Base, TypeOK
<1>2. CASE \E b \in Balances : SetAccountBase(b)
  BY <1>0, <1>s, <1>u, <1>2 DEF SetAccountBase
<1>3. CASE \E b \in Balances : RecordLoss(b)
  <2>1. Frozen
    BY <1>3, TripProperties DEF RecordLoss, Reasons, Frozen
  <2> QED
    BY <1>3, <1>s, <1>u, <2>1 DEF RecordLoss
<1>4. CASE RecordSlippage
  <2>1. Frozen
    BY <1>4, TripProperties DEF RecordSlippage, Reasons, Frozen
  <2>2. WindowIsExact' /\ BurstTrips'
    BY <1>4, RecordKeepsWindow, RecordKeepsBurst DEF IInv
  <2>3. events' \in Seq(Time) /\ slips' \in Seq(Time) /\ slips' # <<>> /\ SlipsSorted'
    BY <1>4, RecordKeepsBase DEF IInv
  <2> QED
    BY <1>4, <1>u, <1>t, <2>1, <2>2, <2>3 DEF RecordSlippage, IInv, Base, TypeOK, Frozen
<1>5. CASE GatewayUp
  BY <1>0, <1>s, <1>u, <1>5 DEF GatewayUp
<1>6. CASE GatewayDown
  <2>1. CASE UNCHANGED <<now, base, state, events, slips, lastTrip>> /\ downSince' = now
    BY <1>0, <1>s, <1>t, <1>u, <2>1
  <2>2. CASE /\ Trip("gateway_disconnect") \/ NoTrip
             /\ UNCHANGED <<now, base, events, downSince, slips>>
    <3>1. Frozen
      BY <2>2, TripProperties DEF Reasons, Frozen
    <3> QED
      BY <1>s, <1>u, <2>2, <3>1
  <2> QED
    BY <1>6, <2>1, <2>2 DEF GatewayDown
<1>7. CASE TripManual
  <2>1. Frozen
    BY <1>7, TripProperties DEF TripManual, Reasons, Frozen
  <2> QED
    BY <1>7, <1>s, <1>u, <2>1 DEF TripManual
<1>8. CASE Reset
  <2>1. /\ now' = now /\ lastTrip' = lastTrip /\ base' = base
        /\ isActive' = FALSE /\ triggeredAt' = None /\ reason' = None
        /\ cooldownUntil' = None /\ downSince' = None
        /\ events' = <<>> /\ slips' = <<>>
    BY <1>8 DEF Reset
  <2>2. \A x : x = <<>> => Len(x) = 0
    OBVIOUS
  <2>3. WindowIsExact' /\ BurstTrips' /\ SlipsSorted'
    BY <2>1, <2>2 DEF WindowIsExact, BurstTrips, SlipsSorted
  <2>4. lastTrip # None /\ lastTrip + Cooldown <= now
    BY <1>8 DEF Reset, IInv, StateAgreesWithLatestTrip
  <2>5. lastTrip \in Nat
    BY <2>4, BoundAssumption DEF IInv, Base, TypeOK, Time
  <2>6. LastTripInv' /\ StateAgreesWithLatestTrip' /\ Blackout'
    BY <1>t, <2>1, <2>4, <2>5
    DEF IInv, LastTripInv, StateAgreesWithLatestTrip, Blackout
  <2> QED
    BY <2>1, <2>3, <2>6, EmptySeq DEF IInv, Base, TypeOK
<1>9. CASE UNCHANGED vars
  BY <1>0, <1>s, <1>u, <1>9 DEF vars, state
<1> QED
  BY <1>1, <1>2, <1>3, <1>4, <1>5, <1>6, <1>7, <1>8, <1>9 DEF Next

\* A new KillSwitch satisfies the inductive invariant: no trip, no history.
LEMMA InitIInv == Init => IInv
<1> SUFFICES ASSUME Init
             PROVE  IInv
  OBVIOUS
<1>0. \A x : x = <<>> => Len(x) = 0
  OBVIOUS
<1>1. /\ now = 0 /\ base = None /\ isActive = FALSE /\ triggeredAt = None /\ reason = None
      /\ cooldownUntil = None /\ downSince = None /\ lastTrip = None
      /\ events = <<>> /\ slips = <<>>
  BY DEF Init
<1>2. TypeOK
  <2>1. 0 \in Time /\ FALSE \in BOOLEAN
    BY BoundAssumption DEF Time
  <2>2. <<>> \in Seq(Time)
    BY EmptySeq
  <2> QED
    BY <1>1, <2>1, <2>2, Zenon DEF TypeOK
<1>3. SlipsSorted /\ WindowIsExact /\ BurstTrips
  BY <1>0, <1>1 DEF SlipsSorted, WindowIsExact, BurstTrips
<1>4. LastTripInv /\ StateAgreesWithLatestTrip /\ Blackout
  BY <1>1 DEF LastTripInv, StateAgreesWithLatestTrip, Blackout
<1> QED
  BY <1>1, <1>2, <1>3, <1>4 DEF IInv, Base

\* The inductive invariant holds in every reachable state.
THEOREM Invariance == Spec => []IInv
BY InitIInv, NextKeepsIInv, PTL DEF Spec

\* Every field of the switch keeps its type.
THEOREM TypeCorrect == Spec => []TypeOK
<1>1. IInv => TypeOK
  BY DEF IInv, Base
<1> QED
  BY <1>1, Invariance, PTL

\* Whatever is recorded or asked of the switch after a trip, new entries stay
\* blocked until the cooldown of the latest trip is over (kill_switch.py
\* l.117-136).
THEOREM BlackoutHolds == Spec => []Blackout
<1>1. IInv => Blackout
  BY DEF IInv
<1> QED
  BY <1>1, Invariance, PTL

\* The frozen state of an active switch is that of the latest trip
\* (kill_switch.py l.117-125).
THEOREM StateHolds == Spec => []StateAgreesWithLatestTrip
<1>1. IInv => StateAgreesWithLatestTrip
  BY DEF IInv
<1> QED
  BY <1>1, Invariance, PTL

\* The popleft loop keeps the deque equal to the events inside the window
\* (kill_switch.py l.50-56).
THEOREM WindowHolds == Spec => []WindowIsExact
<1>1. IInv => WindowIsExact
  BY DEF IInv
<1> QED
  BY <1>1, Invariance, PTL

\* No burst of Threshold events inside one window passes unnoticed
\* (kill_switch.py l.50-56, l.98-102).
THEOREM BurstHolds == Spec => []BurstTrips
<1>1. IInv => BurstTrips
  BY DEF IInv
<1> QED
  BY <1>1, Invariance, PTL
=============================================================================
