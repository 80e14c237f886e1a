------------------------ MODULE PositionExitsProofs ------------------------
(***************************************************************************)
(* Theorems about PositionExits, for every set of closes, every number of  *)
(* days and bars and every setup that satisfies the assumptions of the     *)
(* module.                                                                 *)
(***************************************************************************)
EXTENDS PositionExits, TLAPS

USE NumbersAssumption

LEMMA RolledToday ==
  ASSUME TypeOK
  PROVE  /\ Rolled \in Memory /\ Rolled.day = day
         /\ memory.day = day => Rolled = memory
         /\ memory.day # day => Rolled.entries = 0 /\ ~Rolled.locked
<1>1. Blank(day) \in Memory
  BY DEF TypeOK, Blank, Memory
<1> QED
  BY <1>1 DEF TypeOK, Rolled, Memory, Blank

LEMMA BoughtMemory ==
  ASSUME NEW m \in Memory, NEW n \in Nat, NEW p \in Closes \cup {0}
  PROVE  [m EXCEPT !.entries = n, !.price = p] \in Memory
BY DEF Memory

LEMMA NowIsInt ==
  ASSUME TypeOK
  PROVE  Now \in Int
BY DEF TypeOK, Now

LEMMA PeakIsClose ==
  ASSUME TypeOK, position # None
  PROVE  position \in Position /\ Peak \in Closes
BY DEF TypeOK, Peak, Larger, Position

LEMMA ClosesAreNumbers ==
  ASSUME NEW c \in Closes
  PROVE  c \in Nat /\ c > 0
BY NumbersAssumption

LEMMA PositionNumbers ==
  ASSUME TypeOK, position # None
  PROVE  /\ position \in Position
         /\ close \in Nat /\ position.entry \in Nat /\ position.entry > 0
         /\ position.at \in Int /\ position.peak \in Nat
<1>1. position \in Position /\ close \in Closes
  BY DEF TypeOK
<1>2. position.entry \in Closes /\ position.at \in Int /\ position.peak \in Closes
  BY <1>1 DEF Position
<1> QED
  BY <1>1, <1>2, ClosesAreNumbers

LEMMA OpenedIsPosition ==
  ASSUME TypeOK
  PROVE  Opened \in Position
BY NowIsInt DEF TypeOK, Opened, Position

LEMMA TypeInit == Init => TypeOK
<1> SUFFICES ASSUME Init PROVE TypeOK
  OBVIOUS
<1>1. Blank(0) \in Memory
  BY DEF Blank, Memory
<1>2. 1 \in 1..Days /\ 1 \in 1..Bars /\ 0 \in 0..Days /\ 0 \in 0..MaxFaults
  OBVIOUS
<1> QED
  BY <1>1, <1>2 DEF Init, TypeOK

LEMMA TypeStep ==
  ASSUME TypeOK, [Next]_vars
  PROVE  TypeOK'
<1> USE DEF TypeOK
<1>1. CASE NextBar
  <2>1. close' \in Closes /\ high' \in Closes /\ open' \in Closes /\ prev' \in Closes \cup {0}
    BY <1>1 DEF NextBar, Larger
  <2>2. day' \in 1..Days /\ bar' \in 1..Bars /\ buys' \in Nat
    BY <1>1 DEF NextBar
  <2> QED
    BY <1>1, <2>1, <2>2 DEF NextBar
<1>2. CASE TraderJudges
  <2>1. CASE position = None /\ memory' = Rolled /\ UNCHANGED <<position, ran, sunk>>
    BY <1>2, <2>1, RolledToday DEF TraderJudges, market
  <2>2. CASE position # None /\ memory' = Rolled /\ UNCHANGED <<ran, sunk>>
             /\ position' = [position EXCEPT !.partial = TRUE]
    BY <1>2, <2>2, RolledToday DEF TraderJudges, market, Position
  <2>3. ASSUME position # None, position' = None, ran' = FALSE,
               memory' = [Rolled EXCEPT !.exit = Now,
                                        !.locked = @ \/ close < position.entry],
               sunk' = IF close < position.entry THEN day ELSE sunk
        PROVE  TypeOK'
    <3>1. (Rolled.locked \/ close < position.entry) \in BOOLEAN
      OBVIOUS
    <3>2. memory' \in Memory
      BY <2>3, <3>1, RolledToday, NowIsInt DEF Memory
    <3>3. sunk' \in 0..Days
      BY <2>3
    <3> QED
      BY <1>2, <2>3, <3>2, <3>3 DEF TraderJudges, market
  <2>4. CASE position # None /\ memory' = Rolled /\ UNCHANGED <<position, sunk>>
             /\ ran' = (ran \/ (RunnerOn /\ ~LimitUp))
    <3>1. ran' \in BOOLEAN
      BY <2>4
    <3> QED
      BY <1>2, <2>4, <3>1, RolledToday DEF TraderJudges, market
  <2> QED
    BY <1>2, <2>1, <2>2, <2>3, <2>4 DEF TraderJudges
<1>3. CASE OthersSell
  BY <1>3 DEF OthersSell, market
<1>4. CASE TraderEnters
  <2>1. buys' \in Nat /\ relapses' \in Nat /\ sunk' \in 0..Days
    BY <1>4 DEF TraderEnters
  <2>2. CASE position' = Opened /\ UNCHANGED faults
             /\ memory' = [memory EXCEPT !.entries = @ + 1,
                             !.price = IF setup.judge = "supertrend" THEN close ELSE @]
    <3> DEFINE price == IF setup.judge = "supertrend" THEN close ELSE memory.price
    <3>a. memory \in Memory /\ memory.entries + 1 \in Nat /\ price \in Closes \cup {0}
      BY DEF Memory
    <3>b. memory' = [memory EXCEPT !.entries = memory.entries + 1, !.price = price]
      BY <2>2
    <3>1. memory' \in Memory
      <4> HIDE DEF price, TypeOK
      <4>1. [memory EXCEPT !.entries = memory.entries + 1, !.price = price] \in Memory
        BY <3>a, BoughtMemory
      <4> QED
        BY <4>1, <3>b
    <3> QED
      BY <1>4, <2>1, <2>2, <3>1, OpenedIsPosition DEF TraderEnters, market
  <2>3. CASE Fail /\ UNCHANGED <<position, memory>>
    BY <1>4, <2>1, <2>3 DEF TraderEnters, market, Fail
  <2>4. \/ /\ position' = Opened
           /\ memory' = [memory EXCEPT !.entries = @ + 1,
                           !.price = IF setup.judge = "supertrend" THEN close ELSE @]
           /\ UNCHANGED faults
        \/ Fail /\ UNCHANGED <<position, memory>>
    BY <1>4 DEF TraderEnters
  <2> QED
    BY <2>2, <2>3, <2>4
<1>5. CASE Restart
  <2>1. Blank(0) \in Memory
    BY DEF Blank, Memory
  <2> QED
    BY <1>5, <2>1 DEF Restart, Fail, market, history
<1>6. CASE DaemonJudges
  <2>1. position' \in Position \cup {None}
    BY <1>6, PeakIsClose DEF DaemonJudges, Position
  <2> QED
    BY <1>6, <2>1 DEF DaemonJudges, market, history
<1>7. CASE DaemonEnters
  BY <1>7, OpenedIsPosition DEF DaemonEnters, market, history
<1>8. CASE UNCHANGED vars
  BY <1>8 DEF vars, market, history
<1> QED
  BY <1>1, <1>2, <1>3, <1>4, <1>5, <1>6, <1>7, <1>8 DEF Next

\* Every state of the specification has the declared types.
THEOREM TypeCorrect == Spec => []TypeOK
<1> QED
  BY TypeInit, TypeStep, PTL DEF Spec

(***************************************************************************)
(* What a trader remembers of the day covers its buys of the day, except   *)
(* for what a fault made it forget.                                        *)
(***************************************************************************)

Remembered == IF memory.day = day THEN memory.entries ELSE 0

\* A cycle that has judged has rolled its memory to today.
JudgedToday == Trader /\ stage = "judged" => memory.day = day

\* The buys of today are remembered, but for maxEntries of each fault.
BuysRemembered ==
  Trader /\ setup.maxEntries > 0 =>
    /\ memory.entries <= setup.maxEntries
    /\ buys <= Remembered + setup.maxEntries * faults

\* A loss of today that was not bought back is remembered, unless a fault is
\* left that was not used for a relapse.
LossRemembered ==
  Trader /\ setup.blockLoss =>
    /\ relapses <= faults
    /\ sunk <= day
    /\ sunk = day => (memory.day = day /\ memory.locked) \/ relapses < faults

MemoryInv == JudgedToday /\ BuysRemembered /\ LossRemembered

LEMMA MemoryInit == Init => MemoryInv
<1> SUFFICES ASSUME Init PROVE MemoryInv
  OBVIOUS
<1>1. setup.maxEntries \in Nat
  BY SetupsAssumption DEF Init
<1>2. memory.entries = 0 /\ buys = 0 /\ faults = 0 /\ relapses = 0 /\ sunk = 0 /\ day = 1
  BY DEF Init, Blank
<1>3. Remembered = 0
  BY <1>2 DEF Remembered
<1>4. stage # "judged"
  BY DEF Init
<1> QED
  BY <1>1, <1>2, <1>3, <1>4
  DEF MemoryInv, JudgedToday, BuysRemembered, LossRemembered

\* maxEntries * (faults + 1)
LEMMA OneMoreFault ==
  ASSUME NEW m \in Nat, NEW f \in Nat
  PROVE  m * (f + 1) = m * f + m /\ m * f \in Nat
OBVIOUS

LEMMA MemoryStep ==
  ASSUME TypeOK, MemoryInv, [Next]_vars
  PROVE  MemoryInv'
<1> USE DEF MemoryInv
<1>0. /\ setup.maxEntries \in Nat /\ faults \in Nat /\ day \in Int /\ sunk \in Int
      /\ buys \in Nat /\ relapses \in Nat /\ memory.entries \in Nat
      /\ setup.maxEntries * faults \in Nat
  BY SetupsAssumption, OneMoreFault DEF TypeOK, Memory
<1>1. CASE NextBar
  <2>1. CASE day' = day /\ UNCHANGED buys
    BY <1>0, <1>1, <2>1
    DEF NextBar, JudgedToday, BuysRemembered, LossRemembered, Remembered, Trader
  <2>2. CASE day' = day + 1 /\ buys' = 0
    <3>1. JudgedToday'
      BY <1>1 DEF NextBar, JudgedToday
    <3>2. BuysRemembered'
      BY <1>0, <1>1, <2>2 DEF NextBar, BuysRemembered, Remembered, Trader
    <3>3. LossRemembered'
      BY <1>0, <1>1, <2>2 DEF NextBar, LossRemembered, Trader
    <3> QED
      BY <3>1, <3>2, <3>3
  <2> QED
    BY <1>1, <2>1, <2>2 DEF NextBar
<1>2. CASE TraderJudges
  <2>1. /\ memory'.day = day /\ memory'.entries = Rolled.entries
        /\ Rolled.locked => memory'.locked
        /\ sunk' = sunk \/ (sunk' = day /\ memory'.locked)
    <3>1. CASE memory' = Rolled /\ UNCHANGED sunk
      BY <3>1, RolledToday
    <3>2. CASE /\ memory' = [Rolled EXCEPT !.exit = Now, !.locked = @ \/ close < position.entry]
               /\ sunk' = IF close < position.entry THEN day ELSE sunk
      BY <3>2, RolledToday DEF Memory
    <3> QED
      BY <1>2, <3>1, <3>2 DEF TraderJudges
  <2>2. UNCHANGED <<setup, faults, day, buys, relapses>>
    BY <1>2 DEF TraderJudges, market
  <2>3. Rolled.entries = Remembered
    BY RolledToday DEF Remembered
  <2>4. JudgedToday'
    BY <2>1, <2>2 DEF JudgedToday
  <2>5. BuysRemembered'
    <3>1. Remembered' = Remembered
      BY <2>1, <2>2, <2>3 DEF Remembered
    <3>2. setup.maxEntries > 0 /\ Trader => memory'.entries <= setup.maxEntries
      BY <1>0, <2>1, <2>3 DEF BuysRemembered, Remembered
    <3> QED
      BY <2>2, <3>1, <3>2 DEF BuysRemembered, Trader
  <2>6. LossRemembered'
    BY <1>0, <2>1, <2>2, RolledToday DEF LossRemembered, Trader
  <2> QED
    BY <2>4, <2>5, <2>6
<1>3. CASE OthersSell
  BY <1>3 DEF OthersSell, market, JudgedToday, BuysRemembered, LossRemembered, Remembered, Trader
<1>4. CASE TraderEnters
  <2>1. /\ memory.day = day /\ ~Blocked /\ stage' = "done"
        /\ UNCHANGED <<setup, day>>
        /\ buys' = buys + 1 /\ sunk' = 0
        /\ relapses' = IF sunk = day THEN relapses + 1 ELSE relapses
    BY <1>4 DEF TraderEnters, JudgedToday, market
  <2>2. JudgedToday'
    BY <2>1 DEF JudgedToday
  <2>3. Trader /\ setup.maxEntries > 0 => memory.entries < setup.maxEntries
    BY <1>0, <2>1 DEF Blocked
  <2>4. Trader /\ setup.blockLoss => relapses' <= faults
    BY <1>0, <2>1 DEF Blocked, LossRemembered
  <2>5. CASE /\ UNCHANGED faults
             /\ memory' = [memory EXCEPT !.entries = @ + 1,
                              !.price = IF setup.judge = "supertrend" THEN close ELSE @]
    <3>1. memory'.day = day /\ memory'.entries = memory.entries + 1
      BY <2>1, <2>5 DEF TypeOK, Memory
    <3>2. Remembered' = Remembered + 1
      BY <2>1, <3>1 DEF Remembered
    <3>3. BuysRemembered'
      BY <1>0, <2>1, <2>3, <2>5, <3>1, <3>2 DEF BuysRemembered, Remembered, Trader
    <3>4. LossRemembered'
      BY <1>0, <2>1, <2>4, <2>5 DEF LossRemembered, Trader, TypeOK
    <3> QED
      BY <2>2, <3>3, <3>4
  <2>6. CASE Fail /\ UNCHANGED memory
    <3>1. setup.maxEntries * faults' = setup.maxEntries * faults + setup.maxEntries
      BY <1>0, <2>6, OneMoreFault DEF Fail
    <3>2. Remembered' = Remembered
      BY <2>1, <2>6 DEF Remembered
    <3>3. BuysRemembered'
      BY <1>0, <2>1, <2>6, <3>1, <3>2 DEF BuysRemembered, Trader, Remembered
    <3>4. LossRemembered'
      BY <1>0, <2>1, <2>4, <2>6 DEF LossRemembered, Trader, TypeOK, Fail
    <3> QED
      BY <2>2, <3>3, <3>4
  <2> QED
    BY <1>4, <2>5, <2>6 DEF TraderEnters
<1>5. CASE Restart
  <2>1. /\ memory'.entries = 0 /\ memory'.day = 0 /\ stage' = "done"
        /\ UNCHANGED <<setup, day, buys, sunk, relapses>> /\ faults' = faults + 1
    BY <1>5 DEF Restart, Blank, Fail, market, history
  <2>2. setup.maxEntries * faults' = setup.maxEntries * faults + setup.maxEntries
    BY <1>0, <2>1, OneMoreFault
  <2>3. Remembered' = 0
    BY <2>1 DEF Remembered
  <2>4. BuysRemembered'
    BY <1>0, <2>1, <2>2, <2>3 DEF BuysRemembered, Trader, Remembered
  <2>5. LossRemembered'
    BY <1>0, <2>1 DEF LossRemembered, Trader
  <2>6. JudgedToday'
    BY <2>1 DEF JudgedToday
  <2> QED
    BY <2>4, <2>5, <2>6
<1>6. CASE DaemonJudges
  BY <1>6 DEF DaemonJudges, market, history,
              JudgedToday, BuysRemembered, LossRemembered, Remembered, Trader
<1>7. CASE DaemonEnters
  BY <1>7 DEF DaemonEnters, market, history,
              JudgedToday, BuysRemembered, LossRemembered, Remembered, Trader
<1>8. CASE UNCHANGED vars
  BY <1>8 DEF vars, market, history,
              JudgedToday, BuysRemembered, LossRemembered, Remembered, Trader
<1> QED
  BY <1>1, <1>2, <1>3, <1>4, <1>5, <1>6, <1>7, <1>8 DEF Next

LEMMA MemoryGuards == TypeOK /\ MemoryInv => ReentryGuarded
<1> SUFFICES ASSUME TypeOK, MemoryInv PROVE ReentryGuarded
  OBVIOUS
<1>1. setup.maxEntries \in Nat /\ faults \in Nat /\ buys \in Nat /\ memory.entries \in Nat
  BY SetupsAssumption DEF TypeOK, Memory
<1>2. setup.maxEntries * (1 + faults) = setup.maxEntries * faults + setup.maxEntries
  BY <1>1, OneMoreFault
<1> QED
  BY <1>1, <1>2, OneMoreFault
  DEF MemoryInv, BuysRemembered, LossRemembered, Remembered, ReentryGuarded

\* The guards against buying a symbol again are only passed through a restart
\* or a lost answer, one buying of the day for each of them
\* (supertrend_auto_trader.py:826).
THEOREM OnlyFaultsReenter == Spec => []ReentryGuarded
<1>1. Init => TypeOK /\ MemoryInv
  BY TypeInit, MemoryInit
<1>2. TypeOK /\ MemoryInv /\ [Next]_vars => (TypeOK /\ MemoryInv)'
  BY TypeStep, MemoryStep
<1> QED
  BY <1>1, <1>2, MemoryGuards, PTL DEF Spec

(***************************************************************************)
(* The stops                                                               *)
(***************************************************************************)

\* A price over the entry is over every stop.
LEMMA AheadIsOverStop ==
  ASSUME NEW c \in Nat, NEW e \in Nat, NEW pct \in Int, e > 0, pct < 0, c >= e
  PROVE  ~AtMost(c, e, pct)
<1>1. pct * e < 0
  OBVIOUS
<1> QED
  BY <1>1 DEF AtMost

LEMMA GainIsOverStop ==
  ASSUME NEW c \in Nat, NEW e \in Nat, NEW pct \in Int, NEW gain \in Int,
         e > 0, pct < 0, gain >= 0, AtLeast(c, e, gain)
  PROVE  ~AtMost(c, e, pct)
<1>1. pct * e < 0 /\ gain * e >= 0
  OBVIOUS
<1> QED
  BY <1>1 DEF AtMost, AtLeast

LEMMA OverIsNotReached ==
  ASSUME NEW c \in Nat, NEW e \in Nat, NEW pct \in Int
  PROVE  Above(c, e, pct) <=> ~AtMost(c, e, pct)
<1>1. pct * e \in Int
  OBVIOUS
<1> QED
  BY <1>1 DEF Above, AtMost

LEMMA TighterIsReached ==
  ASSUME NEW c \in Nat, NEW e \in Nat, NEW p \in Int, NEW q \in Int,
         p <= q, AtMost(c, e, p)
  PROVE  AtMost(c, e, q)
<1>1. p * e <= q * e
  OBVIOUS
<1> QED
  BY <1>1 DEF AtMost

\* A position that was held a day is out of its cooldown.
LEMMA DayEndsCooldown ==
  ASSUME TypeOK, ~Trader, position # None, HoldDays >= 1
  PROVE  ~Fresh
<1>1. setup.cooldown \in 0..Bars
  BY SetupsAssumption DEF TypeOK, Trader
<1>2. Now \in Int /\ position.at \in Int /\ Bars \in Nat \ {0}
  BY NowIsInt DEF TypeOK, Position
<1>3. ASSUME NEW x \in Int, NEW b \in Nat \ {0}, x \div b >= 1
      PROVE  x >= b
  <2>1. x \div b \in Int /\ b * (x \div b) <= x
    OBVIOUS
  <2>2. b * (x \div b) >= b
    BY <2>1, <1>3
  <2> QED
    BY <2>1, <2>2
<1>4. Now - position.at >= Bars
  <2>1. Now - position.at \in Int /\ (Now - position.at) \div Bars >= 1
    BY <1>2 DEF HoldDays
  <2> HIDE DEF Now
  <2> QED
    BY <1>2, <1>3, <2>1
<1> QED
  BY <1>1, <1>2, <1>4 DEF Fresh

StopReachedHere ==
  /\ AtMost(close, position.entry, setup.stop)
  /\ setup.ai \/ AtMost(close, position.entry, setup.hard)

\* What the daemon keeps although its stop is reached
LEMMA DaemonKeeps ==
  ASSUME TypeOK, ~Trader, position # None, NEW pattern \in Patterns, StopReachedHere,
         Signal(pattern) \in {"hold", "partial"} \/ ~Allowed(Signal(pattern))
  PROVE  (SkipPriceStop /\ ~Outlived) \/ (~setup.ai /\ (MinHeld \/ Masked))
<1>1. /\ close \in Nat /\ position.entry \in Nat /\ position.entry > 0
      /\ setup.judge = "daemon"
  BY PositionNumbers DEF Trader
<1>2. /\ setup.stop \in Int /\ setup.hard \in Int /\ setup.tight \in Int
      /\ setup.tp \in Int /\ setup.partialAt \in Int
      /\ setup.stop <= setup.tight /\ setup.stop < 0
      /\ setup.partialAt >= 0 /\ setup.tp >= 0
      /\ setup.maxHold \in Nat /\ setup.tightDays \in Nat \ {0} /\ setup.ai \in BOOLEAN
  BY <1>1, SetupsAssumption DEF TypeOK
<1>3. ~AtLeast(close, position.entry, setup.partialAt) /\ ~AtLeast(close, position.entry, setup.tp)
  BY <1>1, <1>2, GainIsOverStop DEF StopReachedHere
<1>4. ~SkipPriceStop => StopReached
  BY <1>1, <1>2, TighterIsReached DEF StopReachedHere, StopReached
<1>5. HoldDays \in Int
  BY NowIsInt DEF TypeOK, Position, HoldDays
<1>6. HoldDays >= 1 => ~Fresh
  BY DayEndsCooldown
<1>7. CASE setup.maxHold > 0 /\ HoldDays >= setup.maxHold
  BY <1>2, <1>5, <1>6, <1>7 DEF Signal, Allowed
<1>8. CASE ~(setup.maxHold > 0 /\ HoldDays >= setup.maxHold)
  <2>4. CASE SkipPriceStop
    BY <1>8, <2>4 DEF Outlived
  <2>1. CASE setup.ai /\ ~SkipPriceStop
    <3>1. Signal(pattern) = "stop"
      BY <1>8, <2>1 DEF Signal, StopReachedHere
    <3> QED
      BY <2>1, <3>1 DEF Allowed, Bypasses
  <2>2. CASE ~setup.ai /\ setup.minHold > 0 /\ HoldDays < setup.minHold
    BY <2>2 DEF MinHeld
  <2>3. CASE ~setup.ai /\ ~(setup.minHold > 0 /\ HoldDays < setup.minHold)
    <3>1. Defence \in {"stop", "tightened"} /\ (Defence = "tightened" => Tightened)
      BY <1>4, <2>3 DEF Defence, SkipPriceStop
    <3>2. Gains = Defence
      BY <1>3 DEF Gains
    <3>3. \/ Signal(pattern) \in {"distribution", "top", "trailing"}
          \/ Signal(pattern) = "breakeven" /\ AtLeast(Peak, position.entry, setup.breakEven)
          \/ Signal(pattern) = Defence
      BY <1>8, <2>3, <3>2 DEF Signal
    <3>4. CASE Signal(pattern) \in {"distribution", "top", "trailing"}
      BY <3>4 DEF Allowed
    <3>5. CASE Signal(pattern) = "breakeven" /\ AtLeast(Peak, position.entry, setup.breakEven)
      BY <2>3, <3>5 DEF Allowed, Masked
    <3>6. CASE Signal(pattern) = Defence /\ Defence = "stop"
      BY <2>3, <3>6 DEF Allowed, Bypasses, StopReachedHere
    <3>7. CASE Signal(pattern) = Defence /\ Defence = "tightened"
      BY <1>2, <1>5, <1>6, <3>1, <3>7 DEF Tightened, Allowed
    <3> QED
      BY <3>1, <3>3, <3>4, <3>5, <3>6, <3>7
  <2> QED
    BY <1>2, <2>1, <2>2, <2>3, <2>4
<1> QED
  BY <1>7, <1>8

LEMMA StopsStep ==
  ASSUME TypeOK, StopsHold, [Next]_vars
  PROVE  StopsHold'
<1>1. CASE NextBar
  BY <1>1 DEF NextBar, StopsHold
<1>2. CASE TraderJudges
  <2> SUFFICES ASSUME Trader, position # None, position' # None, setup.stop < 0
               PROVE  ~AtMost(close, position.entry, setup.stop) /\ position'.entry = position.entry
    BY <1>2 DEF TraderJudges, market, StopsHold, Trader
  <2>1. /\ close \in Nat /\ position \in Position /\ position.entry \in Nat
        /\ position.entry > 0 /\ setup.stop \in Int
    BY PositionNumbers, SetupsAssumption DEF TypeOK
  <2>2. CASE GapPartial
    <3>1. position' = [position EXCEPT !.partial = TRUE]
      BY <1>2, <2>2 DEF TraderJudges
    <3>2. close > position.entry
      BY <2>2 DEF GapPartial
    <3> QED
      BY <2>1, <3>1, <3>2, AheadIsOverStop DEF Position
  <2>3. CASE ~GapPartial
    <3>1. PICK flip \in BOOLEAN : ~TraderExits(flip) /\ position' = position
      BY <1>2, <2>3 DEF TraderJudges
    <3> QED
      BY <3>1 DEF TraderExits, HardStopHit
  <2> QED
    BY <2>2, <2>3
<1>3. CASE OthersSell
  BY <1>3 DEF OthersSell, StopsHold
<1>4. CASE TraderEnters
  BY <1>4 DEF TraderEnters, StopsHold
<1>5. CASE Restart
  BY <1>5 DEF Restart, StopsHold
<1>6. CASE DaemonJudges
  <2>1. PICK pattern \in Patterns :
          position' =
            IF Signal(pattern) = "hold" \/ ~Allowed(Signal(pattern))
              THEN [position EXCEPT !.peak = Peak]
            ELSE IF Signal(pattern) = "partial"
              THEN [position EXCEPT !.peak = Peak, !.partial = TRUE]
            ELSE None
    BY <1>6 DEF DaemonJudges
  <2>2. /\ ~Trader /\ position # None
        /\ UNCHANGED <<setup, day, bar, open, close, prev, high>>
    BY <1>6 DEF DaemonJudges, market
  <2> SUFFICES ASSUME position' # None, StopReachedHere'
               PROVE  (SkipPriceStop /\ ~Outlived') \/ (~setup.ai /\ (MinHeld' \/ Masked'))
    <3>1. TypeOK'
      BY TypeStep
    <3>2. setup'.stop \in Int /\ setup'.hard \in Int
      BY <3>1, SetupsAssumption DEF TypeOK
    <3>3. ~Trader'
      BY <2>2 DEF Trader
    <3>4. position' # None =>
            /\ close' \in Nat /\ position'.entry \in Nat
      <4> SUFFICES ASSUME position' # None
                   PROVE  close' \in Nat /\ position'.entry \in Nat
        OBVIOUS
      <4>1. close' \in Closes /\ position' \in Position
        BY <3>1 DEF TypeOK
      <4>2. position'.entry \in Closes
        BY <4>1 DEF Position
      <4> QED
        BY <4>1, <4>2, ClosesAreNumbers
    <3>5. position' # None =>
            (Above(close', position'.entry, setup'.hard)
               <=> ~AtMost(close', position'.entry, setup'.hard))
      BY <3>2, <3>4, OverIsNotReached
    <3> QED
      BY <2>2, <3>3, <3>5 DEF StopsHold, StopReachedHere, SkipPriceStop
  <2>3. position \in Position /\ Peak \in Nat /\ close \in Nat /\ Peak >= close
    BY <2>2, PositionNumbers DEF Peak, Larger
  <2>4. /\ position'.entry = position.entry /\ position'.at = position.at
        /\ position'.peak = Peak
    BY <2>1, <2>3 DEF Position
  <2>5. StopReachedHere
    BY <2>2, <2>4 DEF StopReachedHere
  <2>6. (SkipPriceStop /\ ~Outlived) \/ (~setup.ai /\ (MinHeld \/ Masked))
    BY <2>1, <2>2, <2>5, DaemonKeeps
  <2>8. Peak' = Peak
    BY <2>2, <2>3, <2>4 DEF Peak, Larger
  <2>9. Now' = Now /\ HoldDays' = HoldDays /\ Fresh' = Fresh
    BY <2>2, <2>4 DEF Now, HoldDays, Fresh
  <2> QED
    BY <2>2, <2>4, <2>6, <2>8, <2>9 DEF MinHeld, Masked, Outlived
<1>7. CASE DaemonEnters
  BY <1>7 DEF DaemonEnters, StopsHold
<1>8. CASE UNCHANGED vars
  BY <1>8 DEF vars, market, StopsHold, Trader, MinHeld, Masked, Outlived, SkipPriceStop, HoldDays, Fresh, Now, Peak
<1> QED
  BY <1>1, <1>2, <1>3, <1>4, <1>5, <1>6, <1>7, <1>8 DEF Next

\* No cycle of the daemon or of a trader keeps a position that it sees at or
\* under its hard stop, but for the minimum hold, the break-even signal within
\* the cooldown (holding_evaluator.py:529) and, while its days last, a position
\* of ai_swing with the price stop turned off (holding_evaluator.py:442).
THEOREM StopsAlwaysHold == Spec => []StopsHold
<1>1. Init => TypeOK /\ StopsHold
  BY TypeInit DEF Init, StopsHold
<1>2. TypeOK /\ StopsHold /\ [Next]_vars => (TypeOK /\ StopsHold)'
  BY TypeStep, StopsStep
<1> QED
  BY <1>1, <1>2, PTL DEF Spec
=============================================================================
