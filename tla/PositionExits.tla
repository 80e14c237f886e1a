--------------------------- MODULE PositionExits ---------------------------
(***************************************************************************)
(* When a position is given up: the rules of the daemon                    *)
(* (core/risk/holding_evaluator.py and the cooldown of                     *)
(* scripts/intraday_buy_daemon.py), of the supertrend trader               *)
(* (core/supertrend_auto_trader.py) and of the limit-up trader             *)
(* (core/limit_up_chase_trader.py), over the closes of one symbol, and the *)
(* guards that keep a trader from buying it again the same day.            *)
(*                                                                         *)
(* A bar is one close of the 5-minute chart; a cycle judges the last bar   *)
(* once, or misses it.  Percentages are compared without division.  The    *)
(* indicators (a SELL flip of the supertrend, a short-term high or a       *)
(* distribution bar) come as they like; k * ATR is the constant trail of   *)
(* the setup.  Orders are always answered here, except a buy: what becomes *)
(* of the others is in TraderCycle and SellCycle.                          *)
(***************************************************************************)
EXTENDS Integers

CONSTANTS
  Closes,    \* prices
  Days,      \* trading days
  Bars,      \* bars of a day
  Setups,    \* who judges, with which configuration
  MaxFaults, \* bound on restarts and lost answers to buys
  None       \* no position, no exit yet

Judges == {"daemon", "supertrend", "chaser"}

\* A percentage of 0 turns a rule off, as in the code; so does a bound of 0.
Fields == {"judge", "tp", "stop",
           \* the traders
           "trailOnly", "carryGap", "trail", "runner", "limitUp", "gapUp", "lock", "giveback",
           "gapPartial", "window", "eod", "maxEntries", "blockLoss", "rest", "belowPrev",
           \* the daemon
           "ai", "noStop", "hard", "trailStart", "trailOff", "breakEven", "partialAt", "tightDays",
           "tight", "minHold", "maxHold", "cooldown"}

ASSUME NumbersAssumption ==
  /\ Closes \subseteq Nat \ {0} /\ Days \in Nat \ {0} /\ Bars \in Nat \ {0}
  /\ MaxFaults \in Nat
\* A stop is under the entry, a long hold tightens it, and the cooldown ends
\* within a day.
ASSUME SetupsAssumption ==
  \A s \in Setups :
    /\ DOMAIN s = Fields /\ s.judge \in Judges
    /\ {s.ai, s.noStop, s.blockLoss} \subseteq BOOLEAN
    /\ s.maxEntries \in Nat /\ s.minHold \in Nat
    /\ {s.stop, s.hard, s.tight, s.tp, s.partialAt, s.breakEven} \subseteq Int
    /\ s.judge = "daemon" =>
         /\ s.stop <= s.tight /\ s.stop < 0 /\ s.hard < 0
         /\ s.partialAt >= 0 /\ s.tp >= 0
         /\ s.maxHold \in Nat /\ s.tightDays \in Nat \ {0} /\ s.cooldown \in 0..Bars

VARIABLES
  setup,
  faults,
  \* the bars of the last days, as far as a rule looks at them
  day, bar,
  open,     \* of today
  close,    \* of the last bar
  prev,     \* last close of the day before, 0 when there is none
  high,     \* highest close of all these bars
  \* the position and the cycle
  position,
  stage,    \* of the cycle at this bar
  memory,   \* what the trader's process remembers of today
  \* history
  ran,      \* the runner has held this position above its floor
  sunk,     \* the day on which the trader last sold at a loss and has not bought since
  relapses, \* losses of the trader followed by a buy of its own on the same day
  buys      \* buys of today that were accepted

market == <<day, bar, open, close, prev, high>>
history == <<ran, sunk, relapses, buys>>
vars == <<setup, faults, market, position, stage, memory, history>>

Trader == setup.judge # "daemon"

Now == (day - 1) * Bars + bar
DayOf(t) == ((t - 1) \div Bars) + 1

\* entry_price, entry_time, partial_tp_done, peak_pnl_rate (as a price).
Position == [entry : Closes, at : Int, partial : BOOLEAN, peak : Closes]

\* _entry_day, _entries_today, _loss_locked, _last_exit, _last_entry_px.
Memory == [day : 0..Days, entries : Nat, locked : BOOLEAN,
           exit : Int \cup {None}, price : Closes \cup {0}]

Blank(d) == [day |-> d, entries |-> 0, locked |-> FALSE, exit |-> None, price |-> 0]

Fail == faults < MaxFaults /\ faults' = faults + 1

\* price against reference, in percent
AtLeast(p, ref, pct) == (p - ref) * 100 >= pct * ref
AtMost(p, ref, pct) == (p - ref) * 100 <= pct * ref
Below(p, ref, pct) == (p - ref) * 100 < pct * ref
Above(p, ref, pct) == (p - ref) * 100 > pct * ref

Larger(p, q) == IF p > q THEN p ELSE q

(***************************************************************************)
(* The market                                                              *)
(***************************************************************************)

\* The exchange's daily limit of 30 percent.
WithinLimit(p, ref) == ref = 0 \/ (AtMost(p, ref, 30) /\ AtLeast(p, ref, -30))

NextBar ==
  /\ \E c \in Closes :
       /\ close' = c
       /\ high' = Larger(high, c)
       /\ \/ /\ bar < Bars
             /\ bar' = bar + 1
             /\ WithinLimit(c, prev)
             /\ UNCHANGED <<day, open, prev, buys>>
          \/ /\ bar = Bars /\ day < Days
             /\ day' = day + 1 /\ bar' = 1
             /\ prev' = close
             /\ WithinLimit(c, close)
             /\ \E o \in Closes : WithinLimit(o, close) /\ open' = o
             /\ buys' = 0
  /\ stage' = "new"
  /\ UNCHANGED <<setup, faults, position, memory, ran, sunk, relapses>>

(***************************************************************************)
(* The traders' exits                                                      *)
(***************************************************************************)

Carried == DayOf(position.at) < day

LimitUp == setup.limitUp > 0 /\ prev > 0 /\ AtLeast(close, prev, setup.limitUp)

GapUp(pct) == pct > 0 /\ prev > 0 /\ AtLeast(open, prev, pct)

\* Faulty variant: a part is sold at a loss as well.
GapPartialAtALoss ==
  /\ setup.runner /\ GapUp(setup.gapPartial)
  /\ ~position.partial /\ bar <= setup.window /\ Carried

\* _maybe_gap_partial
GapPartial ==
  /\ setup.runner /\ GapUp(setup.gapPartial)
  /\ ~position.partial /\ bar <= setup.window /\ Carried
  /\ close > position.entry

\* _trail_hit.  entry_time is a string and does not compare with a bar's
\* timestamp, so the peak is that of all the bars.
TrailHit == setup.trail > 0 /\ close <= high - setup.trail

HardStopHit == setup.stop < 0 /\ AtMost(close, position.entry, setup.stop)

CarryGapHit ==
  /\ setup.judge = "supertrend"
  /\ setup.carryGap < 0 /\ Carried
  /\ prev > 0 /\ AtMost(close, prev, setup.carryGap)

TpReached == setup.tp > 0 /\ AtLeast(close, position.entry, setup.tp)

\* _runner_triggered, after the outer stops
RunnerOn ==
  /\ setup.runner
  /\ ~(TrailHit \/ HardStopHit \/ CarryGapHit)
  /\ TpReached \/ LimitUp \/ GapUp(setup.gapUp)

\* _runner_should_exit
RunnerExits ==
  /\ RunnerOn /\ ~LimitUp
  /\ \/ setup.lock > 0 /\ AtMost(close, position.entry, setup.lock)
     \/ AtMost(close, high, -setup.giveback)

\* A SELL flip only counts for the supertrend trader; the limit-up trader
\* closes its day.
SignalExit(flip) ==
  \/ setup.judge = "supertrend" /\ flip
  \/ setup.judge = "chaser" /\ setup.eod /\ bar = Bars

TraderExits(flip) ==
  \/ TrailHit \/ HardStopHit \/ CarryGapHit \/ RunnerExits
  \/ TpReached /\ ~RunnerOn /\ ~setup.trailOnly
  \/ SignalExit(flip)

\* Faulty variant: every cycle forgets what it remembers.
RolledAlways == Blank(day)

\* _roll_day
Rolled == IF memory.day = day THEN memory ELSE Blank(day)

TraderJudges ==
  /\ Trader
  /\ stage = "new"
  /\ stage' = "judged"
  /\ \/ /\ position = None
        /\ memory' = Rolled
        /\ UNCHANGED <<position, ran, sunk>>
     \/ \E flip \in BOOLEAN :
          /\ position # None
          /\ IF GapPartial
               THEN /\ position' = [position EXCEPT !.partial = TRUE]
                    /\ memory' = Rolled
                    /\ UNCHANGED <<ran, sunk>>
             ELSE IF TraderExits(flip)
               THEN /\ position' = None
                    /\ memory' = [Rolled EXCEPT !.exit = Now,
                                                !.locked = @ \/ close < position.entry]
                    /\ ran' = FALSE
                    /\ sunk' = IF close < position.entry THEN day ELSE sunk
             ELSE /\ memory' = Rolled
                  /\ ran' = (ran \/ (RunnerOn /\ ~LimitUp))
                  /\ UNCHANGED <<position, sunk>>
  /\ UNCHANGED <<setup, faults, market, relapses, buys>>

\* The daemon or the owner sells the trader's position: nothing tells the trader.
OthersSell ==
  /\ Trader
  /\ position # None
  /\ position' = None /\ ran' = FALSE
  /\ UNCHANGED <<setup, faults, market, stage, memory, sunk, relapses, buys>>

(***************************************************************************)
(* The traders' entries                                                    *)
(***************************************************************************)

\* _reentry_blocked, and reentry_only_below_prev_entry of the supertrend trader
Blocked ==
  \/ setup.maxEntries > 0 /\ memory.entries >= setup.maxEntries
  \/ setup.blockLoss /\ memory.locked
  \/ setup.rest > 0 /\ memory.exit # None /\ Now - memory.exit < setup.rest
  \/ setup.belowPrev /\ memory.price > 0 /\ close > memory.price

\* Faulty variant: an entry without a price.
OpenedWithoutPrice == [entry |-> 0, at |-> Now, partial |-> FALSE, peak |-> close]

Opened == [entry |-> close, at |-> Now, partial |-> FALSE, peak |-> close]

\* The ledger is read again after the exits; entries come after
\* entry_start_time and before the cutoff.  Without an answer to the buy the
\* trader remembers nothing.
TraderEnters ==
  /\ Trader
  /\ stage = "judged"
  /\ stage' = "done"
  /\ position = None
  /\ bar > 1 /\ bar < Bars
  /\ ~Blocked
  /\ buys' = buys + 1
  /\ relapses' = IF sunk = day THEN relapses + 1 ELSE relapses
  /\ sunk' = 0
  /\ \/ /\ position' = Opened
        /\ memory' = [memory EXCEPT !.entries = @ + 1,
                        !.price = IF setup.judge = "supertrend" THEN close ELSE @]
        /\ UNCHANGED faults
     \/ /\ Fail
        /\ UNCHANGED <<position, memory>>
  /\ UNCHANGED <<setup, market, ran>>

Restart ==
  /\ Trader
  /\ Fail
  /\ memory' = Blank(0)
  /\ stage' = "done"
  /\ UNCHANGED <<setup, market, position, history>>

(***************************************************************************)
(* The daemon's evaluation                                                 *)
(***************************************************************************)

\* _hold_days counts periods of 24 hours.
HoldDays == (Now - position.at) \div Bars

Patterns == {"none", "top", "distribution"}

\* The peak that was raised before the evaluation of this cycle
Peak == Larger(position.peak, close)

Tightened == HoldDays >= setup.tightDays

\* ai_swing trails in prices, the others in percentage points.
TrailFell ==
  /\ AtLeast(Peak, position.entry, setup.trailStart)
  /\ IF setup.ai
       THEN AtMost(close, Peak, -setup.trailOff)
       ELSE (close - Peak) * 100 < -setup.trailOff * position.entry

\* skip_price_sl: BARRO_AI_SWING_HARD_SL_ENABLED turned off
SkipPriceStop == setup.ai /\ setup.noStop

StopReached ==
  /\ ~SkipPriceStop
  /\ AtMost(close, position.entry, IF Tightened THEN setup.tight ELSE setup.stop)

Defence ==
  IF StopReached THEN (IF Tightened THEN "tightened" ELSE "stop") ELSE "hold"

Gains ==
  IF ~position.partial /\ AtLeast(close, position.entry, setup.partialAt)
       /\ Below(close, position.entry, setup.tp) THEN "partial"
  ELSE IF AtLeast(close, position.entry, setup.tp) THEN "profit"
  ELSE Defence

\* evaluate_holding: the first rule that applies
Signal(pattern) ==
  IF setup.maxHold > 0 /\ HoldDays >= setup.maxHold THEN "tightened"
  ELSE IF setup.ai /\ ~SkipPriceStop /\ AtMost(close, position.entry, setup.stop) THEN "stop"
  ELSE IF setup.minHold > 0 /\ HoldDays < setup.minHold THEN "hold"
  ELSE IF pattern = "distribution" THEN "distribution"
  ELSE IF pattern = "top" /\ AtLeast(close, position.entry, setup.partialAt) THEN "top"
  ELSE IF TrailFell THEN "trailing"
  ELSE IF AtLeast(Peak, position.entry, setup.breakEven) /\ close <= position.entry THEN "breakeven"
  ELSE Gains

Fresh == Now - position.at < setup.cooldown

\* _hard_sl_bypasses_cooldown
Bypasses(signal) ==
  signal = "stop" /\ (setup.ai \/ AtMost(close, position.entry, setup.hard))

\* _allow_sell
Allowed(signal) ==
  ~Fresh \/ signal \notin {"stop", "breakeven", "tightened"} \/ Bypasses(signal)

DaemonJudges ==
  /\ ~Trader
  /\ stage = "new"
  /\ position # None
  /\ stage' = "judged"
  /\ \E pattern \in Patterns :
       LET signal == Signal(pattern) IN
       position' =
         IF signal = "hold" \/ ~Allowed(signal) THEN [position EXCEPT !.peak = Peak]
         ELSE IF signal = "partial" THEN [position EXCEPT !.peak = Peak, !.partial = TRUE]
         ELSE None
  /\ UNCHANGED <<setup, faults, market, memory, history>>

DaemonEnters ==
  /\ ~Trader
  /\ position = None
  /\ stage' = "done"
  /\ position' = Opened
  /\ UNCHANGED <<setup, faults, market, memory, history>>

(***************************************************************************)
(* The specification                                                       *)
(***************************************************************************)

Init ==
  /\ setup \in Setups
  /\ faults = 0
  /\ day = 1 /\ bar = 1
  /\ close \in Closes
  /\ open = close /\ high = close
  /\ prev = 0
  /\ position = None
  /\ stage = "new"
  /\ memory = Blank(0)
  /\ ran = FALSE /\ sunk = 0 /\ relapses = 0 /\ buys = 0

Next ==
  \/ NextBar
  \/ TraderJudges \/ OthersSell \/ TraderEnters \/ Restart
  \/ DaemonJudges \/ DaemonEnters

Spec == Init /\ [][Next]_vars

(***************************************************************************)
(* Properties                                                              *)
(***************************************************************************)

TypeOK ==
  /\ setup \in Setups
  /\ faults \in 0..MaxFaults
  /\ day \in 1..Days /\ bar \in 1..Bars
  /\ open \in Closes /\ close \in Closes /\ prev \in Closes \cup {0} /\ high \in Closes
  /\ position \in Position \cup {None}
  /\ stage \in {"new", "judged", "done"}
  /\ memory \in Memory
  /\ ran \in BOOLEAN /\ sunk \in 0..Days
  /\ relapses \in Nat /\ buys \in Nat

\* What the stops of a setup may leave open: the strategies that are to be
\* held some days, and a break-even signal that comes before the stop
\* (holding_evaluator.py:529) and waits for the end of the cooldown.  Where the
\* owner has turned the price stop of ai_swing off, the days end the position
\* (holding_evaluator.py:284).
MinHeld == setup.minHold > 0 /\ HoldDays < setup.minHold
Masked == Fresh /\ AtLeast(Peak, position.entry, setup.breakEven)
Outlived == setup.maxHold > 0 /\ HoldDays >= setup.maxHold

\* No position is kept by a cycle that sees it at or under its hard stop: not
\* by the sale of a part at the gap (supertrend_auto_trader.py:330), not by a
\* runner or a limit-up hold, not by the cooldown of the daemon (daemon:1139).
StopsHold ==
  stage = "judged" /\ position # None /\ setup.stop < 0 =>
    IF Trader
      THEN ~AtMost(close, position.entry, setup.stop)
      ELSE \/ ~AtMost(close, position.entry, setup.stop)
           \/ SkipPriceStop /\ ~Outlived
           \/ ~setup.ai /\ Above(close, position.entry, setup.hard)
           \/ ~setup.ai /\ (MinHeld \/ Masked)

\* A trader buys a symbol max_entries_per_symbol_day times a day, and never
\* after its own loss of that day (supertrend_auto_trader.py:826); only a
\* restart or a lost answer lets it buy once more.
ReentryGuarded ==
  /\ Trader /\ setup.maxEntries > 0 => buys <= setup.maxEntries * (1 + faults)
  /\ Trader /\ setup.blockLoss => relapses <= faults

\* The runner guarantees its floor: a position that it held above the floor
\* is not kept under it, unless the price is at the day's limit
\* (docs/04-report/features/2026-06-09-BAR-OPS-36-runner.md:37, :67).
RunnerLocksProfit ==
  stage = "judged" /\ position # None /\ ran /\ setup.lock > 0 /\ ~LimitUp =>
    ~Below(close, position.entry, setup.lock)
=============================================================================
