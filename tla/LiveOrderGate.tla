--------------------------- MODULE LiveOrderGate ----------------------------
(***************************************************************************)
(* backend/core/risk/live_order_gate.py: the gate every order of the       *)
(* daemon, the Telegram bot and the scripts passes, with the latch file of *)
(* backend/core/risk/daily_gate_input.py.                                  *)
(*                                                                         *)
(* Whoever places orders has a gate with a policy of its own: the daemon's *)
(* scan, which makes a new one in every cycle, its DCA, the supertrend and *)
(* the limit-up trader, /confirm.  One process may have several.  All      *)
(* gates share the audit file, whose ORDERED rows they count.  Those whose *)
(* policy has daily_loss_latch and a latch path (Latching: the scan's and  *)
(* the supertrend trader's) also share the latch file, which blocks their  *)
(* buying for the rest of a day on which one of them saw its loss limit    *)
(* reached.  The others neither set nor look at the latch.                 *)
(*                                                                         *)
(* BlockEnabled stands for daily_loss_order_block_enabled.                 *)
(* LIVE_TRADING_ENABLED is set, dry_run is off, no daily_max_orders is 0   *)
(* (unlimited), and quantities are positive.                               *)
(***************************************************************************)
EXTENDS Naturals, FiniteSets

CONSTANTS
  Gates,         \* one for each call that may be under way at the same time
  Latching,      \* the gates with daily_loss_latch and latch_state_path
  Limits,        \* [Gates -> daily_max_orders]
  MaxOrders,     \* the largest of them
  Retries,       \* [Gates -> order_retry_count], of sells (retry_sell_only)
  MaxRetries,    \* the largest of them
  BlockEnabled,
  Never,         \* no day
  MaxDay,        \* bound on the day
  MaxCopies,     \* bound on the requests the broker accepts in one day
  MaxFaults      \* bound on failures

ASSUME GatesAssumption == IsFiniteSet(Gates) /\ Gates # {}
ASSUME LatchingAssumption == Latching \subseteq Gates
ASSUME LimitAssumption == MaxOrders \in Nat \ {0} /\ MaxRetries \in Nat
ASSUME LimitsAssumption ==
  Limits \in [Gates -> 1..MaxOrders] /\ Retries \in [Gates -> 0..MaxRetries]
ASSUME BlockAssumption == BlockEnabled \in BOOLEAN
ASSUME BoundAssumption == MaxDay \in Nat /\ MaxCopies \in Nat /\ MaxFaults \in Nat
ASSUME NeverAssumption == Never \notin Nat

VARIABLES
  day,         \* the UTC date
  faults,      \* failures so far
  \* files
  buyRows,     \* ORDERED buy rows of the day in the audit file
  latchFile,   \* the date in daily_gate_state.json
  \* the gates
  latchDate,   \* [Gates -> _loss_latch_date]
  pc,          \* [Gates -> step of the call in progress]
  side,        \* [Gates -> side of the call in progress]
  left,        \* [Gates -> attempts left, the one in progress included]
  copies,      \* [Gates -> requests of this call that the broker accepted]
  \* history
  bought,      \* buys the broker accepted today
  unrecorded,  \* buys accepted today that will never have a row
  breach       \* the last day on which a gate latched, and could save it

calls == <<pc, side, left, copies>>
vars == <<day, faults, buyRows, latchFile, latchDate, calls, bought,
          unrecorded, breach>>

PcValues == {"idle", "latch", "count", "send", "answer", "audit"}

(***************************************************************************)
(* Helpers                                                                 *)
(***************************************************************************)

Fail == faults < MaxFaults /\ faults' = faults + 1

Goto(g, step) == pc' = [pc EXCEPT ![g] = step]

\* Faulty variant: buys are retried too.
AttemptsOfAny(g, s) == 1 + Retries[g]

\* Faulty variant: the attempts are one more than the retries allow.
AttemptsOneMore(g, s) == IF s = "sell" THEN 2 + Retries[g] ELSE 1

\* _place_with_retry: only sells are retried.
Attempts(g, s) == IF s = "sell" THEN 1 + Retries[g] ELSE 1

\* Faulty variant: the latch lives in the memory of the gate.
LatchedInMemory(g) == latchDate[g] = day

Latched(g) == latchDate[g] = day \/ latchFile = day

\* Faulty variant: one order too many passes.
UnderLimitOrAt(g) == buyRows <= Limits[g]

UnderLimit(g) == buyRows < Limits[g]

\* A buy of g is lost to the count.
Lost(g) ==
  unrecorded' = IF side[g] = "buy" /\ copies[g] > 0 THEN unrecorded + 1 ELSE unrecorded

(***************************************************************************)
(* Actions                                                                 *)
(***************************************************************************)

\* place_buy, place_sell
Call(g) ==
  /\ pc[g] = "idle"
  /\ \E s \in {"buy", "sell"} :
       /\ side' = [side EXCEPT ![g] = s]
       /\ left' = [left EXCEPT ![g] = Attempts(g, s)]
       /\ Goto(g, IF s = "buy" THEN "latch" ELSE "send")
  /\ copies' = [copies EXCEPT ![g] = 0]
  /\ UNCHANGED <<day, faults, buyRows, latchFile, latchDate, bought, unrecorded, breach>>

\* The loss is within the limit.
Pass(g) == Goto(g, "count") /\ UNCHANGED <<latchFile, latchDate, breach>>

\* The buy is refused, and nothing is latched.
Refuse(g) == Goto(g, "idle") /\ UNCHANGED <<latchFile, latchDate, breach>>

\* _preflight 2) with daily_loss_latch: a latched day refuses the buy; a loss
\* beyond the limit latches it.  A latch that cannot be saved stays in memory,
\* and a latch file that cannot be read passes for an unlatched one.
CheckShared(g) ==
  \/ ~Latched(g) /\ Pass(g) /\ UNCHANGED faults
  \/ Latched(g) /\ Refuse(g) /\ UNCHANGED faults
  \/ /\ ~Latched(g)
     /\ latchDate' = [latchDate EXCEPT ![g] = day]
     /\ \/ latchFile' = day /\ breach' = day /\ UNCHANGED faults
        \/ Fail /\ UNCHANGED <<latchFile, breach>>
     /\ Goto(g, "idle")
  \/ /\ Fail
     /\ latchDate[g] # day /\ latchFile = day
     /\ \/ Pass(g)
        \/ /\ latchDate' = [latchDate EXCEPT ![g] = day]
           /\ Goto(g, "idle")
           /\ UNCHANGED <<latchFile, breach>>

\* _preflight 2) without it: only the loss of the moment counts.
CheckLoss(g) == (Pass(g) \/ Refuse(g)) /\ UNCHANGED faults

\* _preflight 2) of a buy
CheckLatch(g) ==
  /\ pc[g] = "latch"
  /\ \/ BlockEnabled /\ g \in Latching /\ CheckShared(g)
     \/ BlockEnabled /\ g \notin Latching /\ CheckLoss(g)
     \/ ~BlockEnabled /\ Pass(g) /\ UNCHANGED faults
  /\ UNCHANGED <<day, buyRows, side, left, copies, bought, unrecorded>>

\* _preflight 3): the ORDERED buys of the day are counted; a failing count
\* ends the call.
CheckCount(g) ==
  /\ pc[g] = "count"
  /\ \/ Goto(g, IF UnderLimit(g) THEN "send" ELSE "idle") /\ UNCHANGED faults
     \/ Fail /\ Goto(g, "idle")
  /\ UNCHANGED <<day, buyRows, latchFile, latchDate, side, left, copies, bought,
                 unrecorded, breach>>

\* The broker accepts the request.
Accepted(g) ==
  /\ pc[g] = "send" /\ bought < MaxCopies
  /\ copies' = [copies EXCEPT ![g] = @ + 1]
  /\ bought' = IF side[g] = "buy" THEN bought + 1 ELSE bought
  /\ Goto(g, "answer")
  /\ UNCHANGED <<day, faults, buyRows, latchFile, latchDate, side, left, unrecorded, breach>>

Answered(g) ==
  /\ pc[g] = "answer"
  /\ Goto(g, "audit")
  /\ UNCHANGED <<day, faults, buyRows, latchFile, latchDate, side, left, copies,
                 bought, unrecorded, breach>>

\* The request or its answer fails: _place_with_retry tries again, or the call
\* ends with a FAILED row, which nothing counts.
Failed(g) ==
  /\ pc[g] \in {"send", "answer"}
  /\ Fail
  /\ left' = [left EXCEPT ![g] = @ - 1]
  /\ IF left[g] > 1
     THEN Goto(g, "send") /\ UNCHANGED unrecorded
     ELSE Goto(g, "idle") /\ Lost(g)
  /\ UNCHANGED <<day, buyRows, latchFile, latchDate, side, copies, bought, breach>>

\* The ORDERED row; failing to write it is logged and nothing else.
Audit(g) ==
  /\ pc[g] = "audit"
  /\ \/ /\ buyRows' = IF side[g] = "buy" THEN buyRows + 1 ELSE buyRows
        /\ UNCHANGED <<faults, unrecorded>>
     \/ Fail /\ Lost(g) /\ UNCHANGED buyRows
  /\ Goto(g, "idle")
  /\ UNCHANGED <<day, latchFile, latchDate, side, left, copies, bought, breach>>

\* The daemon's next cycle and the next /confirm have a new gate.
Recreate(g) ==
  /\ pc[g] = "idle" /\ latchDate[g] # Never
  /\ latchDate' = [latchDate EXCEPT ![g] = Never]
  /\ UNCHANGED <<day, faults, buyRows, latchFile, calls, bought, unrecorded, breach>>

\* The call dies with its process; where several calls share one, each dies in a
\* step of its own.
Crash(g) ==
  /\ pc[g] # "idle"
  /\ Fail
  /\ Lost(g)
  /\ latchDate' = [latchDate EXCEPT ![g] = Never]
  /\ Goto(g, "idle")
  /\ UNCHANGED <<day, buyRows, latchFile, side, left, copies, bought, breach>>

\* Rows and latches of another date no longer count.
NewDay ==
  /\ day < MaxDay
  /\ day' = day + 1
  /\ buyRows' = 0 /\ bought' = 0 /\ unrecorded' = 0
  /\ UNCHANGED <<faults, latchFile, latchDate, calls, breach>>

(***************************************************************************)
(* The specification                                                       *)
(***************************************************************************)

Init ==
  /\ day = 0 /\ faults = 0 /\ buyRows = 0 /\ latchFile = Never
  /\ latchDate = [g \in Gates |-> Never]
  /\ pc = [g \in Gates |-> "idle"]
  /\ side = [g \in Gates |-> "buy"]
  /\ left = [g \in Gates |-> 0] /\ copies = [g \in Gates |-> 0]
  /\ bought = 0 /\ unrecorded = 0 /\ breach = Never

Step(g) ==
  \/ Call(g) \/ CheckLatch(g) \/ CheckCount(g) \/ Accepted(g) \/ Answered(g)
  \/ Failed(g) \/ Audit(g) \/ Recreate(g) \/ Crash(g)

Next == (\E g \in Gates : Step(g)) \/ NewDay

Spec == Init /\ [][Next]_vars

(***************************************************************************)
(* Properties                                                              *)
(***************************************************************************)

\* The variables have their types.
TypeOK ==
  /\ day \in 0..MaxDay /\ faults \in 0..MaxFaults
  /\ buyRows \in Nat /\ bought \in Nat /\ unrecorded \in Nat
  /\ latchFile \in Nat \cup {Never} /\ breach \in Nat \cup {Never}
  /\ latchDate \in [Gates -> Nat \cup {Never}]
  /\ pc \in [Gates -> PcValues]
  /\ side \in [Gates -> {"buy", "sell"}]
  /\ left \in [Gates -> 0..1 + MaxRetries]
  /\ copies \in [Gates -> 0..1 + MaxRetries]

\* Every call that passes the count before another one's row is written may
\* exceed the largest daily limit by one order, and so does every accepted order
\* that never gets its row; nothing else does.  One process may have several
\* calls under way: the bot has a command, the supertrend trader and the
\* limit-up trader (run_telegram_bot.py:831-837).
OvershootBounded == bought <= MaxOrders + Cardinality(Gates) - 1 + unrecorded

\* Once one of the gates with the latch has seen the loss limit reached and could
\* save it, no buy passes the check of any of them on that day any more, however
\* often gates are made anew or crash and however the loss recovers; only a check
\* that fails to read the latch file may let one pass (l.114-121).  It says
\* nothing of the gates without the latch: /confirm, the limit-up trader and the
\* daemon's DCA may buy on a latched day.
LatchHolds ==
  [][\A g \in Latching :
       pc[g] = "latch" /\ pc'[g] = "count" /\ faults' = faults => breach # day]_vars

\* The broker accepts no buy twice for one call, even when answers get lost
\* (l.121-124).
BuyAcceptedOnce == \A g \in Gates : side[g] = "buy" => copies[g] <= 1

=============================================================================
