----------------------------- MODULE SellCycle ------------------------------
(***************************************************************************)
(* scripts/intraday_buy_daemon.py: _evaluate_and_sell for the positions of *)
(* the ai_swing strategy, with the sell path of LiveOrderGate it calls.    *)
(*                                                                         *)
(* One cycle of the daemon reads the broker's open orders and then its     *)
(* balance, confirms in the audit file the sells the balance shows, brings *)
(* the position ledger in line, decides, and sends market sells one by     *)
(* one.  A sell is preceded by a durable INTENT row in the audit file so   *)
(* that a crash, a lost answer or a slow broker does not make a later      *)
(* cycle send the same sell again.                                         *)
(*                                                                         *)
(* The broker is external.  It lists an accepted order within ListDelay,   *)
(* fills only listed orders, and a fill leaves the open orders and reaches *)
(* the balance at the same moment.                                         *)
(*                                                                         *)
(* DCA of ai_swing positions is off (BARRO_AI_SWING_DCA_ENABLED defaults   *)
(* to 0), no other process trades these symbols, and every holding has its *)
(* ledger entry.  Cooldown, manual-hold lists and the exit signals         *)
(* themselves only narrow which holdings Decide picks.                     *)
(***************************************************************************)
EXTENDS Integers, Sequences, FiniteSets

CONSTANTS
  Symbols,      \* symbols of ai_swing positions
  MaxLot,       \* largest position, in shares
  PartialPct,   \* partial_tp_ratio, in percent
  Grace,        \* _ORDER_RECONCILE_GRACE_MIN
  ListDelay,    \* broker: longest time from sending an order to its listing
  ReadSpan,     \* longest time from reading open orders to reading the audit
  TornReads,    \* may an order be listed and partly filled between the two reads
  MaxTime,      \* bound on the clock
  MaxAttempts,  \* bound on the sell attempts of one symbol
  MaxFaults,    \* bound on crashes, failed reads and failed writes
  Nothing       \* no row was written

ASSUME SymbolsAssumption == IsFiniteSet(Symbols)
ASSUME LotAssumption == MaxLot \in Nat \ {0} /\ PartialPct \in 0..100
ASSUME TimeAssumption ==
  /\ Grace \in Nat /\ ListDelay \in Nat /\ ReadSpan \in Nat
  /\ ListDelay + ReadSpan <= Grace
ASSUME TornAssumption == TornReads \in BOOLEAN
ASSUME BoundAssumption ==
  /\ MaxTime \in Nat /\ MaxAttempts \in Nat /\ MaxFaults \in Nat
ASSUME NothingAssumption == Nothing \notin Int

VARIABLES
  now,
  faults,        \* failures so far
  \* the broker
  held,          \* [Symbols -> Nat] shares in the account
  orders,        \* live orders
  \* what survives a crash: the audit file and the ledger file
  attempts,      \* [Symbols -> Seq(Attempt)] INTENT and ORDERED sell rows
  audited,       \* [Symbols -> Nat] FILLED buys less FILLED sells
  buyAudited,    \* [Symbols -> BOOLEAN] a FILLED buy row exists
  partialAudited,\* [Symbols -> BOOLEAN] a FILLED sell row marked PARTIAL_TP exists
  book,          \* [Symbols -> Nat] filled_qty of the ledger entry, 0: no entry
  partialDone,   \* [Symbols -> BOOLEAN] partial_tp_done of the ledger entry
  \* the daemon's local state in one cycle
  pc,
  openAt,        \* time the open orders were read
  openKnown,     \* open_orders_known
  pending,       \* pending_symbols
  heldSnap,      \* balance.holdings
  intentsKnown,  \* sell_intents_known
  recent,        \* recent_ai_sell_symbols
  targets,       \* rest of sell_targets, the one in progress first
  accepted,      \* the broker has accepted the request in progress
  \* history
  partialSells   \* [Symbols -> Nat] partial take-profits that sold something

broker == <<held, orders>>
audit == <<attempts, audited, buyAudited, partialAudited>>
ledger == <<book, partialDone>>
reads == <<openAt, openKnown, pending, heldSnap, intentsKnown, recent>>
vars == <<now, faults, broker, audit, ledger, pc, reads, targets, accepted,
          partialSells>>

Time == 0..MaxTime
Shares == 0..MaxLot

\* The rows one sell leaves: its INTENT, and its ORDERED if the gate wrote it.
Attempt == [qty : 1..MaxLot, partial : BOOLEAN,
            intentAt : Time, intent : {"open", "filled", "unfilled"},
            orderedAt : Time \cup {Nothing}, ordered : {"none", "open", "filled"}]

Order == [side : {"buy", "sell"}, sym : Symbols, left : 1..MaxLot, sentAt : Time,
          listed : BOOLEAN, partial : BOOLEAN, touched : BOOLEAN]

Target == [sym : Symbols, qty : 1..MaxLot, partial : BOOLEAN]

(***************************************************************************)
(* Helpers                                                                 *)
(***************************************************************************)

LesserOf(a, b) == IF a <= b THEN a ELSE b

\* The symbol has a ledger entry (all entries here are tagged ai_swing).
IsAiSwing(s) == book[s] > 0

\* Faulty variant: the quantity of a small position is cut down to nothing.
PartialQtyWithoutMinimum(q) == (q * PartialPct) \div 100

\* holding_evaluator: max(1, int(qty * partial_tp_ratio)).
PartialQty(q) == IF q * PartialPct < 100 THEN 1 ELSE (q * PartialPct) \div 100

Fail == faults < MaxFaults /\ faults' = faults + 1

\* Faulty variant: the last minute of the grace period is not protected.
IsRecentStrictly(rows) ==
  \E i \in 1..Len(rows) :
    LET a == rows[i] IN
    \/ a.intent = "open" /\ a.ordered # "filled" /\ now - a.intentAt < Grace
    \/ a.ordered = "open" /\ now - a.orderedAt < Grace

\* _recent_unresolved_ai_sell_symbols: an ORDERED row that is finished closes
\* the INTENT before it; every other open row protects for the grace period.
IsRecent(rows) ==
  \E i \in 1..Len(rows) :
    LET a == rows[i] IN
    \/ a.intent = "open" /\ a.ordered # "filled" /\ now - a.intentAt <= Grace
    \/ a.ordered = "open" /\ now - a.orderedAt <= Grace

\* _append_confirmed_sell_audits gives up when an ai_swing position that is in
\* the balance has no confirmed buy.
BuysConfirmed ==
  \A s \in Symbols : IsAiSwing(s) /\ heldSnap[s] > 0 => buyAudited[s]

\* Shares of a missing quantity `gap` that the two rows of an attempt take:
\* the ORDERED row first, the INTENT row from what is left.
TakenByOrdered(a, gap) == IF a.ordered = "open" THEN LesserOf(a.qty, gap) ELSE 0
TakenByIntent(a, gap) ==
  IF a.intent = "open" THEN LesserOf(a.qty, gap - TakenByOrdered(a, gap)) ELSE 0
Taken(a, gap) == TakenByOrdered(a, gap) + TakenByIntent(a, gap)

\* What the audit says is held and the balance does not show.
Gap(s) == IF audited[s] > heldSnap[s] THEN audited[s] - heldSnap[s] ELSE 0

\* Faulty variant: a sell still working is booked with what it has sold.
ConfirmableThoughPending(s) == IsAiSwing(s) /\ buyAudited[s]

Confirmable(s) == IsAiSwing(s) /\ s \notin pending /\ buyAudited[s]

\* gap[i] is what is left to attribute once the attempts after i, newest
\* first, have taken their share.
Attribution(s, gap) ==
  LET n == Len(attempts[s]) IN
  /\ gap[n] = IF Confirmable(s) THEN Gap(s) ELSE 0
  /\ \A i \in 1..n : gap[i - 1] = gap[i] - Taken(attempts[s][i], gap[i])

MarkFilled(a, gap) ==
  [a EXCEPT !.ordered = IF TakenByOrdered(a, gap) > 0 THEN "filled" ELSE @,
            !.intent = IF TakenByIntent(a, gap) > 0 THEN "filled" ELSE @]

\* Faulty variant: only INTENT rows are read.
IsPartialIntentFill(s, a, gap) ==
  TakenByIntent(a, gap) > 0 /\ (a.partial \/ a.qty < book[s])

\* Only the INTENT row carries the signal; an ORDERED row is taken for a
\* partial take-profit when it asked for less than the ledger holds.
IsPartialFill(s, a, gap) ==
  \/ TakenByOrdered(a, gap) > 0 /\ a.qty < book[s]
  \/ TakenByIntent(a, gap) > 0 /\ (a.partial \/ a.qty < book[s])

(***************************************************************************)
(* The broker                                                              *)
(***************************************************************************)

\* Time passes, but not past the broker's listing delay nor, between two
\* consecutive reads, past ReadSpan; from the INTENT to the request the
\* daemon runs without waiting.
Tick ==
  /\ now < MaxTime
  /\ \A o \in orders : ~o.listed => now < o.sentAt + ListDelay
  /\ pc \in {"balance", "confirm"} => now < openAt + ReadSpan
  /\ pc # "send"
  /\ now' = now + 1
  /\ UNCHANGED <<faults, broker, audit, ledger, pc, reads, targets, accepted,
                 partialSells>>

ListOrder(o) ==
  /\ ~o.listed
  /\ orders' = (orders \ {o}) \cup {[o EXCEPT !.listed = TRUE]}
  /\ UNCHANGED <<now, faults, held, audit, ledger, pc, reads, targets, accepted,
                 partialSells>>

WithFill(o, q) ==
  (orders \ {o}) \cup
    (IF q = o.left THEN {} ELSE {[o EXCEPT !.left = @ - q, !.touched = TRUE]})

FillOrder(o, q) ==
  /\ o.listed
  /\ q <= o.left
  /\ TornReads \/ q = o.left \/ pc # "balance" \/ o.sym \in pending
  /\ \/ o.side = "buy" /\ held' = [held EXCEPT ![o.sym] = @ + q]
     \/ /\ o.side = "sell"
        /\ q <= held[o.sym]
        /\ held' = [held EXCEPT ![o.sym] = @ - q]
  /\ orders' = WithFill(o, q)
  /\ partialSells' = [partialSells EXCEPT ![o.sym] =
                        @ + (IF o.partial /\ ~o.touched THEN 1 ELSE 0)]
  /\ UNCHANGED <<now, faults, audit, ledger, pc, reads, targets, accepted>>

\* The exchange or the operator cancels what is left of an order.
CancelOrder(o) ==
  /\ o.listed
  /\ Fail
  /\ orders' = orders \ {o}
  /\ UNCHANGED <<now, held, audit, ledger, pc, reads, targets, accepted, partialSells>>

(***************************************************************************)
(* The daemon                                                              *)
(***************************************************************************)

\* Open orders are read first; a failed read is remembered, not raised.
ReadOpenOrders ==
  /\ pc = "idle"
  /\ pc' = "balance"
  /\ openAt' = now
  /\ \/ /\ openKnown' = TRUE
        /\ pending' = {o.sym : o \in {x \in orders : x.listed}}
        /\ UNCHANGED faults
     \/ /\ openKnown' = FALSE
        /\ pending' = {}
        /\ Fail
  /\ UNCHANGED <<now, broker, audit, ledger, heldSnap, intentsKnown, recent,
                 targets, accepted, partialSells>>

\* A failed balance read ends the cycle.
ReadBalance ==
  /\ pc = "balance"
  /\ \/ /\ heldSnap' = held
        /\ pc' = "confirm"
        /\ UNCHANGED faults
     \/ /\ pc' = "idle"
        /\ UNCHANGED heldSnap
        /\ Fail
  /\ UNCHANGED <<now, broker, audit, ledger, openAt, openKnown, pending, intentsKnown, recent,
                 targets, accepted, partialSells>>

\* _append_confirmed_sell_audits, then _recent_unresolved_ai_sell_symbols.
ConfirmSells ==
  /\ pc = "confirm"
  /\ openKnown
  /\ BuysConfirmed
  /\ \E gap \in [Symbols -> [0..MaxAttempts -> 0..MaxLot]] :
       /\ \A s \in Symbols :
            /\ Attribution(s, gap[s])
            /\ \A i \in Len(attempts[s]) + 1..MaxAttempts : gap[s][i] = 0
       /\ attempts' = [s \in Symbols |->
                         [i \in 1..Len(attempts[s]) |->
                            MarkFilled(attempts[s][i], gap[s][i])]]
       /\ audited' = [s \in Symbols |->
                        audited[s] - (gap[s][Len(attempts[s])] - gap[s][0])]
       /\ partialAudited' = [s \in Symbols |->
            partialAudited[s] \/ \E i \in 1..Len(attempts[s]) :
                                   IsPartialFill(s, attempts[s][i], gap[s][i])]
  /\ recent' = {s \in Symbols : IsRecent(attempts'[s])}
  /\ intentsKnown' = TRUE
  /\ pc' = "mark"
  /\ UNCHANGED <<now, faults, broker, buyAudited, ledger, openAt, openKnown, pending,
                 heldSnap, targets, accepted, partialSells>>

\* Open orders unknown, a buy not confirmed, or the audit file unusable: the
\* ledger is left alone and no ai_swing sell goes out in this cycle.
SkipConfirm ==
  /\ pc = "confirm"
  /\ \/ (~openKnown \/ ~BuysConfirmed) /\ UNCHANGED faults
     \/ openKnown /\ BuysConfirmed /\ Fail
  /\ recent' = {}
  /\ intentsKnown' = FALSE
  /\ pc' = "backfill"
  /\ UNCHANGED <<now, broker, audit, ledger, openAt, openKnown, pending,
                 heldSnap, targets, accepted, partialSells>>

\* Confirmed partial take-profits reach the ledger entries.
MarkPartials ==
  /\ pc = "mark"
  /\ partialDone' = [s \in Symbols |-> partialDone[s] \/ (IsAiSwing(s) /\ partialAudited[s])]
  /\ pc' = "purge"
  /\ UNCHANGED <<now, faults, broker, audit, book, reads, targets, accepted,
                 partialSells>>

\* Faulty variant: an accepted order that waits for its fill is not respected.
PurgeableThoughPending(s) == heldSnap[s] = 0

\* Faulty variant: an empty balance is not believed.
PurgeableBesideAHolding(s) ==
  heldSnap[s] = 0 /\ s \notin pending /\ \E x \in Symbols : heldSnap[x] > 0

\* _sync_positions: what is neither held nor pending leaves the ledger.
Purgeable(s) == heldSnap[s] = 0 /\ s \notin pending

PurgeLedger ==
  LET purged == {s \in Symbols : Purgeable(s)} IN
  /\ pc = "purge"
  /\ book' = [s \in Symbols |-> IF s \in purged THEN 0 ELSE book[s]]
  /\ partialDone' = [s \in Symbols |-> partialDone[s] /\ s \notin purged]
  /\ pc' = "backfill"
  /\ UNCHANGED <<now, faults, broker, audit, reads, targets, accepted, partialSells>>

\* Faulty variant: a buy still being filled counts as settled.
SettledThoughPending(s) == IsAiSwing(s) /\ heldSnap[s] > 0

\* An ai_swing position in the balance with no order working.
Settled(s) == IsAiSwing(s) /\ heldSnap[s] > 0 /\ s \notin pending

\* _append_confirmed_fill_audit, whose own failure is swallowed; without any
\* holding the cycle ends here.
BackfillBuys ==
  LET backfilled == {s \in Symbols : Settled(s) /\ openKnown /\ ~buyAudited[s]} IN
  /\ pc = "backfill"
  /\ \/ /\ buyAudited' = [s \in Symbols |-> buyAudited[s] \/ s \in backfilled]
        /\ audited' = [s \in Symbols |->
                         IF s \in backfilled THEN audited[s] + heldSnap[s] ELSE audited[s]]
        /\ UNCHANGED faults
     \/ Fail /\ UNCHANGED <<buyAudited, audited>>
  /\ pc' = IF \A s \in Symbols : heldSnap[s] = 0 THEN "idle" ELSE "reconcile"
  /\ UNCHANGED <<now, broker, attempts, partialAudited, ledger, reads, targets,
                 accepted, partialSells>>

\* _reconcile_position_qty: the broker is right about settled quantities.
ReconcileLedger ==
  /\ pc = "reconcile"
  /\ book' = [s \in Symbols |->
                IF openKnown /\ intentsKnown /\ Settled(s) THEN heldSnap[s] ELSE book[s]]
  /\ pc' = "decide"
  /\ UNCHANGED <<now, faults, broker, audit, partialDone, reads, targets, accepted,
                 partialSells>>

\* evaluate_all over the balance: hold, a partial take-profit unless one is
\* done, or a full exit, for each holding; the loop takes them in any order.
Decide ==
  /\ pc = "decide"
  /\ \E signal \in [Symbols -> {"hold", "partial", "full"}] :
       LET sellable == {s \in Symbols : signal[s] # "hold"}
           target(s) == [sym |-> s, partial |-> signal[s] = "partial",
                         qty |-> IF signal[s] = "partial" THEN PartialQty(heldSnap[s])
                                                          ELSE heldSnap[s]]
       IN /\ \A s \in sellable : heldSnap[s] > 0 /\ Len(attempts[s]) < MaxAttempts
          /\ \A s \in Symbols : signal[s] = "partial" => ~partialDone[s]
          /\ \E order \in [1..Cardinality(sellable) -> sellable] :
               /\ \A i, j \in 1..Cardinality(sellable) : order[i] = order[j] => i = j
               /\ targets' = [i \in 1..Cardinality(sellable) |-> target(order[i])]
  /\ pc' = IF targets' = <<>> THEN "idle" ELSE "loop"
  /\ UNCHANGED <<now, faults, broker, audit, ledger, reads, accepted, partialSells>>

\* The reasons for which the loop passes over a target.
Skipped(s) ==
  \/ ~openKnown \/ ~intentsKnown
  \/ s \in recent
  \/ s \in pending

NextTarget == pc' = (IF Len(targets) = 1 THEN "idle" ELSE "loop") /\ targets' = Tail(targets)

SkipTarget ==
  /\ pc = "loop"
  /\ Skipped(Head(targets).sym)
  /\ NextTarget
  /\ UNCHANGED <<now, faults, broker, audit, ledger, reads, accepted, partialSells>>

\* _append_sell_intent_audit; without a durable row no order is sent.
WriteIntent ==
  LET t == Head(targets) IN
  /\ pc = "loop"
  /\ ~Skipped(t.sym)
  /\ Len(attempts[t.sym]) < MaxAttempts
  /\ \/ /\ attempts' = [attempts EXCEPT ![t.sym] = Append(@,
               [qty |-> t.qty, partial |-> t.partial, intentAt |-> now,
                intent |-> "open", orderedAt |-> Nothing, ordered |-> "none"])]
        /\ pc' = "send"
        /\ UNCHANGED <<faults, targets>>
     \/ /\ Fail
        /\ NextTarget
        /\ UNCHANGED attempts
  /\ UNCHANGED <<now, broker, audited, buyAudited, partialAudited, ledger, reads,
                 accepted, partialSells>>

\* LiveOrderGate._preflight refuses (TradingDisabled): no request was made, and
\* _cancel_sell_intent_audit closes the intent unless that write fails too.
GateRefuses ==
  LET s == Head(targets).sym IN
  /\ pc = "send"
  /\ Fail
  /\ \/ attempts' = [attempts EXCEPT ![s][Len(attempts[s])].intent = "unfilled"]
     \/ UNCHANGED attempts
  /\ NextTarget
  /\ UNCHANGED <<now, broker, audited, buyAudited, partialAudited, ledger, reads,
                 accepted, partialSells>>

\* _place_with_retry makes one request (no retries in this gate); it may be
\* lost on the way or reach the broker.
SendSell ==
  LET t == Head(targets) IN
  /\ pc = "send"
  /\ \/ /\ accepted' = TRUE
        /\ orders' = orders \cup
             {[side |-> "sell", sym |-> t.sym, left |-> t.qty, sentAt |-> now,
               listed |-> FALSE, partial |-> t.partial, touched |-> FALSE]}
        /\ UNCHANGED faults
     \/ accepted' = FALSE /\ Fail /\ UNCHANGED orders
  /\ pc' = "await"
  /\ UNCHANGED <<now, held, audit, ledger, reads, targets, partialSells>>

\* Faulty variant: the partial take-profit is marked done when it is accepted,
\* as for the other strategies.
AnswerOkMarksPartial ==
  LET t == Head(targets) IN
  /\ pc = "await"
  /\ accepted
  /\ attempts' = [attempts EXCEPT ![t.sym][Len(attempts[t.sym])] =
                    [@ EXCEPT !.orderedAt = now, !.ordered = "open"]]
  /\ partialDone' = [partialDone EXCEPT ![t.sym] = @ \/ t.partial]
  /\ NextTarget
  /\ accepted' = FALSE
  /\ UNCHANGED <<now, faults, broker, audited, buyAudited, partialAudited, book, reads,
                 partialSells>>

\* The answer arrives: the gate appends the ORDERED row (a failing write is
\* logged and ignored).  The ledger entry stays until the next reconciliation.
AnswerOk ==
  LET s == Head(targets).sym IN
  /\ pc = "await"
  /\ accepted
  /\ \/ /\ attempts' = [attempts EXCEPT ![s][Len(attempts[s])] =
                          [@ EXCEPT !.orderedAt = now, !.ordered = "open"]]
        /\ UNCHANGED faults
     \/ /\ Fail
        /\ UNCHANGED attempts
  /\ NextTarget
  /\ accepted' = FALSE
  /\ UNCHANGED <<now, broker, audited, buyAudited, partialAudited, ledger, reads,
                 partialSells>>

\* Faulty variant: an error is taken for a refusal and the intent is closed.
AnswerLostClosesIntent ==
  LET s == Head(targets).sym IN
  /\ pc = "await"
  /\ IF accepted THEN Fail ELSE UNCHANGED faults
  /\ attempts' = [attempts EXCEPT ![s][Len(attempts[s])].intent = "unfilled"]
  /\ pc' = "idle"
  /\ targets' = <<>>
  /\ accepted' = FALSE
  /\ UNCHANGED <<now, broker, audited, buyAudited, partialAudited, ledger, reads,
                 partialSells>>

\* No answer, or an error: the intent is kept and the cycle stops here.
AnswerLost ==
  /\ pc = "await"
  /\ IF accepted THEN Fail ELSE UNCHANGED faults
  /\ pc' = "idle"
  /\ targets' = <<>>
  /\ accepted' = FALSE
  /\ UNCHANGED <<now, broker, audit, ledger, reads, partialSells>>

\* The process dies and is started again: only the two files survive.
Crash ==
  /\ pc # "idle"
  /\ Fail
  /\ pc' = "idle"
  /\ targets' = <<>>
  /\ accepted' = FALSE
  /\ openKnown' = FALSE
  /\ intentsKnown' = FALSE
  /\ pending' = {}
  /\ recent' = {}
  /\ heldSnap' = [s \in Symbols |-> 0]
  /\ openAt' = 0
  /\ UNCHANGED <<now, broker, audit, ledger, partialSells>>

(***************************************************************************)
(* The specification                                                       *)
(***************************************************************************)

\* The daemon starts on positions bought before: each is either confirmed in
\* the audit, or fresh, with its buy filled or still working at the broker.
Init ==
  /\ now = 0
  /\ faults = 0
  /\ held \in [Symbols -> Shares]
  /\ book \in [Symbols -> 1..MaxLot]
  /\ buyAudited \in [Symbols -> BOOLEAN]
  /\ \A s \in Symbols : held[s] <= book[s] /\ (buyAudited[s] => held[s] = book[s])
  /\ orders = {[side |-> "buy", sym |-> s, left |-> book[s] - held[s], sentAt |-> 0,
                listed |-> TRUE, partial |-> FALSE, touched |-> TRUE] :
                 s \in {x \in Symbols : held[x] < book[x]}}
  /\ audited = [s \in Symbols |-> IF buyAudited[s] THEN held[s] ELSE 0]
  /\ attempts = [s \in Symbols |-> <<>>]
  /\ partialAudited = [s \in Symbols |-> FALSE]
  /\ partialDone = [s \in Symbols |-> FALSE]
  /\ pc = "idle"
  /\ openAt = 0
  /\ openKnown = FALSE
  /\ pending = {}
  /\ heldSnap = [s \in Symbols |-> 0]
  /\ intentsKnown = FALSE
  /\ recent = {}
  /\ targets = <<>>
  /\ accepted = FALSE
  /\ partialSells = [s \in Symbols |-> 0]

Broker == \E o \in orders : \/ ListOrder(o)
                            \/ \E q \in 1..MaxLot : FillOrder(o, q)
                            \/ CancelOrder(o)

Daemon ==
  \/ ReadOpenOrders \/ ReadBalance
  \/ ConfirmSells \/ SkipConfirm
  \/ MarkPartials \/ PurgeLedger \/ BackfillBuys \/ ReconcileLedger
  \/ Decide \/ SkipTarget
  \/ WriteIntent \/ GateRefuses \/ SendSell \/ AnswerOk \/ AnswerLost

Next == Tick \/ Broker \/ Daemon \/ Crash

Spec == Init /\ [][Next]_vars

\* The daemon's loop runs forever and every await in it returns or raises.
FairSpec == Spec /\ WF_vars(Daemon)

(***************************************************************************)
(* Properties                                                              *)
(***************************************************************************)

PcValues == {"idle", "balance", "confirm", "mark", "purge", "backfill", "reconcile",
             "decide", "loop", "send", "await"}

\* The variables have their types.
TypeOK ==
  /\ now \in Time /\ openAt \in Time
  /\ faults \in 0..MaxFaults
  /\ held \in [Symbols -> Shares] /\ heldSnap \in [Symbols -> Shares]
  /\ orders \subseteq Order
  /\ attempts \in [Symbols -> Seq(Attempt)]
  /\ audited \in [Symbols -> Nat]
  /\ buyAudited \in [Symbols -> BOOLEAN]
  /\ partialAudited \in [Symbols -> BOOLEAN]
  /\ book \in [Symbols -> Shares]
  /\ partialDone \in [Symbols -> BOOLEAN]
  /\ pc \in PcValues
  /\ openKnown \in BOOLEAN /\ intentsKnown \in BOOLEAN /\ accepted \in BOOLEAN
  /\ pending \subseteq Symbols /\ recent \subseteq Symbols
  /\ targets \in Seq(Target)
  /\ partialSells \in [Symbols -> Nat]

LiveSells(s) == {o \in orders : o.sym = s /\ o.side = "sell"}
LiveBuys(s) == {o \in orders : o.sym = s /\ o.side = "buy"}

\* No second sell goes out while one is working, and a working sell never asks
\* for more than the account holds, across crashes, lost answers, slow
\* listings, failed reads and failed audit writes (intraday_buy_daemon.py
\* l.831-839 order of the reads, l.1160-1182 skips, l.1199-1206 intents).
NoOversell ==
  \A s \in Symbols : \A o, p \in LiveSells(s) : o = p /\ o.left <= held[s]

\* A held position never loses its ledger entry, whatever _sync_positions saw:
\* without the entry no exit rule of its strategy would apply to it.
HeldStaysInLedger == \A s \in Symbols : held[s] > 0 => book[s] > 0

\* The audit never confirms a sale that did not happen: once a buy is
\* confirmed, FILLED buys less FILLED sells cover what the account holds
\* (_append_confirmed_sell_audits attributes a falling balance, l.694-781).
AuditCoversHoldings ==
  \A s \in Symbols : buyAudited[s] => audited[s] >= held[s]

\* Every share sold can still be attributed: while the audit shows more than
\* the account holds, a sell row of the symbol is still open for it.  A crash
\* or a lost answer must not close the only row a fill could be booked on.
SoldSharesHaveARow ==
  \A s \in Symbols : audited[s] > held[s] =>
    \E i \in 1..Len(attempts[s]) :
      attempts[s][i].intent = "open" \/ attempts[s][i].ordered = "open"

\* A partial take-profit sells from a position at most once, although its
\* fill is confirmed only cycles later (l.751-755, l.876-881, holding_evaluator
\* partial_tp_done).
PartialOnce == \A s \in Symbols : partialSells[s] <= 1

\* The ledger says a partial take-profit is done only if one sold something:
\* a cancelled or refused one may be tried again.
PartialFlagHonest == \A s \in Symbols : partialDone[s] => partialSells[s] = 1

\* What the working sells of a symbol still ask for.
Selling(s) == IF LiveSells(s) = {} THEN 0 ELSE (CHOOSE o \in LiveSells(s) : TRUE).left

Promise == INSTANCE Position WITH
  shares <- held,
  selling <- [s \in Symbols |-> Selling(s)],
  books <- audited,
  confirmed <- buyAudited,
  tracked <- {s \in Symbols : IsAiSwing(s)}

\* Seen from the account, the cycle is a seller that keeps books: a sell goes
\* out only for what is held, one at a time, and only once everything sold
\* before is in the audit; the audit never falls below the account; a position
\* leaves the ledger only when it is sold out and booked (l.624-785, 831-839,
\* 1160-1206).
SellsByTheBooks == Promise!Spec

\* A position sold out, with nothing of it working at the broker and no buy
\* working anywhere, eventually leaves the ledger.
SoldOutLeavesLedger ==
  \A s \in Symbols :
    (held[s] = 0 /\ LiveSells(s) = {} /\ \A x \in Symbols : LiveBuys(x) = {})
      ~> book[s] = 0

=============================================================================
