---------------------------- MODULE TraderCycle -----------------------------
(***************************************************************************)
(* core/supertrend_auto_trader.py and core/limit_up_chase_trader.py: the   *)
(* cycle of an automatic trader, beside what the daemon                    *)
(* (scripts/intraday_buy_daemon.py) does in its own cycle with the same    *)
(* positions: SYNC, FILL-SYNC, exits and the end-of-day carry limit.       *)
(*                                                                         *)
(* Both work on one ledger and one account.  A trader either runs inside   *)
(* the daemon, after each sell evaluation, or in the process of the        *)
(* Telegram bot, at the same time as the daemon; the limit-up trader runs  *)
(* only there and does not look at the ledger again before it sells.       *)
(* These positions have no INTENT rows: the entry is written when the buy  *)
(* is answered, and changed or removed when a sell is answered.            *)
(* The zone strategies of the daemon itself buy the same way, in two       *)
(* tranches: the second one is a DCA order of a later cycle.               *)
(*                                                                         *)
(* The broker is external.  It lists an accepted order at once, fills it   *)
(* in any portions, and refuses to sell shares that are not there or are   *)
(* reserved by a working sell.  A ledger operation is one step: two        *)
(* processes inside upsert or remove at once are in PositionStore.  Which  *)
(* exit rule fires is in PositionExits; here any of them may.                 *)
(***************************************************************************)
EXTENDS Integers, FiniteSets

CONSTANTS
  Symbols,
  Modes,        \* where the trader runs, and which one it is
  Universe,     \* [Modes -> SUBSET Symbols] what universe_provider offers
  Lot,          \* shares of one buy
  MaxPositions, \* config.max_positions
  Retries,      \* order_retry_count of the gates that retry sells
  MaxBuys,      \* [Modes -> Nat] bound on the buys that reach the broker
  MaxFaults,    \* [Modes -> Nat] bound on lost answers, failed reads, cancels, crashes
  None          \* no entry, no sale in progress

ASSUME SymbolsAssumption == IsFiniteSet(Symbols)
\* supertrend inside the daemon, supertrend in the bot, limit-up in the bot,
\* no trader but the zone strategies of the daemon.
ASSUME ModesAssumption == Modes \subseteq {"inside", "beside", "chaser", "zone"}
ASSUME UniverseAssumption == Universe \in [Modes -> SUBSET Symbols]
ASSUME NumbersAssumption ==
  /\ Lot \in Nat \ {0} /\ MaxPositions \in Nat /\ Retries \in Nat
  /\ MaxBuys \in [Modes -> Nat \ {0}] /\ MaxFaults \in [Modes -> Nat]
ASSUME NoneAssumption ==
  /\ None \notin [qty : Nat, total : Nat, partial : BOOLEAN, rest : BOOLEAN]
  /\ None \notin [sym : Symbols, kind : {"buy", "dca", "partial", "full", "carry"},
                  qty : Nat, tries : Nat, answered : BOOLEAN]

VARIABLES
  mode,
  faults,
  \* the broker
  shares,      \* [Symbols -> Nat] shares in the account
  buying,      \* [Symbols -> Nat] shares of working buys
  selling,     \* [Symbols -> Nat] shares of working sells
  bought,      \* buys accepted so far
  \* active_positions.json
  book,        \* [Symbols -> Entry or None]
  \* today, for the zone strategies: "sold" is a sell row of order_audit.csv,
  \* "bought" is session_bought
  day,         \* [Symbols -> {"free", "bought", "sold"}]
  \* each actor's cycle
  pc,
  snap,        \* the entries it loaded
  plan,        \* what it still means to send
  job,         \* the order it is sending, or None
  \* the daemon's reads
  openKnown,   \* open_orders_known
  pending,     \* pending_symbols
  pendingSell, \* pending_sell_symbols
  heldSnap,    \* balance.holdings
  \* history
  strays,      \* [Symbols -> Nat] lots that lost their entry to a known cause
  partials     \* [Symbols -> Nat] partial sells of the position the broker accepted

broker == <<shares, buying, selling, bought>>
cycles == <<pc, snap, plan, job>>
reads == <<openKnown, pending, pendingSell, heldSnap>>
history == <<strays, partials>>
ledgers == <<book, day>>
vars == <<mode, faults, broker, ledgers, cycles, reads, history>>

Actors == {"trader", "daemon"}

MaxShares == Lot * MaxBuys[mode]

\* What the filled tranches hold (the traders' entries have a single one),
\* total_recommended_qty, which is what a trader sells by, partial_tp_done, and
\* whether a tranche is still to be bought.
Entry == [qty : 0..MaxShares, total : 0..2 * MaxShares, partial : BOOLEAN, rest : BOOLEAN]

Kinds == {"buy", "dca", "partial", "full", "carry"}
Buys == {"buy", "dca"}
Item == [sym : Symbols, kind : Kinds]
Job == [sym : Symbols, kind : Kinds, qty : 0..MaxShares, tries : 0..Retries, answered : BOOLEAN]

Apart == mode \in {"beside", "chaser"}
Zone == mode = "zone"

PartialDone(entry) == IF entry = None THEN FALSE ELSE entry.partial

HasEntry(s) == book[s] # None
Entries == {s \in Symbols : HasEntry(s)}
Working(s) == buying[s] > 0 \/ selling[s] > 0

\* What the account will hold when every working order is filled.
Net(s) == shares[s] + buying[s] - selling[s]

LotsOf(q) == (q + Lot - 1) \div Lot

Fail == faults < MaxFaults[mode] /\ faults' = faults + 1

(***************************************************************************)
(* The broker                                                              *)
(***************************************************************************)

FillBuy(s, q) ==
  /\ q <= buying[s]
  /\ shares' = [shares EXCEPT ![s] = @ + q]
  /\ buying' = [buying EXCEPT ![s] = @ - q]
  /\ UNCHANGED <<mode, faults, selling, bought, ledgers, cycles, reads, history>>

FillSell(s, q) ==
  /\ q <= selling[s]
  /\ shares' = [shares EXCEPT ![s] = @ - q]
  /\ selling' = [selling EXCEPT ![s] = @ - q]
  /\ UNCHANGED <<mode, faults, buying, bought, ledgers, cycles, reads, history>>

\* What is left of the orders of a symbol is cancelled; a cancelled sell
\* leaves shares whose entry was removed when the sell was accepted.
Cancel(s) ==
  /\ Working(s)
  /\ Fail
  /\ buying' = [buying EXCEPT ![s] = 0]
  /\ selling' = [selling EXCEPT ![s] = 0]
  /\ strays' = [strays EXCEPT ![s] = @ + LotsOf(selling[s])]
  /\ UNCHANGED <<mode, shares, bought, ledgers, cycles, reads, partials>>

(***************************************************************************)
(* The trader's cycle                                                      *)
(***************************************************************************)

Done(a) == plan[a] = {} /\ job[a] = None

\* _maybe_gap_partial: int(held * ratio), with a ratio of one half.
GapPart(q) == q \div 2

Go(a, next) == pc' = [pc EXCEPT ![a] = next]

\* What a cycle has read is kept only as long as it is used.
Keep(a, entries, used) ==
  snap' = [snap EXCEPT ![a] = [s \in Symbols |-> IF s \in used THEN entries[s] ELSE None]]

Forget(a) == Keep(a, snap[a], {})

KeepReads(holdings, used) ==
  /\ openKnown' = FALSE
  /\ pending' = {} /\ pendingSell' = {}
  /\ heldSnap' = [s \in Symbols |-> IF s \in used THEN holdings[s] ELSE 0]

ForgetReads == KeepReads(heldSnap, {})

\* The exits, inside the daemon after its own: each position is kept, gap-partially sold or sold.
TraderLoads ==
  /\ pc["trader"] = "idle"
  /\ ~Zone
  /\ mode = "inside" => pc["daemon"] = "exits" /\ Done("daemon")
  /\ \E signal \in [Entries -> {"hold", "partial", "full"}] :
       /\ \A s \in Entries : signal[s] = "partial" =>
            ~book[s].partial /\ GapPart(book[s].total) \in 1..book[s].total - 1
       /\ \A s \in Entries : signal[s] = "full" => book[s].total > 0
       /\ LET sold == {s \in Entries : signal[s] # "hold"} IN
            /\ plan' = [plan EXCEPT !["trader"] = {[sym |-> s, kind |-> signal[s]] : s \in sold}]
            /\ Keep("trader", book, sold)
  /\ Go("trader", "exits")
  /\ UNCHANGED <<mode, faults, broker, ledgers, job, reads, history>>

\* The end of a cycle; inside the daemon the carry limit comes next.
TraderRests ==
  pc' = [a \in Actors |-> CASE a = "trader" -> "idle"
                            [] a = "daemon" /\ mode = "inside" -> "carry"
                            [] OTHER -> pc[a]]

\* Faulty variant: what is held counts, not what is in the ledger.
FreeSlotsByHoldings == MaxPositions - Cardinality({s \in Symbols : shares[s] > 0})

FreeSlots == MaxPositions - Cardinality(Entries)

\* The entries: the ledger is read again for the slots and for the symbols
\* to leave out; signals and sizing choose among the rest.
TraderScans ==
  /\ pc["trader"] = "exits"
  /\ Done("trader")
  /\ \E chosen \in SUBSET (Universe[mode] \ Entries) :
       /\ chosen # {} => Cardinality(chosen) <= FreeSlots
       /\ plan' = [plan EXCEPT !["trader"] = {[sym |-> s, kind |-> "buy"] : s \in chosen}]
       /\ IF chosen = {} THEN TraderRests ELSE Go("trader", "entries")
  /\ Forget("trader")
  /\ UNCHANGED <<mode, faults, broker, ledgers, job, reads, history>>

TraderEnds ==
  /\ pc["trader"] = "entries"
  /\ Done("trader")
  /\ TraderRests
  /\ UNCHANGED <<mode, faults, broker, ledgers, snap, plan, job, reads, history>>

(***************************************************************************)
(* The daemon's cycle                                                      *)
(***************************************************************************)

ReadOpenOrders ==
  /\ pc["daemon"] = "idle"
  /\ Go("daemon", "balance")
  /\ \/ /\ openKnown' = TRUE
        /\ pending' = {s \in Symbols : Working(s)}
        /\ pendingSell' = {s \in Symbols : selling[s] > 0}
        /\ UNCHANGED faults
     \/ /\ openKnown' = FALSE
        /\ pending' = {} /\ pendingSell' = {}
        /\ Fail
  /\ UNCHANGED <<mode, broker, ledgers, snap, plan, job, heldSnap, history>>

ReadBalance ==
  /\ pc["daemon"] = "balance"
  /\ \/ /\ heldSnap' = shares
        /\ Go("daemon", "sync")
        /\ UNCHANGED <<faults, openKnown, pending, pendingSell>>
     \/ /\ Go("daemon", "exits")
        /\ Fail
        /\ ForgetReads
  /\ UNCHANGED <<mode, broker, ledgers, snap, plan, job, history>>

\* Faulty variant: an accepted order that waits for its fill is not respected.
PurgeableThoughPending(s) == HasEntry(s) /\ heldSnap[s] = 0

Purgeable(s) == HasEntry(s) /\ heldSnap[s] = 0 /\ s \notin pending

\* _sync_positions.  Beside another process an order may have come between
\* the reads and this step: its lot goes astray.
SyncPositions ==
  LET purged == {s \in Symbols : openKnown /\ Purgeable(s)} IN
  /\ pc["daemon"] = "sync"
  /\ book' = [s \in Symbols |-> IF s \in purged THEN None ELSE book[s]]
  /\ strays' = [s \in Symbols |->
       IF Apart /\ s \in purged /\ Net(s) > 0 THEN strays[s] + 1 ELSE strays[s]]
  /\ Go("daemon", "load")
  /\ UNCHANGED <<mode, faults, broker, day, snap, plan, job, reads, partials>>

LoadPositions ==
  /\ pc["daemon"] = "load"
  /\ \/ /\ \E s \in Symbols : heldSnap[s] > 0
        /\ Keep("daemon", book, Symbols)
        /\ Go("daemon", "reconcile")
        /\ UNCHANGED reads
     \/ /\ \A s \in Symbols : heldSnap[s] = 0
        /\ Go("daemon", "exits")
        /\ ForgetReads
        /\ UNCHANGED snap
  /\ UNCHANGED <<mode, faults, broker, ledgers, plan, job, history>>

\* Faulty variant: the tranches are mended, the total that traders sell by is not.
ReconciledTranches(s) ==
  IF s \notin pending /\ heldSnap[s] # snap["daemon"][s].qty
    THEN [snap["daemon"][s] EXCEPT !.qty = heldSnap[s]]
    ELSE snap["daemon"][s]

\* _reconcile_position_qty, when no order of the symbol is known to work: the
\* filled tranches are compared with the balance, and where they differ both
\* quantities are set.
Reconciled(s) ==
  IF s \notin pending /\ heldSnap[s] # snap["daemon"][s].qty
    THEN [snap["daemon"][s] EXCEPT !.qty = heldSnap[s], !.total = heldSnap[s]]
    ELSE snap["daemon"][s]

\* FILL-SYNC writes the loaded copy back; so does a new peak or trough.
FillSync ==
  LET known == {s \in Symbols : heldSnap[s] > 0 /\ snap["daemon"][s] # None}
      mended == {s \in known : Reconciled(s) # snap["daemon"][s]}
  IN
  /\ pc["daemon"] = "reconcile"
  /\ \E dirty \in SUBSET known :
       book' = [s \in Symbols |-> IF s \in mended \cup dirty THEN Reconciled(s) ELSE book[s]]
  /\ snap' = [snap EXCEPT !["daemon"] =
                [s \in Symbols |-> IF s \in known THEN Reconciled(s) ELSE @[s]]]
  /\ Go("daemon", "decide")
  /\ UNCHANGED <<mode, faults, broker, day, plan, job, reads, history>>

\* evaluate_all over the balance with what was loaded, and the ledger loaded
\* once more.  A holding without entry is judged too; a tranche that is still
\* to be bought is, when the price has fallen far enough and nothing says stop.
Decide ==
  LET held == {s \in Symbols : heldSnap[s] > 0} IN
  /\ pc["daemon"] = "decide"
  /\ \E signal \in [held -> {"hold", "partial", "full"}] :
       /\ \A s \in held : signal[s] = "partial" => ~PartialDone(snap["daemon"][s])
       /\ \E fallen \in SUBSET {s \in held : HasEntry(s) /\ book[s].rest} :
            LET sold == {s \in held \ pendingSell : signal[s] # "hold"} IN
            /\ plan' = [plan EXCEPT !["daemon"] =
                          {[sym |-> s, kind |-> signal[s]] : s \in sold}
                            \cup {[sym |-> s, kind |-> "dca"] : s \in fallen}]
            /\ Keep("daemon", book, sold \cup fallen)
            /\ KeepReads(heldSnap, sold)
  /\ Go("daemon", "exits")
  /\ UNCHANGED <<mode, faults, broker, ledgers, job, history>>

\* _scan_and_buy of the zone strategies: a new balance, the ledger and today's
\* rows say what to leave out; orders that wait for their fill are not read.
DaemonScans ==
  /\ Zone
  /\ pc["daemon"] = "exits"
  /\ Done("daemon")
  /\ \E chosen \in SUBSET {s \in Universe[mode] \ Entries : shares[s] = 0 /\ day[s] = "free"} :
       plan' = [plan EXCEPT !["daemon"] = {[sym |-> s, kind |-> "buy"] : s \in chosen}]
  /\ Forget("daemon") /\ ForgetReads
  /\ Go("daemon", "entries")
  /\ UNCHANGED <<mode, faults, broker, ledgers, job, history>>

TraderAway == mode = "inside" => pc["trader"] = "idle"

\* _eod_carry_limit, near the close: a new balance, and holdings with an
\* entry are sold while the carry is too big.
LimitCarry ==
  /\ pc["daemon"] \in {"exits", "entries", "carry"}
  /\ Done("daemon")
  /\ TraderAway
  /\ \E excess \in (SUBSET {s \in Entries : shares[s] > 0}) \ {{}} :
       /\ plan' = [plan EXCEPT !["daemon"] = {[sym |-> s, kind |-> "carry"] : s \in excess}]
       /\ KeepReads(shares, excess)
  /\ Forget("daemon")
  /\ Go("daemon", "carrying")
  /\ UNCHANGED <<mode, faults, broker, ledgers, job, history>>

DaemonRests ==
  /\ pc["daemon"] \in {"exits", "entries", "carry", "carrying"}
  /\ Done("daemon")
  /\ TraderAway
  /\ Go("daemon", "idle")
  /\ Forget("daemon") /\ ForgetReads
  /\ UNCHANGED <<mode, faults, broker, ledgers, plan, job, history>>

(***************************************************************************)
(* One order, of either actor                                              *)
(***************************************************************************)

\* The ledger is read again right before the sell: an entry that was loaded
\* and is gone means that somebody else has sold.
RechecksOk(a, i) ==
  \/ i.kind \in {"buy", "dca", "carry"}
  \/ a = "trader" /\ mode = "chaser"
  \/ a = "daemon" /\ snap[a][i.sym] = None
  \/ HasEntry(i.sym)

QtyOf(a, i) ==
  CASE i.kind \in Buys -> Lot
    [] i.kind = "partial" /\ a = "trader" -> GapPart(snap[a][i.sym].total)
    [] i.kind = "full" /\ a = "trader" -> snap[a][i.sym].total
    [] i.kind = "partial" /\ a = "daemon" ->
         IF heldSnap[i.sym] = 1 THEN 1 ELSE heldSnap[i.sym] \div 2
    [] OTHER -> heldSnap[i.sym]

\* The DCA orders come before the sells.
First(a, i) == (\E k \in plan[a] : k.kind = "dca") => i.kind = "dca"

\* The recheck fails.  (An order the gate's own checks refuse is one that
\* was not planned.)
Skip(a, i) ==
  /\ job[a] = None
  /\ i \in plan[a]
  /\ First(a, i)
  /\ ~RechecksOk(a, i)
  /\ plan' = [plan EXCEPT ![a] = @ \ {i}]
  /\ UNCHANGED <<mode, faults, broker, ledgers, pc, snap, job, reads, history>>

Begin(a, i) ==
  /\ job[a] = None
  /\ i \in plan[a]
  /\ First(a, i)
  /\ RechecksOk(a, i)
  /\ plan' = [plan EXCEPT ![a] = @ \ {i}]
  /\ job' = [job EXCEPT ![a] =
       [sym |-> i.sym, kind |-> i.kind, qty |-> QtyOf(a, i), tries |-> 0, answered |-> FALSE]]
  /\ UNCHANGED <<mode, faults, broker, ledgers, pc, snap, reads, history>>

RetriesOf(a, kind) ==
  IF kind \notin Buys /\ (a = "trader" \/ kind = "carry") THEN Retries ELSE 0

\* Faulty variant: one attempt too many.
RetryOnceMore(a) ==
  job' = [job EXCEPT ![a] =
    IF job[a].tries <= RetriesOf(a, job[a].kind) THEN [job[a] EXCEPT !.tries = @ + 1] ELSE None]

\* No answer, or an error: the gate tries again or gives up.
Retry(a) ==
  job' = [job EXCEPT ![a] =
    IF job[a].tries < RetriesOf(a, job[a].kind) THEN [job[a] EXCEPT !.tries = @ + 1] ELSE None]

Accept(j) ==
  \/ /\ j.kind \in Buys
     /\ bought < MaxBuys[mode]
     /\ bought' = bought + 1
     /\ buying' = [buying EXCEPT ![j.sym] = @ + j.qty]
     /\ UNCHANGED selling
  \/ /\ j.kind \notin Buys
     /\ j.qty <= shares[j.sym] - selling[j.sym]
     /\ selling' = [selling EXCEPT ![j.sym] = @ + j.qty]
     /\ UNCHANGED <<bought, buying>>

Refused(j) ==
  \/ j.kind \in Buys
  \/ j.qty > shares[j.sym] - selling[j.sym]

\* The row of a sell, ORDERED or FAILED, counts as a sale of the day.
Audited(a) ==
  day' = IF Zone /\ job[a].kind \notin Buys /\ (job[a].answered \/ job[a].tries >= RetriesOf(a, job[a].kind))
           THEN [day EXCEPT ![job[a].sym] = "sold"]
           ELSE day

Unanswered(a) == job[a] # None /\ ~job[a].answered

Counted(j) ==
  partials' = [partials EXCEPT ![j.sym] = @ + (IF ~Apart /\ j.kind = "partial" THEN 1 ELSE 0)]

SendAccepted(a) ==
  /\ Unanswered(a)
  /\ Accept(job[a])
  /\ Counted(job[a])
  /\ job' = [job EXCEPT ![a].answered = TRUE]
  /\ UNCHANGED <<mode, faults, shares, ledgers, pc, snap, plan, reads, strays>>

SendRefused(a) ==
  /\ Unanswered(a)
  /\ Refused(job[a])
  /\ Retry(a) /\ Audited(a)
  /\ UNCHANGED <<mode, faults, broker, book, pc, snap, plan, reads, history>>

\* The request or its answer is lost.
SendLost(a) ==
  /\ Unanswered(a)
  /\ Fail
  /\ \/ /\ Accept(job[a]) /\ Counted(job[a])
        /\ strays' = [strays EXCEPT ![job[a].sym] = @ + (IF job[a].kind \in Buys THEN 1 ELSE 0)]
     \/ UNCHANGED <<buying, selling, bought, history>>
  /\ Retry(a) /\ Audited(a)
  /\ UNCHANGED <<mode, shares, book, pc, snap, plan, reads>>

\* Faulty variant: partial_tp_done is not kept.
AfterPartialForgotten(a, j) ==
  [snap[a][j.sym] EXCEPT !.total = IF a = "trader" THEN @ - j.qty ELSE @]

\* Faulty variant: every sell removes the entry.
AfterPartialRemoved(a, j) == None

\* The loaded entry after a partial sell; only the trader lowers a quantity, and
\* leaves the tranches as they are.
AfterPartial(a, j) ==
  [snap[a][j.sym] EXCEPT !.partial = TRUE, !.total = IF a = "trader" THEN @ - j.qty ELSE @]

\* Faulty variant: the tranche stays to be bought.
AfterDcaPending(a, j) == [snap[a][j.sym] EXCEPT !.qty = @ + j.qty]

\* The loaded entry after the second tranche is ordered, which the recommended
\* total has counted from the start.
AfterDca(a, j) == [snap[a][j.sym] EXCEPT !.qty = @ + j.qty, !.rest = FALSE]

\* create_from_order: a trader's entry has a single tranche, that of a zone
\* strategy a second one to come.
NewEntry ==
  [qty |-> Lot, total |-> IF Zone THEN 2 * Lot ELSE Lot, partial |-> FALSE, rest |-> Zone]

\* The answer reaches the ledger: create_from_order, upsert or remove.  A
\* sell of everything in the balance forgets what a working buy still brings;
\* a DCA order takes back the sells of its symbol.
Record(a) ==
  LET j == job[a]
      s == j.sym
      entry == CASE j.kind = "buy" -> NewEntry
                 [] j.kind = "dca" -> AfterDca(a, j)
                 [] j.kind = "partial" /\ snap[a][s] # None -> AfterPartial(a, j)
                 [] j.kind = "partial" /\ snap[a][s] = None -> book[s]
                 [] OTHER -> None
  IN
  /\ j # None
  /\ j.answered
  /\ book' = [book EXCEPT ![s] = entry]
  /\ partials' = [partials EXCEPT ![s] = IF j.kind = "buy" THEN 0 ELSE @]
  /\ strays' = [strays EXCEPT ![s] =
       @ + (IF j.kind \in {"full", "carry"} /\ Net(s) > 0 THEN 1 ELSE 0)]
  /\ job' = [job EXCEPT ![a] = None]
  /\ plan' = [plan EXCEPT ![a] = IF j.kind = "dca" THEN {i \in @ : i.sym # s} ELSE @]
  /\ IF Zone /\ j.kind = "buy" THEN day' = [day EXCEPT ![s] = "bought"] ELSE Audited(a)
  /\ UNCHANGED <<mode, faults, broker, pc, snap, reads>>

\* A process dies; what its last order did is not recorded, and what it kept
\* of the day in memory is gone.
Crash(a) ==
  LET dead == IF Apart THEN {a} ELSE Actors
      forgotten(s) == \E b \in dead : /\ job[b] # None /\ job[b].answered
                                      /\ job[b].kind \in Buys /\ job[b].sym = s
  IN
  /\ \E b \in dead : pc[b] # "idle"
  /\ Fail
  /\ IF "daemon" \in dead
       THEN day' = [s \in Symbols |-> IF day[s] = "bought" THEN "free" ELSE day[s]]
       ELSE UNCHANGED day
  /\ strays' = [s \in Symbols |-> strays[s] + (IF forgotten(s) THEN 1 ELSE 0)]
  /\ pc' = [b \in Actors |-> IF b \in dead THEN "idle" ELSE pc[b]]
  /\ plan' = [b \in Actors |-> IF b \in dead THEN {} ELSE plan[b]]
  /\ job' = [b \in Actors |-> IF b \in dead THEN None ELSE job[b]]
  /\ snap' = [b \in Actors |-> IF b \in dead THEN [s \in Symbols |-> None] ELSE snap[b]]
  /\ IF "daemon" \in dead THEN ForgetReads ELSE UNCHANGED reads
  /\ UNCHANGED <<mode, broker, book, partials>>

(***************************************************************************)
(* The specification                                                       *)
(***************************************************************************)

Init ==
  /\ mode \in Modes
  /\ faults = 0
  /\ shares = [s \in Symbols |-> 0]
  /\ buying = [s \in Symbols |-> 0]
  /\ selling = [s \in Symbols |-> 0]
  /\ bought = 0
  /\ book = [s \in Symbols |-> None]
  /\ day = [s \in Symbols |-> "free"]
  /\ pc = [a \in Actors |-> "idle"]
  /\ snap = [a \in Actors |-> [s \in Symbols |-> None]]
  /\ plan = [a \in Actors |-> {}]
  /\ job = [a \in Actors |-> None]
  /\ openKnown = FALSE
  /\ pending = {} /\ pendingSell = {}
  /\ heldSnap = [s \in Symbols |-> 0]
  /\ strays = [s \in Symbols |-> 0]
  /\ partials = [s \in Symbols |-> 0]

BrokerStep ==
  \E s \in Symbols :
    \/ \E q \in 1..MaxShares : FillBuy(s, q) \/ FillSell(s, q)
    \/ Cancel(s)

TraderStep == TraderLoads \/ TraderScans \/ TraderEnds

DaemonStep ==
  \/ ReadOpenOrders \/ ReadBalance \/ SyncPositions \/ LoadPositions \/ FillSync
  \/ Decide \/ DaemonScans \/ LimitCarry \/ DaemonRests

OrderStep(a) ==
  \/ \E i \in plan[a] : Skip(a, i) \/ Begin(a, i)
  \/ SendAccepted(a) \/ SendRefused(a) \/ SendLost(a) \/ Record(a)

Next ==
  \/ BrokerStep
  \/ TraderStep
  \/ DaemonStep
  \/ \E a \in Actors : OrderStep(a) \/ Crash(a)

Spec == Init /\ [][Next]_vars

\* Both loops go on for ever, whatever a cycle raises; the exchange fills or
\* cancels every order.
Fairness ==
  /\ WF_vars(TraderStep) /\ WF_vars(DaemonStep)
  /\ \A a \in Actors : WF_vars(OrderStep(a))
  /\ \A s \in Symbols : WF_vars(\E q \in 1..MaxShares : FillBuy(s, q) \/ FillSell(s, q))

FairSpec == Spec /\ Fairness

(***************************************************************************)
(* Properties                                                              *)
(***************************************************************************)

TypeOK ==
  /\ mode \in Modes
  /\ faults \in 0..MaxFaults[mode]
  /\ shares \in [Symbols -> 0..MaxShares]
  /\ buying \in [Symbols -> 0..MaxShares]
  /\ selling \in [Symbols -> 0..MaxShares]
  /\ bought \in 0..MaxBuys[mode]
  /\ book \in [Symbols -> Entry \cup {None}]
  /\ day \in [Symbols -> {"free", "bought", "sold"}]
  /\ pc \in [Actors -> {"idle", "exits", "entries", "balance", "sync", "load", "reconcile",
                        "decide", "carry", "carrying"}]
  /\ snap \in [Actors -> [Symbols -> Entry \cup {None}]]
  /\ plan \in [Actors -> SUBSET Item]
  /\ job \in [Actors -> Job \cup {None}]
  /\ openKnown \in BOOLEAN
  /\ pending \in SUBSET Symbols /\ pendingSell \in SUBSET Symbols
  /\ heldSnap \in [Symbols -> 0..MaxShares]
  /\ strays \in [Symbols -> Nat]
  /\ partials \in [Symbols -> Nat]

\* Inside the daemon: what the account holds, or will hold, beyond what is
\* being sold has an entry, or its answer is about to be recorded; only a lost
\* or unrecorded answer, a sell beside a half-filled buy and a cancelled sell
\* let shares go astray, the purge (_sync_positions, daemon:311) never does,
\* because open orders are read before the balance.
ExposureHasEntry ==
  \A s \in Symbols : ~Apart /\ Net(s) > 0 /\ strays[s] = 0 =>
    HasEntry(s) \/ \E a \in Actors : job[a] # None /\ job[a].sym = s /\ job[a].answered

\* Inside the daemon the trader never has more entries than max_positions
\* (supertrend_auto_trader.py:438), whatever is filled, sold, purged, retried
\* or lost meanwhile.
SlotsRespected == mode = "inside" => Cardinality(Entries) <= MaxPositions

\* Everywhere: one symbol is bought once more for each lot that went astray,
\* not more often; beside another process that includes a purge that came
\* between an order and the daemon's reads.
LotsBounded ==
  \A s \in Symbols : Net(s) <= Lot * ((IF Zone THEN 2 ELSE 1) + strays[s])

\* Inside the daemon: the trader's gap take-profit and the daemon's
\* PARTIAL_TP share partial_tp_done; a position with an entry is partially
\* sold once, and once more for each fault (a lost answer, a crash before the
\* answer is recorded).
PartialOnce ==
  ~Apart => \A s \in Symbols : strays[s] = 0 => partials[s] <= 1 + faults

\* A zone strategy buys the two tranches of a symbol once a day, whatever is
\* filled, cut, sold or cancelled meanwhile; a fault (a lost answer, a restart
\* before the row of a sell is written) lets it begin once more.
BoughtOnceADay == Zone => bought <= 2 * (1 + faults) * Cardinality(Universe[mode])

\* Nothing works, and every entry shows what the account holds; inside the daemon
\* so does the quantity that the trader will sell, if nothing went astray.
Settled ==
  \A s \in Symbols :
    /\ ~Working(s)
    /\ HasEntry(s) => /\ shares[s] > 0
                      /\ book[s].qty = shares[s]
                      /\ mode = "inside" /\ strays[s] = 0 => book[s].total = shares[s]

\* Everywhere: when the orders are done the ledger comes to agree with the
\* balance: ghosts written back by a stale upsert (daemon:944, :958,
\* supertrend_auto_trader.py:1051) are purged, filled quantities are mended.
\* total_recommended_qty is mended with them and only with them, which is less
\* than the comment at daemon:794-795 asks for.  It stays too low where the
\* tranches agree with the balance all the same: after a gap partial that is
\* cancelled (a stray), and beside another process when the daemon writes a copy
\* of the previous position over the entry of a new one.
LedgerConverges == []<>Settled
=============================================================================
