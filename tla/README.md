# BarroAiTrade: TLA+ models, checks and proofs

The programme trades Korean shares through a broker's REST interface. This directory holds TLA+ modules of its
trading core, the TLC configurations that check them on small instances, and TLAPS proofs of theorems about them for
every value of the constants. Paths below are relative to `src/`; line numbers of every definition are in
`PROJECT.json` under `map`, and what each property is meant to catch under `hazards`.

    tlc -config MCSellCycle.cfg MCSellCycle        # one run
    tlapm SellCycleProofs.tla                      # one proof module

## 1. Inventory

### How the parts fit together

The **daemon** (`scripts/intraday_buy_daemon.py`) is the main engine. Its loop (`_daemon`, l.3190-3244) runs one cycle
per interval: `_evaluate_and_sell`, then `_scan_and_buy`, then the supertrend cycle, and between 15:10 and 15:19 the
end-of-day carry. An exception that ends a cycle is logged and the next cycle starts. It keeps almost nothing in
memory between cycles; what it knows of its orders is in files that other processes open too:

| file | written by | read by | role |
|---|---|---|---|
| `active_positions.json`, `_active_positions_history/` | daemon, Telegram bot | both, web API | the position ledger and its backups |
| `order_audit.csv` | every order gate, the daemon | gates, daemon, reports | INTENT, ORDERED, FILLED, UNFILLED, FAILED, BLOCKED rows |
| `daily_gate_state.json` | order gates | order gates | the day whose loss limit has been reached |
| `policy.json` | Telegram bot, tuning | daemon | strategy parameters |

The **broker** is external: open orders (ka10075), balance (kt00018), orders, cash. It may accept a request and lose
the answer, show an accepted order late, fill it in parts or cancel it. The **Telegram bot**
(`scripts/run_telegram_bot.py`) takes commands and places orders of its own. The **automatic traders**
(`backend/core/supertrend_auto_trader.py`, `backend/core/limit_up_chase_trader.py`) run inside the daemon's cycle or as
tasks of the bot's process; they use the same ledger and the same account, and a memory of their own for one day. The
**closing-bet daemon** (`scripts/closing_bet_alert_daemon.py`) can be switched to order for itself; its positions are in
a file of its own, which the main daemon reads in order to leave them alone. The **orchestrator**
(`backend/core/orchestrator.py`), driven by the web API, is a second engine with its own executor, risk engine and
position manager, but no order leaves it: `_SUPERTREND_AUTO_TRADE` is False (l.51) and `KiwoomGateway.place_order`
always answers PENDING (`backend/core/gateway/kiwoom.py:565-577`).

### Components

| component | state | operations | what is hard | what makes it correct |
|---|---|---|---|---|
| AI-swing sell cycle | audit rows, ledger, snapshots of one cycle | reconcile, confirm, decide, intent, send, answer | lost answers, restarts, two reads that do not agree, partial fills | never sells twice or more than is held; ledger and audit agree with the account |
| AI-swing buy scan | ledger, audit rows, `session_bought` | purge, scan, provisional entry, order, record | answers lost after the order was taken, entries purged too early or never | every live buy has its entry; slots and cooldown hold |
| Live order gate | audit rows, latch file, latch in memory | preflight, send with retries, audit | several gates in several processes, check and row far apart, failing files | the daily limit is exceeded by a known amount at most; a latch lasts all day where it is asked; buys are not repeated |
| Kill switch | deque of slippages, outage start, trip | record, check, trip, reset, observe | time windows, overlapping trips | a burst always trips; a trip blocks for its whole cooldown |
| Position ledger store | one JSON file, backups | load, recover, upsert, remove | damage, crashes between disk accesses, other processes | a map with single changes that damage sets back by one save at most |
| Telegram two-step orders | tokens in memory, update offset, ledger | poll, propose, confirm, cancel | commands delivered again, dead tokens, batches that fail halfway | no command lost, no token used twice, entries leave only when sold |
| Exit rules | peak, partial flag, entry time of a position; the trader's memory of the day | judge a price, sell all or a part, keep | which rule comes first, rules that hide one another, a memory lost in a restart | no rule hides a stop; a trader does not buy back what it may not |
| Supertrend and limit-up traders | ledger entries, candles | enter, exit | share entries and account with a daemon that runs at the same time | what is held has an entry; slots hold; one partial sale; the ledger comes to agree with the balance |
| DCA and EOD carry of the daemon | ledger, audit rows of today, session | second tranche, sell at the close | retries without an intent, orders that wait for their fill | two tranches a day at most; nothing held without an entry |
| Closing-bet daemon | positions in a file of its own | alert, buy, sell, add and remove by hand | the file is rewritten in place while others read it | not modelled, see 7 |
| Orchestrator and order executor | positions, pending strategies | signal, risk check, place, fill, exits | - | sends no order; not modelled |
| Live trading flow, smart order routing | kill switch, flags | gate entries, split orders | entries blocked while exits go on | imported by no script that runs; not modelled |
| Sizing and risk rules, market session | none | pure functions | rounding, boundaries | inputs of the models |
| Broker gateway | OAuth token cache | REST calls with retries | token shared by processes | external |
| Legacy scalping engine | its own files | the predecessor of the daemon | - | its agents' scores feed one strategy; places no order; not modelled |
| News pipeline, room bus, cache, journals | queues, files | collect, publish | duplicates | outside the order path |
| Strategies, scanner, themes | indicator values | signals | numeric | inputs: any signal may occur |
| Web API, security, persistence | database rows | HTTP handlers | - | around the engine, not in it |

`PROJECT.json` lists the same components with their source files.

## 2. The models

Every module abstracts the data to what its properties tell apart: symbols are model values, prices and wording are
left out, a signal is a nondeterministic choice. Every control decision - guards, early returns, order of file writes
and requests, error paths - is kept. Failures (a read, a write or a request that fails, an answer that gets lost, a
process that dies) may happen at every step that can meet them; `MaxFaults` bounds their number. Definitions marked
*Faulty variant* are mutated forms, kept beside the definition they alter; nothing in a specification uses them.

### SellCycle - `_evaluate_and_sell` of ai_swing positions

One cycle is a path through `pc`: `idle` → (ReadOpenOrders) `balance` → (ReadBalance) `confirm` → (ConfirmSells or
SkipConfirm) `mark` → (MarkPartials) `purge` → (PurgeLedger) `backfill` → (BackfillBuys) `reconcile` →
(ReconcileLedger) `decide` → (Decide) `loop` → (WriteIntent, SendSell, AnswerOk / AnswerLost / GateRefuses) ... A
failing read leaves the path where the code returns early; steps that the code skips without the open orders are
skipped. The broker (`held`, `orders`) and the files (`attempts`, `audited`, `book`, `partialDone`, ...) survive
`Crash`, the snapshots (`pending`, `heldSnap`, `recent`, `targets`) do not. `attempts` stands for the INTENT and
ORDERED sell rows: a falling balance is attributed to them latest first, as `_append_confirmed_sell_audits` does.

Assumptions, stated in the module: DCA is off for this strategy (the default), no other process trades these symbols,
every holding starts with a ledger entry, the broker lists an accepted order within `ListDelay`, and
`ListDelay + ReadSpan <= Grace`. The last is the reason `_ORDER_RECONCILE_GRACE_MIN` exists; the instances make it an
equality, so nothing hides in a generous grace. `TornReads` says whether an order may be listed *and* partly filled
between the two reads of one cycle.

`Position` is the abstract specification: seven operations on what the account holds, what is being sold, the books and
the ledger. The refinement maps `selling` to what is left of the working sell and `books` to `audited`.

### BuyScan - `_scan_and_buy`, with the purge that races it

`buys` lists every buy ever attempted with what the broker did with it and the age of its ORDERED row; `book` is the
ledger entry of a symbol: which buy it is about and whether its number is still `PENDING:`; `sold` are the buys with a
sell row of today that is not older than their entry, to which the purge writes no UNFILLED. A buy is Intend
(provisional entry saved) → Accept / Refuse / Uncertain → Answer (ORDERED row, session mark) → Record (order number).
The cycle's purge (`Purge`) takes away entries that are neither held nor pending nor young and provisional, and writes
UNFILLED. Time is in minutes and only ages that can matter are told apart (`Horizon`). `blind` is a scan that could not
read the audit file. Fills are whole orders; one trading day.

### TraderCycle - an automatic trader and the daemon over one ledger and one account

Two actors, `trader` and `daemon`, each with its place in its cycle (`pc`), the entries it loaded (`snap`), what it
still means to send (`plan`) and the order it is sending (`job`). The daemon's cycle is `idle` → (ReadOpenOrders)
`balance` → (ReadBalance) `sync` → (SyncPositions) `load` → (LoadPositions) `reconcile` → (FillSync) `decide` →
(Decide) `exits` → orders → (DaemonScans, LimitCarry) → `idle`; the trader's is TraderLoads → orders → TraderScans →
orders → TraderEnds. One order goes through Begin or Skip (the ledger is looked at again), SendAccepted / SendRefused /
SendLost with the gate's retries, and Record, which writes the *loaded* entry back. The four values of `mode`:

| mode | who runs |
|---|---|
| `inside` | the supertrend trader as a part of the daemon's cycle (`_run_supertrend_cycle`) |
| `beside` | the supertrend trader in the bot's process, at the same time as the daemon |
| `chaser` | the limit-up trader, which exists only there and does not look at the ledger again before it sells |
| `zone` | no trader; the daemon's own zone strategies, which buy in two tranches, the second as a DCA order |

None of these positions has INTENT rows; their protection is the entry, the list of open orders and, for the zone
strategies, today's rows (`day`). An entry has two quantities: `qty` is that of the filled tranches, which FILL-SYNC
compares with the balance, `total` is `total_recommended_qty`, by which a trader sells. A gap partial lowers `total`
only; `Reconciled` sets both, but only where `qty` and the balance differ. `strays` and `partials` are history: lots
that lost their entry to a known cause, and partial sells accepted. A ledger operation is one step here; two processes
*inside* an operation are in PositionStore.

### PositionExits - when a position is given up, and bought again

One symbol over all courses of closes of a few days. `setup` says who judges (the daemon's `evaluate_holding`, the
supertrend or the limit-up trader) with which configuration; a percentage of 0 turns a rule off as in the code. Each
cycle judges the last bar once (`TraderJudges`, `DaemonJudges`) or misses it; `memory` is what the trader's process
remembers of the day, lost in `Restart`. Indicators (flips, tops, distribution bars) come as they like. `noStop` is
the switch that turns the price stop of ai_swing off (`_ai_swing_hard_sl_enabled`).

### LiveOrderGate - `place_buy` / `place_sell` of several gates

A gate is whoever may have a call under way, with its own policy: the daemon's scan, its DCA, the supertrend and the
limit-up trader, `/confirm`. One process may have several - the bot's has its two traders as tasks beside the commands
(`run_telegram_bot.py:831-837`). `Limits` and `Retries` are the policies' numbers. `Latching` are the gates whose policy
has `daily_loss_latch` (the scan's and the supertrend trader's); the others judge the loss of the moment only:
`CheckShared` and `CheckLoss`. Each gate walks `latch` → `count` → `send` → `answer` → `audit`. `buyRows` is what
`_count_today_buys` would find, `bought` what the broker really accepted, `unrecorded` those that will never have a row.
`Recreate` is the new gate of every cycle, `NewDay` midnight.

The loss latch is controlled by `DAILY_LOSS_ORDER_BLOCK_ENABLED`, which the present source sets to False for the
time being (`backend/core/risk/risk_engine.py:21`). The run sets `BlockEnabled = TRUE`, so that there is a latch to
check; the theorems hold for both values.

### KillSwitch - `KillSwitch` and `CircuitBreaker`

One action per method, plus the clock. `events` and `lastTrip` are history variables: every slippage since the last
reset and the time of the latest trip.

### PositionStore and Ledger - the position ledger on disk

`PositionStore` has one step per disk access of `ActivePositionStore`: does the file exist, read it, move a damaged one
aside, pick the latest usable backup, rewrite, back up (not atomic, so it can leave a torn backup, followed by pruning
between `KeepMin` and `KeepMax`), replace. `Settings` are the sets of processes that work at the same time: the daemon
alone, beside a reader, beside the bot, which saves too. `Ledger` is what the trading code relies on: a map that changes
one entry at a time, and `SetBack` to the map the last save replaced. The refinement maps `ledger` to `Visible`: the map
in the file, or, if there is none to be read, the one its latest usable backup would restore.

### OrderConfirm - two-step orders of the Telegram bot

Telegram keeps commands until the bot asks for later ones (`acked`); the bot's `offset`, the tokens (`store`) and the
batch being placed (`hand`) live in its memory and are lost in `Crash`. A token is the number of its batch - drawn at
random in the code, so never reused. `store.gc` has no caller and is not modelled. The five order commands, polling,
expiry and replacement are; the read-only commands are not.

## 3. Runs

| run | question | instance | result |
|---|---|---|---|
| sell_cycle | can the cycle sell too much, forget a holding or book a sale that did not happen; does a sold position leave the ledger | 1 symbol, 2 shares, 3 attempts, 4 ticks, 2 failures, fair | holds, 1.7 million states |
| sell_cycle_torn | the two reads disagree about a partly filled order | 1 symbol, 2 shares, 2 attempts, `TornReads` | **violated**, see 6 |
| buy_scan | is every live buy in the ledger, within the slots, UNFILLED only if it is, not repeated within the cooldown; do dead entries free their slot | 2 symbols, 1 slot, 3 buys, 2 failures, scans that cannot read the audit file, fair | holds, 0.9 million |
| live_order_gate | how far is the daily limit exceeded, are buys repeated, does a latched day stay closed | 3 gates: 2 with the latch, 2 orders a day and 1 retry, 1 with 1 order and neither; 2 days, 2 failures | holds, 1.7 million |
| kill_switch | trips and cooldowns | 5 ticks, threshold 3, window 2, cooldown 3, outage 2 | holds, 0.4 million |
| position_store | does the store implement Ledger through damage and crashes, beside a reader; what do two writers lose | 2 symbols; daemon alone with 3 failures, with a reader, with the bot writing too | holds, 5.8 million |
| position_store_reader_loss | a reader recovers the file while the daemon loads it | 1 writer, 1 reader, 1 damage | **violated**, see 6 |
| order_confirm | lost commands, dead tokens, batches that fail halfway | 2 chats, 2 symbols, 3 commands, 1 failure | holds, 11.7 million |
| order_confirm_sides | does /confirm do what was shown | 1 chat, 1 symbol, 2 commands | **violated**, see 6 |
| trader_cycle | do two engines over one ledger keep what they hold in it, respect slots and lots, sell one part, and converge | all four modes; lots of 2 shares, 1 position, 1 retry; buys: inside 2 (2 symbols), beside 2, chaser 1, zone 5; 1 failure inside and in zone; fair | holds, 1.5 million |
| position_exits | does a rule hide a stop, does a trader buy back what it may not | 5 closes, 3 days of 4 bars, 6 setups, 1 restart or lost answer | holds, 4.4 million |
| position_exits_lock | is the runner's floor a floor | the supertrend setup with runner | **violated**, see 6 |

**Why the bounds are enough.** Two shares are the least position that can be sold in part, three attempts the least
history in which an older row stays open behind two newer ones, and four ticks let a grace of two pass twice. Two
failures allow a failure while another is being recovered from, which is where the code's protections overlap. Two
symbols suffice where symbols share something (slots, the sell loop, one file, one batch); everything else in the code
is per symbol. Two gates and a limit of two are the least for which the count can be stale and the limit is not reached
at once; the third has a smaller limit and no latch. In trader_cycle lots of two shares can be filled and sold in parts;
two symbols are there where they compete for a position; the modes with two processes need no failure for their races,
since the other process is one; five buys let a zone strategy go through its two tranches, a failure and two more. In
position_exits the closes are one under every stop, the entry itself, one between break-even, partial and take-profit
levels each, and one at the limit of the day; the setups are the ones the reports recommend, and ai_swing once more
without its price stop, so that every rule is on in one of them; three days are one to enter, one carried and one to
hold too long. Three commands are what it takes to show a batch and confirm it twice, or to show, replace and confirm.
In KillSwitch the cooldown is longer than the window and the outage, so trips of all kinds overlap. `KeepMin = 1` and
`KeepMax = 2` make pruning happen at once. Every bound is large enough for mistakes to show: for each property of each
passing run `PROJECT.json` names a plausible mistake in the code (one of the *Faulty variant* definitions) that makes
that run fail.

**Symmetry** is used for the two equal gates in live_order_gate and for chats and symbols in order_confirm: safety only.

**Deadlock** is checked in sell_cycle, kill_switch and position_store. In the other runs the bounds on buys, days, bars,
requests and commands end a behaviour, so it is off there; trader_cycle never stops, because both loops go on, and
checks it.

**Fairness.** `WF(Daemon)` in SellCycle and BuyScan: the loop has no exit, an exception ends only the cycle, and every
request has a timeout, so each await returns or raises. `WF(Tick)` and `WF(Show)` in BuyScan: time passes, and the
broker shows what it accepted; nothing says that it fills or cancels. In TraderCycle both loops (`TraderStep`,
`DaemonStep`), the order a process is sending (`OrderStep`) and the exchange's fills are fair: its orders are market
orders, and what is not filled by the close is cancelled, so an order does not work for ever. Failures and crashes are
never fair and are
bounded, so liveness says: once failures stop for long enough, what should happen does. No user, no fill and no signal
is assumed to come.

## 4. Properties that matter most

- `NoOversell` (SellCycle): at most one sell of a symbol works at the broker and it never asks for more than is held -
  whatever is lost, late or crashed between the reads, the INTENT, the request and the answer.
- `SellsByTheBooks` (SellCycle): the cycle implements `Position`: it sells what is held, one sell at a time, and only once
  everything sold before is booked; it books no sale that did not happen (`AuditCoversHoldings`, proved and not run) and
  gives up no position that is not sold out and booked. `SoldSharesHaveARow`: it never loses the row on which a sale must
  be booked.
- `PartialOnce`, `PartialFlagHonest`: the partial take-profit, whose completion is learnt cycles later, sells once, and
  is called done only if it sold.
- `LiveBuyHasEntry`, `SlotsRespected`, `UnfilledHonest`, `CoolsDown`, `DeadEntryLeaves` (BuyScan): the same for buys:
  an entry must outlive the doubt about its order, and must not outlive the order.
- `OvershootBounded` (LiveOrderGate): what the daily limit really guarantees: the largest limit, plus one for every
  other gate, plus the orders whose row was never written. The limit itself (`live_order_gate.py:6`) is not an
  invariant: two gates that both count before either has written its row exceed it without any failure.
- `LatchHolds` (LiveOrderGate): on a latched day no gate with the latch that can read the file lets a buy pass, in
  whatever process and after whatever restart. Of the gates without it nothing is promised (section 6).
- `ExposureHasEntry`, `SlotsRespected`, `LotsBounded`, `PartialOnce`, `BoughtOnceADay`, `LedgerConverges`
  (TraderCycle): what the account holds or will hold has an entry unless a known fault led it astray; two engines that
  write stale copies of entries back neither buy nor sell a part too often, and the ledger comes to agree with the
  balance.
- `StopsHold` (PositionExits): no cycle keeps a position that it sees at or under its hard stop, whatever partial sale,
  runner, limit-up hold or cooldown applies; the exceptions of the daemon are named in it, and a position whose price
  stop the owner has turned off still ends with its maximum hold. `ReentryGuarded`: only a
  restart or a lost answer lets a trader pass its limits on buying a symbol again.
- `LosesOnlyOverlaps` (PositionStore): two processes that save without a lock undo only each other's changes that were
  saved while the undoing operation was under way.
- `BuyAcceptedOnce` (LiveOrderGate); `Blackout`, `BurstTrips` (KillSwitch), with
  `StateAgreesWithLatestTrip` and `WindowIsExact`, which are proved and not run; `KeepsPromise`, `BackupIsRecent`
  (PositionStore); `NoCommandIsLost`, `OrderedOnce`,
  `VoidTokensOrderNothing`, `UnsoldKeepsItsEntry` (OrderConfirm).

Two properties hold only under an assumption on the broker that a reader should know:

- `LiveBuyHasEntry` is checked with `ShowDelay = 0`: an order whose number came back is listed or held before the next
  minute. With `ShowDelay = 1` TLC finds it violated without any failure: the grace period of `_sync_positions` covers
  only entries still numbered `PENDING:` (`intraday_buy_daemon.py:335`), so a confirmed but not yet visible order loses
  its entry at once.
- `NoOversell` is checked and proved with `ListDelay + ReadSpan <= Grace`, which the module assumes.

## 5. Theorems

Proved by TLAPS for every value of the constants that satisfies the modules' named assumptions.

| module | theorem | property | argument |
|---|---|---|---|
| SellCycleProofs | TypeCorrect, LedgerKeepsHoldings, AuditNeverOversells | `TypeOK`, `HeldStaysInLedger`, `AuditCoversHoldings` | `IInv` below, torn reads or not |
| SellCycleProofs | NeverOversells, SalesKeepARow | `NoOversell`, `SoldSharesHaveARow` | reads that are not torn (`~TornReads`) |
| SellCycleProofs | ImplementsPosition | `SellsByTheBooks` | the same: refinement of `Position` |
| SellCycleProofs | PartialsSellOnce, FlagsAreHonest | `PartialOnce`, `PartialFlagHonest` | the same, and `PartialPct < 100` |
| KillSwitchProofs | TypeCorrect, BlackoutHolds, StateHolds, WindowHolds, BurstHolds | `TypeOK`, `Blackout`, `StateAgreesWithLatestTrip`, `WindowIsExact`, `BurstTrips` | every property of the module |
| PositionStoreProofs | TypeCorrect | `TypeOK` | any writers, readers and failures |
| PositionStoreProofs | StoreKeepsPromise, StoreBackupIsRecent, OnlyOverlapsAreLost | `KeepsPromise`, `BackupIsRecent`, `LosesOnlyOverlaps` | any processes that run together on a file that can be read, or one writer through damage (`Gentle`) |
| LiveOrderGateProofs | TypeCorrect, OvershootIsBounded, BuysAreAcceptedOnce, LatchLasts | `TypeOK`, `OvershootBounded`, `BuyAcceptedOnce`, `LatchHolds` | any finite set of gates, with or without the latch |
| PositionExitsProofs | TypeCorrect, StopsAlwaysHold, OnlyFaultsReenter | `TypeOK`, `StopsHold`, `ReentryGuarded` | any prices, days and configurations |
| BuyScanProofs | TypeCorrect, CooldownHolds | `TypeOK`, `CoolsDown` | any symbols, slots and delays |
| BuyScanProofs | LiveBuysKeepEntries, UnfilledIsHonest, SlotsAreRespected | `LiveBuyHasEntry`, `UnfilledHonest`, `SlotsRespected` | a broker that shows orders in time (`PromptBroker`) |
| TraderCycleProofs | TypeCorrect, LotsCorrect, BoughtOnceADayCorrect | `TypeOK`, `LotsBounded`, `BoughtOnceADay` | any symbols, lots and faults, in one process or two |
| TraderCycleProofs | EntriesLiveOnceCorrect | `EntriesLiveOnce` | one process: inside the daemon, or the zone strategies alone |
| TraderCycleProofs | ExposureCorrect, SlotsCorrect, PartialCorrect | `ExposureHasEntry`, `SlotsRespected`, `PartialOnce` | trader and daemon in one process, as the properties say |
| OrderConfirmProofs | TypesHold, CommandsSurvive, NoDoubleOrder, VoidTokensAreDead, LedgerFollowsSales | `TypeOK`, `NoCommandIsLost`, `OrderedOnce`, `VoidTokensOrderNothing`, `UnsoldKeepsItsEntry` | any chats, symbols and time to live |

**SellCycle.** A holding keeps its entry because the purge works on snapshots that cannot lie in the dangerous
direction. `SnapInv` says so: in a cycle that knows the open orders, a symbol that was not pending has no buy working,
and from the second read on it does not hold more than the snapshot says. That needs `BuyInv` - a buy that still works
is listed, is alone, and fits the largest position - because only a working buy can raise a holding. The audit half
(`AuditInv`) adds that a buy is confirmed only when nothing of it works any more, so holdings can only fall afterwards,
and `ConfirmBounds` that a falling balance is booked with no more than its fall. `IInv` is the conjunction with `TypeOK`
and `PcInv`; one lemma per action, the quiet steps together.

**SellCycle, the orders.** `OrderInv` follows a sell from its INTENT row to the cycle that books it. `SellOk`: a working
sell is alone, fits the account, and has the last row of its symbol, which asks for what is left and for all that is
already missing from the balance. `RowOk`: what is missing when nothing works any more is covered by that row, and the
row is open. `ReadOk` is about the two reads: a symbol that was not among the open orders either has no sell working, or
one that was too young to be listed, whose row is therefore not older than `ListDelay + ReadSpan <= Grace` when the rows
are read (`ClockInv`) - so it is passed over as recent. This is where torn reads would break the argument. `ClearOk` is
the result: whatever the loop may still sell has nothing working and nothing left to book. That one confirmation books
all that is missing (`ConfirmBooks`) rests on `AttributionEnds`: the attribution is a relation, not a recursive
operator, and once a row has taken everything the largest older row that takes a share would contradict it.

`PartialInv` adds the quantities. `BookOk`: until a sell is booked, the ledger and the audit still show what it was sized
by, and a partial take-profit asked for less than that or for one share - which is how the confirmation recognises one
on an ORDERED row, that does not carry the signal (`ConfirmFlags`). `CountOk`: once a partial take-profit has sold, the
ledger's mark, the audit or an open row knows, so `Decide` cannot offer it again. `MarkOk` and `SeenOk` say where in the
cycle ledger, audit and balance agree. `PartialPct < 100` is needed: a partial take-profit of everything that fills in
part and is then cancelled is taken for a full sale, nothing is marked, and it comes again.

**SellCycle and Position.** `Position` is the account's view of the cycle: shares, what the working sell still asks for,
the books (`audited`), and the symbols with an entry. Its guards are what the daemon has to infer from snapshots: a sell
goes out when none works *and the books show what is held*; sales are booked when nothing of them works; an entry goes
when its position is sold out *and booked*. The refinement uses `IInv` and `OrderInv`; `HeadIsClear` gives the guard of
a sell, `ConfirmSymbol` that of a booking, `SnapInv` with `NewOk` that a buy enters the books with exactly what is held,
and `BookedInv` - after a confirmation nothing that the balance no longer shows is left to book - that of giving up.

**KillSwitch.** Nothing but `Base` (types, and that the deque runs forward in time) and the properties themselves is
needed: together they are inductive. The work is in `StalePrefix`: what the `popleft` loop leaves of a sorted deque is
exactly the part inside the window, stated once as lemmas about suffixes.

**LiveOrderGate.** `Sending` is the set of gates with a buy between the count and its row, `Unsettled` those of them
whose buy has been accepted. `RowsBounded` says that the rows and the sending gates together never exceed
`MaxOrders - 1` (the largest limit) by more than the number of gates,
`BoughtCounted` says that every accepted buy is a row, unsettled or lost. A step moves one gate in or out of one of the
sets, so the proof is about cardinalities of finite sets that grow or shrink by one element. The
latch needs one fact more: a breach of today that could be saved is still in the file (`LatchSaved`). It speaks of the
gates in `Latching` only.

**PositionStore.** Refinement of `Ledger` under `ledger <- Visible`, for the settings that `Gentle` allows; the constants
of the run satisfy it. Where a lone writer meets damage, `IInv(w)` says what its memory is at each step: the visible map
from the moment it is loaded, with a usable backup of it from the backup on. Where others run beside it and the file can
always be read, `CInv` says that nothing is ever recovered (`NeverRecovered`), that readers do not get as far as saving,
and that the writer's copy is what everybody sees. Every disk access except the replacement leaves `Visible` alone, a
replacement is `Save`, damage is `SetBack`. With several writers only `OInv` is left: a copy is out of date at most where
others saved meanwhile (`StaleOnlyWhereOvertaken`). Outside `Gentle` the promise is broken: a reader that recovers a
damaged file beside the writer loses entries (section 6).

**OrderConfirm.** Three invariants beside `TypeOK` and `WorkInv` (the handler works on a fetched command). `CursorInv`:
everything before the command in hand is handled, and the offset has at most reached it. `TokenInv`: a token in the
store has ordered nothing, is void only if it has expired, and is in one chat's hands; the token being placed has left
the store for good and what is left of its batch is not ordered, but for the order awaiting its answer. `BatchInv`: the
handler's batch is the one that was issued. `OrderedOnce` alone is not inductive: without the first clause of
`TokenInv` a confirmation could place a batch again.

**PositionExits.** `StopsHold` follows from the judging action alone, by going through the rules in their order:
everything that keeps a position is shown to be false at the stop. `ReentryGuarded` needs `MemoryInv`, which relates
what the trader remembers to what happened: as long as nothing failed, the purchases of today are the remembered ones
and a loss of today is remembered as a lock; each failure can make the two differ by one day's limit.

**BuyScan.** `TypeOK` says beside the types (`Types`) that every entry is about a buy of its symbol (`EntryInv`). It is
not inductive: that the order under way is the last buy (`OrderInv`) comes with it. `CoolInv` ties the time of a
symbol's last order to the audit rows of its buys, and to what the scan has read of them. The other three properties
need `PromptBroker`: an order whose number came back is visible before the next minute (`ShowDelay = 0`), and one whose
answer was lost while its entry is still provisional and spared (`LateDelay + ReadSpan < Grace`); without it they are
false (section 4). `AgeInv` bounds the age of what is not visible yet. `ReadInv` says that the reads of a cycle miss no
live buy but one that is `Young`: its provisional entry is spared by the purge of this cycle however long the cycle
takes. `EndInv` says the same of the rows that are closed as UNFILLED. `SlotsRespected` then follows from `SlotInv` -
entries and targets together fit the slots - because live buys have different entries.

**TraderCycle.** `TypeInv` adds to the types what a phase lets an actor send (`WorkOk`, `PlaceOk`) and that nobody
holds, knows or notes more shares than were bought (`AmountsOk`), without which the types of the entries are not
inductive: a stale entry plus the lot of a second tranche must still fit. The total of an entry is bounded alike where a
trader may sell by it; an entry of a zone strategy counts its second tranche from the start. `OneInv` is what sharing
one process means: an actor has one order of a symbol in hand (`Unique`), decides from entries that are still the
ledger's (`Fresh`), and a symbol without a known working order has the balance that was read (`ReadsOk`). Two processes
keep only the first. `Flow` bounds every step by one number: what a symbol will hold (`Net`) grows by a lot when a
request is answered, and otherwise not by more than the lots that go astray in that step. On these rest four invariants.
`ExposureOk`: the purge removes an entry only when nothing is held or coming (`PurgedIsGone`, from `ReadsOk`), a
complete sell counts what it forgets as a stray. `SlotsOk` counts entries together with planned and answered buys; only
the trader's scan adds to them. `PartialOk` says that a position which can still be partially sold has used up no sale
but those of a fault; an accepted partial sell comes from such a position, because shares imply an entry (`ExposureOk`)
and the entry is not marked (`Fresh`). `LotsOk` compares `Net` with the lots that entry, day and answers account for,
and says that an order still to be sent finds room for its lot; with two processes that case analysis needs neither
`Fresh` nor `ReadsOk`, so `LotsBounded` holds there too. `BoughtOnceADay` sums over the symbols, which is avoided by
counting chances: `TranchesOk` says that what is bought, plus the number of symbols that may still begin (`CanBegin`),
plus the number that may still follow (`CanFollow`; whoever may begin may follow too), is at most what the day and its
faults allow. A symbol may begin while the day's rows do not know it, no buy of it awaits its record and its entry, if
there is one, is a ghost; it may follow while its second tranche is not bought. A step without a fault takes a symbol
out of one of the sets for each tranche it buys, so the proof is about cardinalities, and a fault gives back the two
tranches of one symbol at most. `EntriesLiveOnce` is an action property that no run has (TLC finds no violation of it on
the run's constants): in one process a stale copy never brings back an entry that was removed. It follows from `Fresh`,
and from `BuysNew`: what is to be bought has no entry, so the record of a buy never resets a position.

**Model-checked only.** Liveness under fairness, which is out of the prover's reach: `SoldOutLeavesLedger`,
`DeadEntryLeaves` and `LedgerConverges`. Every other property of a passing run is proved. No module uses a recursive
operator.

## 6. Disagreements found while modelling

1. **sell_cycle_torn** (`intraday_buy_daemon.py:757`). An order that is listed and partly filled between the read of the
   open orders and that of the balance is pending for neither. Its partial fill is booked on its INTENT and ORDERED rows
   as if it were finished, which also takes the symbol out of the recently sold ones, and the same cycle sells the rest
   while the first order works. `docs/operations/ai-swing-runbook.md:360` promises that a symbol with an open order or a
   recent intent is not sold again.
2. **position_store_reader_loss** (`active_positions.py:333`). Any process that loads a damaged file recovers it, the
   web API's readers too. Between moving the file aside and writing the restored one there is no file, and the daemon's
   load takes that for an empty ledger, which its next save makes permanent. A process that dies between those two
   accesses leaves the same state behind. The comment at l.177 rules a silent `{}` out.
3. **order_confirm_sides** (`run_telegram_bot.py:234`). `/confirm` places every order of a batch as a buy; only
   `/confirm_sell` looks at the side. After `/sell_execute`, `/confirm` with its token buys what was shown as sales,
   although `order_confirm.py:7-8` gives `/confirm` to the tokens of `/sim_execute`.

4. **position_exits_lock** (`supertrend_auto_trader.py:353`). Whether the runner is on is judged in each cycle from the
   current bar. Below the take-profit, away from the day's limit and without an opening gap it is off, and its floor is
   not looked at: a position that ran above the floor can fall back to its entry price and is kept until another rule
   ends it. `docs/04-report/features/2026-06-09-BAR-OPS-36-runner.md:37` calls `runner_profit_lock_pct` the least profit
   guaranteed once the runner has begun.

Observations without a run:

- `_trail_hit` compares `entry_time`, a string, with the time of a bar; that raises every time, so the peak is that of
  all the bars and not of those since the entry. PositionExits models it so (`TrailHit`).
- Inside the cooldown after a purchase only STOP_LOSS may bypass it (`intraday_buy_daemon.py:115`). A position whose
  peak has reached the break-even trigger gives BREAKEVEN_STOP instead, which waits, however far the price falls:
  `Masked` in `StopsHold`.
- `/confirm` (`run_telegram_bot.py:241`), the limit-up trader (l.704) and DCA have gates without the daily loss latch,
  so they may still buy on a day that another gate has latched, once the loss of the moment is within their own limit
  (`/confirm` reports a loss of 0). LiveOrderGate models it (`Latching`).
- A gap partial lowers only `total_recommended_qty` (`supertrend_auto_trader.py:1055`). When that order is cancelled,
  tranches and balance agree, `_reconcile_position_qty` returns early (`intraday_buy_daemon.py:801`) and the total stays
  too low: the trader's complete exit sells too little and removes the entry. The comment at l.794-795 gives the
  agreement of that field with the broker as the purpose of the function. Beside a trader in another process the same
  comes about without any cancelled order: FILL-SYNC may write its copy of the previous position over the entry of a
  new one, with the right tranches and the old total. `LedgerConverges` therefore demands the total only inside the
  daemon, and only where nothing went astray; it demands the tranches everywhere.
- A position of the supertrend trader that the daemon sells at a loss is not a loss to the trader: `_loss_locked` is
  set only by the trader's own sales (`OthersSell`).
- Beside a trader in another process the purge can take an entry whose order came between the daemon's reads and its
  `_sync_positions` (`strays` in `SyncPositions`).
- `eod_carry_done` is set before the carry limit runs (`intraday_buy_daemon.py:3233`); an exception in it ends it for
  the day.
- A partial take-profit of a holding without an entry has nowhere to note that it is done and comes again each cycle.
- The closing-bet daemon notes a signal in `alerted` before it sells (`closing_bet_alert_daemon.py:304`); a sale that is
  refused is therefore not repeated for that signal, although the message at l.218 announces the next attempt. It
  rewrites its file in place (l.93), and a main daemon that reads it at that moment sees no closing-bet position to
  leave alone (`intraday_buy_daemon.py:247-251`).

## 7. Not modelled

- Signals and indicators, sizing in won, budgets, entry windows: inputs; any choice they may make is allowed.
- DCA of ai_swing positions, which is off; the stages of `sl_time_stages`, the regime's changes of the policy and
  round-figure stops, which only move the numbers of PositionExits.
- `/confirm_sell` beside a cycle of the daemon: OrderConfirm and TraderCycle are not composed. The read-only commands of
  the bot and `/policy`.
- The closing-bet daemon and the scripts that are started by hand (`intraday_buy.py`, `evaluate_holdings.py`,
  `simulate_leaders.py`), which go through the same gate.
- The orchestrator's engine, from which no order leaves, and what no running script imports:
  `backend/core/execution/live_trading.py`, the smart order router, the sharded cache and the hash-chained audit log.
  KillSwitch belongs to these too: the programme's switch is modelled and proved, but only the live trading flow asks
  it.
- The legacy scalping engine, strategies, scanner, backtester, news, themes, room bus, web API, security: no order
  depends on a state that they keep.
- Pure input and output: REST payloads, CSV and JSON layout, messages, reports, journals, offline tuning.

## 8. Plan

What is left, the most important first.

1. The closing-bet daemon with its file beside the main daemon.
2. OrderConfirm composed with TraderCycle: `/confirm_sell` against a cycle of the daemon.
3. `Position` implemented by TraderCycle too, whose entries are written back from copies.
4. The pure algorithms against reference definitions: `balance_gate.py`, `exit_engine.py`, market session.
