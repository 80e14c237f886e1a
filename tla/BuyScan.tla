------------------------------ MODULE BuyScan -------------------------------
(***************************************************************************)
(* scripts/intraday_buy_daemon.py: how ai_swing positions come into being. *)
(* One cycle of the daemon reads the broker's open orders and its balance, *)
(* brings the position ledger in line with them (_sync_positions), sells,  *)
(* and then scans and buys (_scan_and_buy).  A buy saves a provisional     *)
(* ledger entry, sends the order through LiveOrderGate, which writes the   *)
(* ORDERED row, and then puts the real order number into the entry.        *)
(*                                                                         *)
(* The broker is external.  An answered order shows, as an open order or,  *)
(* once filled, in the balance, within ShowDelay minutes (0: before the    *)
(* next minute); one whose answer got lost does by the time its entry is   *)
(* LateDelay old.  A fill leaves the open orders and reaches the balance   *)
(* at the same moment.                                                     *)
(*                                                                         *)
(* The unit of time is the minute between two cycles.  One trading day;    *)
(* an order fills whole; a sell is a step here (SellCycle has its detail); *)
(* no other process trades these symbols.                                  *)
(***************************************************************************)
EXTENDS Integers, Sequences, FiniteSets

CONSTANTS
  Symbols,
  Slots,        \* BARRO_AI_SWING_MAX_POSITIONS
  Grace,        \* _ORDER_RECONCILE_GRACE_MIN
  Cooldown,     \* BUY_REENTRY_COOLDOWN_MIN
  ShowDelay,    \* broker: an answered order shows this late
  LateDelay,    \* broker: an order whose answer got lost shows this late
  ReadSpan,     \* longest time from reading the open orders to the last purge
  MaxBuys,      \* bound on the buys attempted
  MaxFaults     \* bound on crashes and on failing reads, writes and answers

ASSUME SymbolsAssumption == IsFiniteSet(Symbols)
ASSUME TimeAssumption ==
  /\ Slots \in Nat /\ Grace \in Nat /\ Cooldown \in Nat
  /\ ShowDelay \in Nat /\ LateDelay \in Nat /\ ReadSpan \in Nat
ASSUME BoundAssumption == MaxBuys \in Nat /\ MaxFaults \in Nat

VARIABLES
  buys,       \* every buy attempted, oldest first: broker state and audit rows
  faults,     \* failures so far
  \* what survives a crash
  book,       \* [Symbols -> ledger entry]
  sold,       \* buys whose symbol has a sell row that is not older than their entry
  unfilled,   \* buys with an UNFILLED row
  \* the daemon
  pc,
  timer,      \* minutes until the next cycle, or left to read and reconcile
  session,    \* session_bought
  pending,    \* pending_symbols
  heldSnap,   \* held_symbols
  targets,    \* buys still to make in this scan
  blind,      \* this scan could not read the audit file
  current     \* the symbol being bought

files == <<book, sold, unfilled>>
reads == <<pending, heldSnap>>
choice == <<targets, blind>>
vars == <<buys, faults, files, pc, timer, session, reads, choice, current>>

\* Ages are told apart up to here.
Horizon == IF Grace > Cooldown THEN Grace ELSE Cooldown + 1

NoRow == -1

\* intended: the provisional entry is saved.  void: never reached the broker.
\* sent, late: accepted and shown nowhere, its answer received or lost.
Stages == {"intended", "void", "sent", "late", "listed", "cancelled", "held", "sold"}

Live == {"sent", "late", "listed", "held"}
Bought == {"held", "sold"}

\* row: the age of the ORDERED row.
Buy == [sym : Symbols, stage : Stages, age : 0..Horizon,
        hidden : 0..ShowDelay, row : {NoRow} \cup 0..Horizon]

\* n: the buy the entry is about; pending: its number is still PENDING:.
Entry == [n : 0..MaxBuys, pending : BOOLEAN]
NoEntry == [n |-> 0, pending |-> FALSE]

(***************************************************************************)
(* Helpers                                                                 *)
(***************************************************************************)

Fail == faults < MaxFaults /\ faults' = faults + 1

Entries == {s \in Symbols : book[s] # NoEntry}

SymbolsOf(numbers) == {buys[n].sym : n \in numbers}

InStage(stages) == SymbolsOf({n \in 1..Len(buys) : buys[n].stage \in stages})

SetStage(n, stage) == buys' = [buys EXCEPT ![n].stage = stage, ![n].hidden = 0]

\* Faulty variant: a provisional entry is kept whatever its age.
OnHoldForEver(s) == book[s].pending

\* _sync_positions spares a provisional entry while it is young.
OnHold(s) == book[s].pending /\ buys[book[s].n].age < Grace

Missing(s) == s \in Entries /\ s \notin heldSnap

\* Faulty variant: open orders do not protect an entry.
PurgedWhilePending(s) == Missing(s) /\ ~OnHold(s)

Purged(s) == Missing(s) /\ s \notin pending /\ ~OnHold(s)

\* audit_buys: symbols with a recent ORDERED buy row.
AuditBuys == SymbolsOf({n \in 1..Len(buys) : buys[n].row \in 0..Cooldown})

\* today_sold with audit_buys; a read of the audit file that fails finds nothing.
RowsRead(unread) ==
  LET soldToday == SymbolsOf(sold)
  IN  IF unread THEN {soldToday, AuditBuys, {}} ELSE {soldToday \cup AuditBuys}

\* Faulty variant: only what this process bought counts, not the audit file.
ExcludedInMemory(rows) == InStage({"held"}) \cup Entries \cup session

\* excluded: balance, ledger, session_bought and the symbols of the rows read.
Excluded(rows) == InStage({"held"}) \cup Entries \cup session \cup rows

\* Faulty variant: provisional entries take no slot.
FreeSlotsOfConfirmed == Slots - Cardinality({s \in Entries : ~book[s].pending})

\* _ai_swing_cap_filter
FreeSlots == Slots - Cardinality(Entries)

EndCycle ==
  /\ pc' = "rest" /\ timer' = 1
  /\ targets' = {} /\ blind' = FALSE
  /\ pending' = {} /\ heldSnap' = {}

(***************************************************************************)
(* The daemon: reconciling and selling (_evaluate_and_sell)                *)
(***************************************************************************)

\* ka10075.  Without the open orders nothing is purged.
ReadOpenOrders ==
  /\ pc = "rest" /\ timer = 0
  /\ \/ pending' = InStage({"listed"}) /\ pc' = "opened" /\ UNCHANGED faults
     \/ Fail /\ pc' = "unopened" /\ UNCHANGED pending
  /\ timer' = ReadSpan
  /\ UNCHANGED <<buys, files, session, heldSnap, choice, current>>

\* kt00018, read after the open orders.  A read that fails, or a sell audit that
\* cannot be brought up to date, leaves the ledger alone and sells nothing.
ReadBalance ==
  /\ pc \in {"opened", "unopened"}
  /\ \/ /\ pc = "opened" /\ pc' = "sync"
        /\ heldSnap' = InStage({"held"})
        /\ UNCHANGED faults
     \/ pc = "unopened" /\ pc' = "scan" /\ UNCHANGED <<faults, heldSnap>>
     \/ Fail /\ pc' = "scan" /\ UNCHANGED heldSnap
  /\ UNCHANGED <<buys, files, timer, session, pending, choice, current>>

\* Faulty variant: the UNFILLED row is written whatever was sold.
PurgeAlwaysUnfilled(s) ==
  /\ pc = "sync" /\ Purged(s)
  /\ book' = [book EXCEPT ![s] = NoEntry]
  /\ unfilled' = unfilled \cup {book[s].n}
  /\ UNCHANGED <<buys, faults, sold, pc, timer, session, reads, choice, current>>

\* _sync_positions drops an entry that is neither held nor pending, and
\* _append_unfilled_audit says so unless a sell row of the symbol, not older than
\* the entry, explains it; a row that cannot be written is skipped.  A ledger
\* that cannot be written ends the selling.
Purge(s) ==
  /\ pc = "sync" /\ Purged(s)
  /\ \/ /\ book' = [book EXCEPT ![s] = NoEntry]
        /\ \/ /\ unfilled' = IF book[s].n \in sold THEN unfilled ELSE unfilled \cup {book[s].n}
              /\ UNCHANGED faults
           \/ book[s].n \notin sold /\ Fail /\ UNCHANGED unfilled
        /\ UNCHANGED pc
     \/ Fail /\ pc' = "scan" /\ UNCHANGED <<book, unfilled>>
  /\ UNCHANGED <<buys, sold, timer, session, reads, choice, current>>

Synced ==
  /\ pc = "sync" /\ \A s \in Symbols : ~Purged(s)
  /\ pc' = "sell"
  /\ UNCHANGED <<buys, faults, files, timer, session, reads, choice, current>>

\* A sell leaves its row before it is sent.
Sell(s) ==
  /\ pc = "sell" /\ s \in heldSnap \cap Entries /\ book[s].n \notin sold
  /\ sold' = sold \cup {n \in 1..Len(buys) : buys[n].sym = s}
  /\ UNCHANGED <<buys, faults, book, unfilled, pc, timer, session, reads, choice, current>>

SellsDone ==
  /\ pc = "sell"
  /\ pc' = "scan"
  /\ UNCHANGED <<buys, faults, files, timer, session, reads, choice, current>>

(***************************************************************************)
(* The daemon: buying (_scan_and_buy)                                      *)
(***************************************************************************)

\* Signals on symbols that are not excluded, cut down to the free slots.  A
\* failing read of the audit file stops nothing.
Scan ==
  /\ pc = "scan"
  /\ \/ /\ blind' \in BOOLEAN
        /\ IF blind' THEN Fail ELSE UNCHANGED faults
        /\ \E rows \in RowsRead(blind') :
             targets' \in {T \in SUBSET (Symbols \ Excluded(rows)) :
                            Cardinality(T) <= FreeSlots /\ T # {}}
        /\ pc' = "buy"
        /\ UNCHANGED <<timer, reads>>
     \/ EndCycle /\ UNCHANGED faults
  /\ UNCHANGED <<buys, files, session, current>>

\* Faulty variant: the entry is saved for the symbol that was bought before.
IntendForPrevious(s) ==
  /\ pc = "buy" /\ s \in targets /\ Len(buys) < MaxBuys
  /\ targets' = targets \ {s} /\ UNCHANGED blind
  /\ current' = s
  /\ buys' = Append(buys, [sym |-> s, stage |-> "intended", age |-> 0,
                           hidden |-> 0, row |-> NoRow])
  /\ book' = [book EXCEPT ![current] = [n |-> Len(buys) + 1, pending |-> TRUE]]
  /\ pc' = "order"
  /\ UNCHANGED <<faults, sold, unfilled, timer, session, reads>>

\* The provisional entry comes first; if it cannot be saved nothing is sent.
Intend(s) ==
  /\ pc = "buy" /\ s \in targets /\ Len(buys) < MaxBuys
  /\ targets' = targets \ {s} /\ UNCHANGED blind
  /\ current' = s
  /\ \/ /\ buys' = Append(buys, [sym |-> s, stage |-> "intended", age |-> 0,
                                 hidden |-> 0, row |-> NoRow])
        /\ book' = [book EXCEPT ![s] = [n |-> Len(buys) + 1, pending |-> TRUE]]
        /\ pc' = "order"
        /\ UNCHANGED faults
     \/ Fail /\ UNCHANGED <<buys, book, pc>>
  /\ UNCHANGED <<sold, unfilled, timer, session, reads>>

BuysDone ==
  /\ pc = "buy" /\ (targets = {} \/ Len(buys) = MaxBuys)
  /\ EndCycle
  /\ UNCHANGED <<buys, faults, files, session, current>>

\* The gate refuses before anything is sent: the entry is removed and, unless
\* the limit of orders is reached, the next buy follows.
Refuse ==
  /\ pc = "order"
  /\ SetStage(Len(buys), "void")
  /\ \/ /\ book' = [book EXCEPT ![current] = NoEntry]
        /\ \/ pc' = "buy" /\ UNCHANGED <<timer, choice, reads>>
           \/ EndCycle
        /\ UNCHANGED faults
     \/ Fail /\ EndCycle /\ UNCHANGED book
  /\ UNCHANGED <<sold, unfilled, session, current>>

\* The broker takes the order.
Accept ==
  /\ pc = "order"
  /\ SetStage(Len(buys), "sent")
  /\ pc' = "answer"
  /\ UNCHANGED <<faults, files, timer, session, reads, choice, current>>

\* The call fails; whether the broker has the order is not known, so the entry
\* stays and the scan ends.
Uncertain ==
  /\ \/ pc = "order" /\ SetStage(Len(buys), "void")
     \/ /\ pc = "answer"
        /\ IF buys[Len(buys)].stage = "sent"
           THEN SetStage(Len(buys), "late") ELSE UNCHANGED buys
  /\ Fail
  /\ EndCycle
  /\ UNCHANGED <<files, session, current>>

\* The ORDERED row, which may fail unnoticed; then the session is reserved.
Answer ==
  /\ pc = "answer"
  /\ \/ buys' = [buys EXCEPT ![Len(buys)].row = 0] /\ UNCHANGED faults
     \/ Fail /\ UNCHANGED buys
  /\ session' = session \cup {current}
  /\ pc' = "record"
  /\ UNCHANGED <<files, timer, reads, choice, current>>

\* The entry gets its order number; if that fails the scan ends.
Record ==
  /\ pc = "record"
  /\ \/ /\ book' = [book EXCEPT ![current].pending = FALSE]
        /\ pc' = "buy"
        /\ UNCHANGED <<faults, timer, choice, reads>>
     \/ Fail /\ EndCycle /\ UNCHANGED book
  /\ UNCHANGED <<buys, sold, unfilled, session, current>>

\* The process dies and is started again in the next minute at the earliest.
Crash ==
  /\ Fail
  /\ EndCycle
  /\ session' = {}
  /\ IF pc = "order" THEN SetStage(Len(buys), "void")
     ELSE IF pc = "answer" /\ buys[Len(buys)].stage = "sent"
     THEN SetStage(Len(buys), "late")
     ELSE UNCHANGED buys
  /\ UNCHANGED <<files, current>>

Daemon ==
  \/ ReadOpenOrders \/ ReadBalance \/ Synced \/ SellsDone
  \/ \E s \in Symbols : Purge(s) \/ Sell(s) \/ Intend(s)
  \/ Scan \/ BuysDone \/ Refuse \/ Accept \/ Uncertain \/ Answer \/ Record

(***************************************************************************)
(* The broker and the clock                                                *)
(***************************************************************************)

Show(n) ==
  /\ buys[n].stage \in {"sent", "late"}
  /\ \E stage \in {"listed", "held"} : SetStage(n, stage)
  /\ UNCHANGED <<faults, files, pc, timer, session, reads, choice, current>>

Fill(n) ==
  /\ buys[n].stage = "listed"
  /\ SetStage(n, "held")
  /\ UNCHANGED <<faults, files, pc, timer, session, reads, choice, current>>

\* By hand, or at the close.
Cancel(n) ==
  /\ buys[n].stage = "listed"
  /\ SetStage(n, "cancelled")
  /\ UNCHANGED <<faults, files, pc, timer, session, reads, choice, current>>

SellFills(n) ==
  /\ buys[n].stage = "held" /\ n \in sold
  /\ SetStage(n, "sold")
  /\ UNCHANGED <<faults, files, pc, timer, session, reads, choice, current>>

Broker == \E n \in 1..Len(buys) :
            Show(n) \/ Fill(n) \/ Cancel(n) \/ SellFills(n)

\* An order may stay hidden for another minute.
MayWait(b) ==
  CASE b.stage = "intended" -> FALSE
    [] b.stage = "sent" -> b.hidden < ShowDelay
    [] b.stage = "late" -> b.age < LateDelay
    [] OTHER -> TRUE

UpTo(k) == IF k < Horizon THEN k + 1 ELSE k

Older(b) ==
  [b EXCEPT !.age = UpTo(@), !.row = IF @ = NoRow THEN NoRow ELSE UpTo(@),
            !.hidden = IF b.stage = "sent" THEN @ + 1 ELSE 0]

\* A minute passes.  A request is answered, refused or lost within the minute,
\* and the reads and the purge take ReadSpan at most.
Tick ==
  /\ \A n \in 1..Len(buys) : MayWait(buys[n])
  /\ pc \in {"opened", "unopened", "sync"} => timer > 0
  /\ buys' = [n \in 1..Len(buys) |-> Older(buys[n])]
  /\ timer' = IF timer = 0 THEN 0 ELSE timer - 1
  /\ UNCHANGED <<faults, files, pc, session, reads, choice, current>>

(***************************************************************************)
(* The specification                                                       *)
(***************************************************************************)

Init ==
  /\ buys = <<>> /\ faults = 0
  /\ book = [s \in Symbols |-> NoEntry]
  /\ sold = {} /\ unfilled = {}
  /\ pc = "rest" /\ timer = 0
  /\ session = {} /\ pending = {} /\ heldSnap = {}
  /\ targets = {} /\ blind = FALSE
  /\ current \in Symbols

Next == Daemon \/ Crash \/ Broker \/ Tick

Spec == Init /\ [][Next]_vars

\* The loop runs for ever, time passes, and the broker shows what it
\* accepted.  It need not fill or cancel anything.
FairSpec ==
  /\ Spec
  /\ WF_vars(Daemon) /\ WF_vars(Tick)
  /\ WF_vars(\E n \in 1..Len(buys) : Show(n))

(***************************************************************************)
(* Properties                                                              *)
(***************************************************************************)

\* The types of the variables.
Types ==
  /\ buys \in Seq(Buy) /\ Len(buys) <= MaxBuys
  /\ faults \in 0..MaxFaults
  /\ book \in [Symbols -> Entry]
  /\ sold \subseteq 1..MaxBuys /\ unfilled \subseteq 1..MaxBuys
  /\ pc \in {"rest", "opened", "unopened", "sync", "sell", "scan", "buy",
             "order", "answer", "record"}
  /\ timer \in 0..ReadSpan + 1
  /\ session \subseteq Symbols /\ pending \subseteq Symbols
  /\ heldSnap \subseteq Symbols /\ targets \subseteq Symbols
  /\ blind \in BOOLEAN
  /\ current \in Symbols

\* The entry of a symbol is about a buy of that symbol.
EntryInv ==
  \A s \in Entries : book[s].n \in 1..Len(buys) /\ buys[book[s].n].sym = s

\* The variables have their types, and every entry is about a buy of its own
\* symbol, through provisional entries, replaced ones and failing saves
\* (intraday_buy_daemon.py l.2664-2725).
TypeOK == Types /\ EntryInv

\* Whatever the broker has accepted and the account may come to hold has its
\* ledger entry, through lost answers, crashes and failing writes: it is sold
\* by the strategy's rules and never bought a second time
\* (intraday_buy_daemon.py l.100, l.316-318, l.2664-2665).
LiveBuyHasEntry ==
  \A n \in 1..Len(buys) : buys[n].stage \in Live => book[buys[n].sym].n = n

\* A buy that the audit file calls UNFILLED was not and will not be filled
\* (_append_unfilled_audit; the profit of the day is rebuilt from it).
UnfilledHonest == \A n \in unfilled : buys[n].stage \notin Bought

\* Live orders and holdings together never exceed the slots of the strategy,
\* also while the ledger does not know what became of an order
\* (_ai_swing_cap_filter).
SlotsRespected ==
  Cardinality({n \in 1..Len(buys) : buys[n].stage \in Live}) <= Slots

\* No symbol is bought again before the cooldown of its last recorded order
\* is over, restarts in between notwithstanding, unless the scan could not
\* read the audit file (l.2052-2089).
CoolsDown ==
  [][\A s \in Symbols :
       ~blind /\ Len(buys') > Len(buys) /\ buys'[Len(buys')].sym = s
         => \A n \in 1..Len(buys) :
              buys[n].sym = s /\ buys[n].row # NoRow => buys[n].row > Cooldown]_vars

\* An entry whose order never reached the broker or was cancelled does not
\* take up a slot for ever.
DeadEntryLeaves ==
  \A s \in Symbols :
    (s \in Entries /\ buys[book[s].n].stage \in {"void", "cancelled"})
      ~> s \notin Entries

=============================================================================
