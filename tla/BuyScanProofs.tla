--------------------------- MODULE BuyScanProofs ----------------------------
(***************************************************************************)
(* Theorems about BuyScan, for every set of symbols, number of slots and   *)
(* bound that satisfies the assumptions of the module.                     *)
(***************************************************************************)
EXTENDS BuyScan, SequenceTheorems, FiniteSetTheorems, TLAPS

(***************************************************************************)
(* Types                                                                   *)
(***************************************************************************)

\* The buy in progress is the last one, and its entry is provisional.
OrderInv ==
  /\ pc \in {"order", "answer", "record"} =>
       /\ Len(buys) > 0
       /\ buys[Len(buys)].sym = current
       /\ book[current] = [n |-> Len(buys), pending |-> TRUE]
  /\ pc = "order" => buys[Len(buys)].stage = "intended"
  /\ pc \in {"answer", "record"} => buys[Len(buys)].stage \notin {"intended", "late"}
  /\ \A n \in 1..Len(buys) : buys[n].stage = "intended" => n = Len(buys) /\ pc = "order"

TypeInv == Types /\ EntryInv /\ OrderInv

LEMMA StagedBuy ==
  ASSUME NEW b \in Buy, NEW stage \in Stages
  PROVE  LET c == [b EXCEPT !.stage = stage, !.hidden = 0]
         IN /\ c \in Buy
            /\ c.sym = b.sym /\ c.age = b.age /\ c.row = b.row /\ c.stage = stage
<1>1. 0 \in 0..ShowDelay
  BY TimeAssumption
<1> DEFINE d == [b EXCEPT !.stage = stage]
<1>2. d \in Buy /\ d.sym = b.sym /\ d.age = b.age /\ d.row = b.row /\ d.stage = stage
  BY DEF Buy
<1> HIDE DEF d
<1> DEFINE e == [d EXCEPT !.hidden = 0]
<1>3. e \in Buy /\ e.sym = d.sym /\ e.age = d.age /\ e.row = d.row /\ e.stage = d.stage
  BY <1>1, <1>2 DEF Buy
<1> QED
  BY <1>2, <1>3 DEF d

LEMMA OlderBuy ==
  ASSUME NEW b \in Buy, MayWait(b)
  PROVE  /\ Older(b) \in Buy
         /\ Older(b).sym = b.sym /\ Older(b).stage = b.stage
         /\ Older(b).age \in Nat /\ Older(b).age <= b.age + 1
<1>1. Horizon \in Nat
  BY TimeAssumption DEF Horizon
<1> DEFINE row == IF b.row = NoRow THEN NoRow ELSE UpTo(b.row)
           hidden == IF b.stage = "sent" THEN b.hidden + 1 ELSE 0
<1>2. UpTo(b.age) \in 0..Horizon /\ UpTo(b.age) <= b.age + 1
  BY <1>1 DEF UpTo, Buy
<1>3. row \in {NoRow} \cup 0..Horizon
  BY <1>1 DEF UpTo, Buy, NoRow
<1>4. hidden \in 0..ShowDelay
  BY TimeAssumption DEF MayWait, Buy
<1> DEFINE c == [b EXCEPT !.age = UpTo(b.age)]
<1>5. c \in Buy /\ c.sym = b.sym /\ c.stage = b.stage /\ c.age = UpTo(b.age)
      /\ c.row = b.row /\ c.hidden = b.hidden
  BY <1>2 DEF Buy
<1> HIDE DEF c
<1> DEFINE d == [c EXCEPT !.row = row]
<1> HIDE DEF row
<1>6. d \in Buy /\ d.sym = c.sym /\ d.stage = c.stage /\ d.age = c.age /\ d.hidden = c.hidden
  BY <1>3, <1>5 DEF Buy
<1> HIDE DEF d
<1> DEFINE e == [d EXCEPT !.hidden = hidden]
<1> HIDE DEF hidden
<1>7. e \in Buy /\ e.sym = d.sym /\ e.stage = d.stage /\ e.age = d.age
  BY <1>4, <1>6 DEF Buy
<1>8. Older(b) = e
  BY DEF Older, c, d, row, hidden
<1> QED
  BY <1>1, <1>2, <1>5, <1>6, <1>7, <1>8

\* What SetStage changes
LEMMA StageSet ==
  ASSUME buys \in Seq(Buy), NEW n \in 1..Len(buys), NEW stage \in Stages, SetStage(n, stage)
  PROVE  /\ buys' \in Seq(Buy) /\ Len(buys') = Len(buys)
         /\ \A m \in 1..Len(buys) :
              /\ buys'[m].sym = buys[m].sym
              /\ buys'[m].age = buys[m].age
              /\ buys'[m].row = buys[m].row
              /\ buys'[m].stage = IF m = n THEN stage ELSE buys[m].stage
<1>1. buys[n] \in Buy
  BY ElementOfSeq
<1> DEFINE b == [buys[n] EXCEPT !.stage = stage, !.hidden = 0]
<1>2. b \in Buy /\ b.sym = buys[n].sym /\ b.age = buys[n].age /\ b.row = buys[n].row
      /\ b.stage = stage
  BY <1>1, StagedBuy
<1>3. buys' = [buys EXCEPT ![n] = b]
  BY <1>1 DEF SetStage, Buy
<1> HIDE DEF b
<1>5. buys' \in Seq(Buy) /\ Len(buys') = Len(buys)
  BY <1>2, <1>3
<1>6. \A m \in 1..Len(buys) : buys'[m] = IF m = n THEN b ELSE buys[m]
  BY <1>3
<1> QED
  BY <1>2, <1>5, <1>6

\* What a minute changes
LEMMA Aged ==
  ASSUME Types, Tick
  PROVE  /\ buys' \in Seq(Buy) /\ Len(buys') = Len(buys)
         /\ \A m \in 1..Len(buys) :
              /\ buys'[m].sym = buys[m].sym
              /\ buys'[m].stage = buys[m].stage
              /\ buys'[m].age \in Nat
              /\ buys'[m].age <= buys[m].age + 1
              /\ MayWait(buys[m])
<1>1. buys \in Seq(Buy) /\ Len(buys) \in Nat
  BY DEF Types
<1>3. ASSUME NEW m \in 1..Len(buys)
      PROVE  /\ Older(buys[m]) \in Buy
             /\ Older(buys[m]).sym = buys[m].sym
             /\ Older(buys[m]).stage = buys[m].stage
             /\ Older(buys[m]).age \in Nat /\ Older(buys[m]).age <= buys[m].age + 1
             /\ MayWait(buys[m])
  <2>1. buys[m] \in Buy
    BY <1>1, ElementOfSeq
  <2>2. MayWait(buys[m])
    BY DEF Tick
  <2> QED
    BY <2>1, <2>2, OlderBuy
<1>4. buys' = [n \in 1..Len(buys) |-> Older(buys[n])]
  BY DEF Tick
<1>5. buys' \in [1..Len(buys) -> Buy]
  BY <1>3, <1>4
<1>6. buys' \in Seq(Buy) /\ Len(buys') = Len(buys)
  BY <1>1, <1>5, SeqDef, IsASeq, LenProperties
<1>7. \A m \in 1..Len(buys) : buys'[m] = Older(buys[m])
  BY <1>4
<1> QED
  BY <1>3, <1>6, <1>7

\* What the ORDERED row changes
LEMMA RowWritten ==
  ASSUME buys \in Seq(Buy), Len(buys) > 0, buys' = [buys EXCEPT ![Len(buys)].row = 0]
  PROVE  /\ buys' \in Seq(Buy) /\ Len(buys') = Len(buys)
         /\ \A m \in 1..Len(buys) :
              /\ buys'[m].sym = buys[m].sym
              /\ buys'[m].age = buys[m].age
              /\ buys'[m].stage = buys[m].stage
<1> DEFINE n == Len(buys)
<1>1. n \in 1..Len(buys) /\ buys[n] \in Buy
  BY ElementOfSeq
<1>2. 0 \in {NoRow} \cup 0..Horizon
  BY TimeAssumption DEF Horizon
<1> DEFINE b == [buys[n] EXCEPT !.row = 0]
<1>3. b \in Buy /\ b.sym = buys[n].sym /\ b.age = buys[n].age /\ b.stage = buys[n].stage
  BY <1>1, <1>2 DEF Buy
<1>4. buys' = [buys EXCEPT ![n] = b]
  OBVIOUS
<1> HIDE DEF b, n
<1> QED
  BY <1>1, <1>3, <1>4

LEMMA InStageSymbols ==
  ASSUME buys \in Seq(Buy), NEW stages
  PROVE  InStage(stages) \subseteq Symbols
<1>1. ASSUME NEW m \in 1..Len(buys)
      PROVE  buys[m].sym \in Symbols
  <2>1. buys[m] \in Buy
    BY ElementOfSeq
  <2> QED
    BY <2>1 DEF Buy
<1> QED
  BY <1>1 DEF InStage, SymbolsOf

LEMMA TypeInit == Init => TypeInv
<1> SUFFICES ASSUME Init PROVE TypeInv
  OBVIOUS
<1>1. NoEntry \in Entry
  BY BoundAssumption DEF NoEntry, Entry
<1>2. buys \in Seq(Buy) /\ Len(buys) = 0
  BY DEF Init
<1>3. book \in [Symbols -> Entry] /\ \A s \in Symbols : book[s] = NoEntry
  BY <1>1 DEF Init
<1>4. Types
  <2>1. Len(buys) <= MaxBuys /\ faults \in 0..MaxFaults /\ timer \in 0..ReadSpan + 1
    BY <1>2, TimeAssumption, BoundAssumption DEF Init
  <2> QED
    BY <1>2, <1>3, <2>1 DEF Init, Types
<1>5. EntryInv
  BY <1>3 DEF EntryInv, Entries
<1>6. OrderInv
  BY <1>2 DEF Init, OrderInv
<1> QED
  BY <1>4, <1>5, <1>6 DEF TypeInv

\* A step that ends the cycle or goes on, and leaves the orders and entries.
Reading ==
  \/ ReadOpenOrders \/ ReadBalance \/ Synced \/ SellsDone \/ Scan \/ BuysDone
  \/ \E s \in Symbols : Sell(s)

LEMMA ReadingKeepsTypes ==
  ASSUME TypeInv, Reading
  PROVE  /\ TypeInv' /\ UNCHANGED <<buys, book, unfilled, current>>
         /\ pc \notin {"order", "answer", "record"} /\ pc' \notin {"order", "answer", "record"}
<1> USE DEF TypeInv
<1>1. UNCHANGED <<buys, book, unfilled, current>> /\ buys \in Seq(Buy)
  BY DEF Reading, ReadOpenOrders, ReadBalance, Synced, SellsDone, Scan, BuysDone, Sell, files,
         choice, Types
<1>2. pc \notin {"order", "answer", "record"} /\ pc' \notin {"order", "answer", "record"}
  BY DEF Reading, ReadOpenOrders, ReadBalance, Synced, SellsDone, Scan, BuysDone, Sell, EndCycle
<1>3. EntryInv' /\ OrderInv'
  BY <1>1, <1>2 DEF EntryInv, Entries, OrderInv
<1>4. faults' \in 0..MaxFaults
  BY BoundAssumption
  DEF Reading, ReadOpenOrders, ReadBalance, Synced, SellsDone, Scan, BuysDone, Sell, Fail, Types
<1>5. timer' \in 0..ReadSpan + 1
  BY TimeAssumption
  DEF Reading, ReadOpenOrders, ReadBalance, Synced, SellsDone, Scan, BuysDone, Sell, EndCycle,
      Types
<1>6. pending' \subseteq Symbols /\ heldSnap' \subseteq Symbols
  BY <1>1, InStageSymbols
  DEF Reading, ReadOpenOrders, ReadBalance, Synced, SellsDone, Scan, BuysDone, Sell, EndCycle,
      Types, reads
<1>7. targets' \subseteq Symbols /\ blind' \in BOOLEAN
  <2>1. CASE Scan
    BY <2>1 DEF Scan, EndCycle
  <2>2. CASE ~Scan
    BY <2>2
    DEF Reading, ReadOpenOrders, ReadBalance, Synced, SellsDone, BuysDone, Sell, EndCycle,
        Types, choice
  <2> QED
    BY <2>1, <2>2
<1>8. sold' \subseteq 1..MaxBuys /\ session' \subseteq Symbols
  <2>1. {n \in 1..Len(buys) : TRUE} \subseteq 1..MaxBuys
    BY BoundAssumption DEF Types
  <2>2. \A s \in Symbols : {n \in 1..Len(buys) : buys[n].sym = s} \subseteq 1..MaxBuys
    BY <2>1
  <2> QED
    BY <2>2
    DEF Reading, ReadOpenOrders, ReadBalance, Synced, SellsDone, Scan, BuysDone, Sell, files,
        Types
<1>9. pc' \in {"rest", "opened", "unopened", "sync", "sell", "scan", "buy",
              "order", "answer", "record"}
  BY DEF Reading, ReadOpenOrders, ReadBalance, Synced, SellsDone, Scan, BuysDone, Sell, EndCycle,
         Types
<1>10. Types'
  BY <1>1, <1>4, <1>5, <1>6, <1>7, <1>8, <1>9 DEF Types
<1> QED
  BY <1>1, <1>2, <1>3, <1>10

\* A step on one order: where it stands afterwards
OrderMoves(n, stage) ==
  /\ n \in 1..Len(buys) /\ stage \in Stages
  /\ buys' \in Seq(Buy) /\ Len(buys') = Len(buys)
  /\ \A m \in 1..Len(buys) :
       /\ buys'[m].sym = buys[m].sym
       /\ buys'[m].age = buys[m].age
       /\ buys'[m].stage = IF m = n THEN stage ELSE buys[m].stage

LEMMA BrokerMoves ==
  ASSUME TypeInv, Broker
  PROVE  /\ UNCHANGED <<faults, files, pc, timer, session, reads, choice, current>>
         /\ \E n \in 1..Len(buys), stage \in {"listed", "held", "cancelled", "sold"} :
              /\ OrderMoves(n, stage)
              /\ stage = "held" => buys[n].stage \in {"sent", "late", "listed"}
              /\ stage = "listed" => buys[n].stage \in {"sent", "late"}
              /\ stage = "cancelled" => buys[n].stage = "listed"
              /\ stage = "sold" => buys[n].stage = "held" /\ n \in sold
<1>1. PICK n \in 1..Len(buys) : Show(n) \/ Fill(n) \/ Cancel(n) \/ SellFills(n)
  BY DEF Broker
<1>2. buys \in Seq(Buy)
  BY DEF TypeInv, Types
<1>3. PICK stage \in {"listed", "held", "cancelled", "sold"} :
          /\ SetStage(n, stage)
          /\ stage = "held" => buys[n].stage \in {"sent", "late", "listed"}
          /\ stage = "listed" => buys[n].stage \in {"sent", "late"}
          /\ stage = "cancelled" => buys[n].stage = "listed"
          /\ stage = "sold" => buys[n].stage = "held" /\ n \in sold
  BY <1>1 DEF Show, Fill, Cancel, SellFills
<1>4. stage \in Stages
  BY DEF Stages
<1>5. OrderMoves(n, stage)
  BY <1>2, <1>3, <1>4, StageSet DEF OrderMoves
<1>6. UNCHANGED <<faults, files, pc, timer, session, reads, choice, current>>
  BY <1>1 DEF Show, Fill, Cancel, SellFills
<1> QED
  BY <1>3, <1>5, <1>6

LEMMA BrokerKeepsTypes ==
  ASSUME TypeInv, Broker
  PROVE  TypeInv'
<1> USE DEF TypeInv
<1>1. PICK n \in 1..Len(buys), stage \in {"listed", "held", "cancelled", "sold"} :
          /\ OrderMoves(n, stage)
          /\ buys[n].stage \in {"sent", "late", "listed", "held"}
  BY BrokerMoves
<1>2. UNCHANGED <<faults, files, pc, timer, session, reads, choice, current>>
  BY BrokerMoves
<1>3. Types'
  BY <1>1, <1>2 DEF OrderMoves, Types, files, reads, choice
<1>4. EntryInv'
  BY <1>1, <1>2 DEF OrderMoves, EntryInv, Entries, files
<1>5. Len(buys) \in Nat
  BY DEF Types
<1>6. OrderInv'
  BY <1>1, <1>2, <1>5 DEF OrderMoves, OrderInv, files
<1> QED
  BY <1>3, <1>4, <1>6

LEMMA TickKeepsTypes ==
  ASSUME TypeInv, Tick
  PROVE  TypeInv'
<1> USE DEF TypeInv
<1>1. /\ buys' \in Seq(Buy) /\ Len(buys') = Len(buys)
      /\ \A m \in 1..Len(buys) : buys'[m].sym = buys[m].sym /\ buys'[m].stage = buys[m].stage
  BY Aged
<1>2. UNCHANGED <<faults, files, pc, session, reads, choice, current>>
  BY DEF Tick
<1>3. timer' \in 0..ReadSpan + 1
  BY TimeAssumption DEF Tick, Types
<1>4. Types'
  BY <1>1, <1>2, <1>3 DEF Types, files, reads, choice
<1>5. EntryInv'
  BY <1>1, <1>2 DEF EntryInv, Entries, files
<1>6. Len(buys) \in Nat
  BY DEF Types
<1>7. OrderInv'
  BY <1>1, <1>2, <1>6 DEF OrderInv, files
<1> QED
  BY <1>4, <1>5, <1>7

\* A buy that is intended is the new last one.
LEMMA Intended ==
  ASSUME TypeInv, NEW s \in Symbols, Intend(s), pc' = "order"
  PROVE  /\ buys' \in Seq(Buy) /\ Len(buys') = Len(buys) + 1 /\ Len(buys') <= MaxBuys
         /\ \A m \in 1..Len(buys) : buys'[m] = buys[m]
         /\ buys'[Len(buys')].sym = s /\ buys'[Len(buys')].stage = "intended"
         /\ buys'[Len(buys')].age = 0
         /\ book' = [book EXCEPT ![s] = [n |-> Len(buys'), pending |-> TRUE]]
         /\ UNCHANGED faults
<1> DEFINE b == [sym |-> s, stage |-> "intended", age |-> 0, hidden |-> 0, row |-> NoRow]
<1>1. 0 \in 0..ShowDelay /\ 0 \in 0..Horizon
  BY TimeAssumption DEF Horizon
<1>2. b \in Buy
  BY <1>1 DEF Buy, Stages
<1>3. buys \in Seq(Buy) /\ Len(buys) \in Nat
  BY DEF TypeInv, Types
<1>4. /\ buys' = Append(buys, b) /\ Len(buys) < MaxBuys /\ UNCHANGED faults
      /\ book' = [book EXCEPT ![s] = [n |-> Len(buys) + 1, pending |-> TRUE]]
  BY DEF Intend
<1>5. b.sym = s /\ b.stage = "intended" /\ b.age = 0
  OBVIOUS
<1> HIDE DEF b
<1>6. /\ buys' \in Seq(Buy) /\ Len(buys') = Len(buys) + 1
      /\ \A m \in 1..Len(buys) : buys'[m] = buys[m]
      /\ buys'[Len(buys) + 1] = b
  BY <1>2, <1>3, <1>4, AppendProperties
<1> QED
  BY <1>3, <1>4, <1>5, <1>6, BoundAssumption

LEMMA IntendKeepsTypes ==
  ASSUME TypeInv, NEW s \in Symbols, Intend(s)
  PROVE  TypeInv'
<1> USE DEF TypeInv
<1>0. /\ pc = "buy" /\ targets' \subseteq Symbols /\ current' \in Symbols
      /\ UNCHANGED <<sold, unfilled, timer, session, reads, blind>>
  BY DEF Intend, Types
<1>1. CASE pc' = "order"
  <2>1. book' \in [Symbols -> Entry]
    <3> DEFINE e == [n |-> Len(buys'), pending |-> TRUE]
    <3>1. Len(buys') \in 0..MaxBuys
      BY <1>1, Intended, BoundAssumption DEF Types
    <3>2. e \in Entry
      BY <3>1 DEF Entry
    <3>3. book' = [book EXCEPT ![s] = e]
      BY <1>1, Intended
    <3> HIDE DEF e
    <3> QED
      BY <3>2, <3>3 DEF Types
  <2>2. Types'
    BY <1>0, <1>1, <2>1, Intended DEF Types, reads
  <2>3. Len(buys) \in Nat /\ Len(buys') = Len(buys) + 1
    BY <1>1, Intended DEF Types
  <2>4. EntryInv'
    <3>1. \A x \in Symbols : book'[x] = IF x = s THEN [n |-> Len(buys'), pending |-> TRUE]
                                               ELSE book[x]
      BY <1>1, Intended DEF Types
    <3>2. \A x \in Symbols : book'[x].n \in 1..Len(buys') \/ book'[x] = NoEntry
      BY <2>3, <3>1 DEF EntryInv, Entries
    <3>3. ASSUME NEW x \in Symbols, book'[x] # NoEntry
          PROVE  buys'[book'[x].n].sym = x
      BY <1>1, <2>3, <3>1, <3>3, Intended DEF EntryInv, Entries
    <3> QED
      BY <3>2, <3>3 DEF EntryInv, Entries
  <2>5. current' = s
    BY DEF Intend
  <2>6. book'[current'] = [n |-> Len(buys'), pending |-> TRUE]
    BY <1>1, <2>5, Intended DEF Types
  <2>7. OrderInv'
    BY <1>0, <1>1, <2>3, <2>5, <2>6, Intended DEF OrderInv
  <2> QED
    BY <2>2, <2>4, <2>7
<1>2. CASE pc' # "order"
  <2>1. Fail /\ UNCHANGED <<buys, book, pc>>
    BY <1>2 DEF Intend
  <2>2. faults' \in 0..MaxFaults
    BY <2>1, BoundAssumption DEF Fail, Types
  <2>3. Types'
    BY <1>0, <2>1, <2>2 DEF Types, reads
  <2>4. EntryInv' /\ OrderInv'
    BY <1>0, <2>1 DEF EntryInv, Entries, OrderInv
  <2> QED
    BY <2>3, <2>4
<1> QED
  BY <1>1, <1>2

(***************************************************************************)
(* The steps of an order                                                   *)
(***************************************************************************)

Ordering == Refuse \/ Accept \/ Uncertain \/ Answer \/ Record \/ Crash

\* What the steps of an order, and a crash, do to the buys
LEMMA OrderingMoves ==
  ASSUME TypeInv, Ordering
  PROVE  /\ UNCHANGED <<sold, unfilled, current>>
         /\ \/ /\ buys' \in Seq(Buy) /\ Len(buys') = Len(buys)
               /\ \A m \in 1..Len(buys) :
                    /\ buys'[m].sym = buys[m].sym
                    /\ buys'[m].age = buys[m].age
                    /\ buys'[m].stage = buys[m].stage
               /\ pc = "order" => FALSE
               /\ pc' # "record" => buys' = buys
               /\ pc = "answer" /\ buys[Len(buys)].stage = "sent" => pc' = "record"
            \/ /\ OrderMoves(Len(buys), "void") /\ pc = "order"
            \/ /\ OrderMoves(Len(buys), "sent") /\ pc = "order" /\ pc' = "answer"
            \/ /\ OrderMoves(Len(buys), "late") /\ pc = "answer"
               /\ buys[Len(buys)].stage = "sent"
<1> USE DEF TypeInv
<1>1. UNCHANGED <<sold, unfilled, current>>
  BY DEF Ordering, Refuse, Accept, Uncertain, Answer, Record, Crash, files
<1>2. /\ buys \in Seq(Buy) /\ Len(buys) \in Nat
      /\ pc \in {"order", "answer", "record"} => Len(buys) > 0
  BY DEF Types, OrderInv
<1>3. ASSUME pc \in {"order", "answer"}, NEW stage \in {"void", "sent", "late"},
             SetStage(Len(buys), stage)
      PROVE  OrderMoves(Len(buys), stage)
  <2>1. Len(buys) \in 1..Len(buys) /\ stage \in Stages
    BY <1>2, <1>3 DEF Stages
  <2> QED
    BY <1>2, <1>3, <2>1, StageSet DEF OrderMoves
<1>4. CASE Refuse
  BY <1>1, <1>3, <1>4 DEF Refuse
<1>5. CASE Accept
  BY <1>1, <1>3, <1>5 DEF Accept
<1>6. CASE Uncertain
  BY <1>1, <1>2, <1>3, <1>6 DEF Uncertain, EndCycle
<1>7. CASE Answer
  <2>1. CASE buys' = [buys EXCEPT ![Len(buys)].row = 0]
    BY <1>1, <1>2, <1>7, <2>1, RowWritten DEF Answer
  <2>2. CASE UNCHANGED buys
    BY <1>1, <1>2, <1>7, <2>2 DEF Answer
  <2> QED
    BY <1>7, <2>1, <2>2 DEF Answer
<1>8. CASE Record
  BY <1>1, <1>2, <1>8 DEF Record
<1>9. CASE Crash
  BY <1>1, <1>2, <1>3, <1>9 DEF Crash, EndCycle
<1> QED
  BY <1>4, <1>5, <1>6, <1>7, <1>8, <1>9 DEF Ordering

\* What they do to the ledger
LEMMA OrderingBook ==
  ASSUME TypeInv, Ordering
  PROVE  \/ UNCHANGED book
         \/ Refuse /\ pc = "order" /\ book' = [book EXCEPT ![current] = NoEntry]
         \/ Record /\ pc = "record" /\ book' = [book EXCEPT ![current].pending = FALSE]
BY DEF Ordering, Refuse, Accept, Uncertain, Answer, Record, Crash, files

LEMMA OrderingKeepsTypes ==
  ASSUME TypeInv, Ordering
  PROVE  TypeInv'
<1> USE DEF TypeInv
<1>1. /\ UNCHANGED <<sold, unfilled, current>>
      /\ buys' \in Seq(Buy) /\ Len(buys') = Len(buys)
      /\ \A m \in 1..Len(buys) : buys'[m].sym = buys[m].sym
  BY OrderingMoves DEF OrderMoves
<1>2. book' \in [Symbols -> Entry] /\ \A s \in Symbols : book'[s].n \in {0, book[s].n}
  <2>1. NoEntry \in Entry /\ NoEntry.n = 0
    BY BoundAssumption DEF NoEntry, Entry
  <2>2. ASSUME NEW e \in Entry
        PROVE  [e EXCEPT !.pending = FALSE] \in Entry /\ [e EXCEPT !.pending = FALSE].n = e.n
    BY DEF Entry
  <2>3. book \in [Symbols -> Entry] /\ current \in Symbols
    BY DEF Types
  <2>4. CASE book' = [book EXCEPT ![current].pending = FALSE]
    <3> DEFINE e == [book[current] EXCEPT !.pending = FALSE]
    <3>1. e \in Entry /\ e.n = book[current].n
      BY <2>2, <2>3
    <3>2. book' = [book EXCEPT ![current] = e]
      BY <2>4
    <3> HIDE DEF e
    <3> QED
      BY <2>3, <3>1, <3>2
  <2>5. CASE book' = [book EXCEPT ![current] = NoEntry]
    <3> HIDE DEF NoEntry
    <3> QED
      BY <2>1, <2>3, <2>5
  <2> QED
    BY <2>3, <2>4, <2>5, OrderingBook
<1>3. faults' \in 0..MaxFaults
  BY BoundAssumption DEF Ordering, Refuse, Accept, Uncertain, Answer, Record, Crash, Fail, Types
<1>4. timer' \in 0..ReadSpan + 1
  BY TimeAssumption
  DEF Ordering, Refuse, Accept, Uncertain, Answer, Record, Crash, EndCycle, Types
<1>5. /\ pending' \subseteq Symbols /\ heldSnap' \subseteq Symbols
      /\ targets' \subseteq Symbols /\ blind' \in BOOLEAN /\ session' \subseteq Symbols
  BY DEF Ordering, Refuse, Accept, Uncertain, Answer, Record, Crash, EndCycle, Types, reads, choice
<1>6. pc' \in {"rest", "opened", "unopened", "sync", "sell", "scan", "buy",
              "order", "answer", "record"}
  BY DEF Ordering, Refuse, Accept, Uncertain, Answer, Record, Crash, EndCycle, Types
<1>7. Types'
  BY <1>1, <1>2, <1>3, <1>4, <1>5, <1>6 DEF Types
<1>8. EntryInv'
  <2> SUFFICES ASSUME NEW s \in Symbols, book'[s] # NoEntry
               PROVE  book'[s].n \in 1..Len(buys') /\ buys'[book'[s].n].sym = s
    BY DEF EntryInv, Entries
  <2>1. book[s] # NoEntry /\ book'[s].n = book[s].n
    <3>1. NoEntry.n = 0
      BY DEF NoEntry
    <3>2. CASE book' = [book EXCEPT ![current] = NoEntry]
      BY <3>2 DEF Types
    <3>3. CASE pc = "record" /\ book' = [book EXCEPT ![current].pending = FALSE]
      <4>1. book[current].n = Len(buys) /\ Len(buys) \in Nat /\ Len(buys) > 0
        BY <3>3 DEF OrderInv, Types
      <4>2. book'[s].n = book[s].n
        BY <3>3 DEF Types, Entry
      <4>3. s # current => book'[s] = book[s]
        BY <3>3 DEF Types
      <4> QED
        BY <3>1, <4>1, <4>2, <4>3
    <3> QED
      BY <3>2, <3>3, OrderingBook
  <2>2. book[s].n \in 1..Len(buys) /\ buys[book[s].n].sym = s
    BY <2>1 DEF EntryInv, Entries
  <2> QED
    BY <1>1, <2>1, <2>2
<1>9. OrderInv'
  <2>1. Len(buys) \in Nat /\ current \in Symbols
    BY DEF Types
  <2>2. pc' \in {"order", "answer", "record"} =>
          /\ pc \in {"order", "answer"} /\ pc' \in {"answer", "record"} /\ UNCHANGED book
    BY DEF Ordering, Refuse, Accept, Uncertain, Answer, Record, Crash, EndCycle, files
  <2>3. pc' \in {"answer", "record"} => buys'[Len(buys)].stage \notin {"intended", "late"}
    <3>1. Accept => buys'[Len(buys)].stage \notin {"intended", "late"}
      BY <2>1, OrderingMoves DEF Accept, OrderMoves, OrderInv
    <3>2. ASSUME Answer
          PROVE  buys'[Len(buys)].stage \notin {"intended", "late"}
      <4>1. /\ buys \in Seq(Buy) /\ Len(buys) > 0
            /\ buys[Len(buys)].stage \notin {"intended", "late"}
        BY <3>2 DEF Answer, OrderInv, Types
      <4>2. CASE buys' = [buys EXCEPT ![Len(buys)].row = 0]
        <5>1. buys'[Len(buys)].stage = buys[Len(buys)].stage
          BY <2>1, <4>1, <4>2, RowWritten
        <5> QED
          BY <4>1, <5>1
      <4>3. CASE UNCHANGED buys
        BY <4>1, <4>3
      <4> QED
        BY <3>2, <4>2, <4>3 DEF Answer
    <3>3. pc' \in {"answer", "record"} => Accept \/ Answer
      BY DEF Ordering, Refuse, Uncertain, Record, Crash, EndCycle
    <3> HIDE DEF Ordering
    <3> QED
      BY <3>1, <3>2, <3>3
  <2>4. \A n \in 1..Len(buys) : buys'[n].stage # "intended"
    BY <2>1, OrderingMoves DEF OrderMoves, OrderInv
  <2> QED
    BY <1>1, <2>1, <2>2, <2>3, <2>4 DEF OrderInv
<1> QED
  BY <1>7, <1>8, <1>9

LEMMA PurgeKeepsTypes ==
  ASSUME TypeInv, NEW s \in Symbols, Purge(s)
  PROVE  TypeInv'
<1> USE DEF TypeInv
<1>1. UNCHANGED <<buys, sold, timer, session, reads, choice, current>>
  BY DEF Purge
<1>2. book' = book \/ book' = [book EXCEPT ![s] = NoEntry]
  BY DEF Purge
<1>3. NoEntry \in Entry
  BY BoundAssumption DEF NoEntry, Entry
<1>4. book' \in [Symbols -> Entry] /\ \A x \in Symbols : book'[x] \in {book[x], NoEntry}
  <2> HIDE DEF NoEntry
  <2> QED
    BY <1>2, <1>3 DEF Types
<1>5. unfilled' \subseteq 1..MaxBuys
  <2>1. book[s].n \in 1..Len(buys) /\ Len(buys) <= MaxBuys /\ Len(buys) \in Nat
    BY DEF Purge, Purged, Missing, Entries, EntryInv, Types
  <2>2. book[s].n \in 1..MaxBuys
    BY <2>1, BoundAssumption
  <2>3. unfilled' \subseteq unfilled \cup {book[s].n}
    BY DEF Purge
  <2> QED
    BY <2>2, <2>3 DEF Types
<1>6. faults' \in 0..MaxFaults /\ pc' \in {"sync", "scan"} /\ pc = "sync"
  BY BoundAssumption DEF Purge, Fail, Types
<1>7. Types'
  BY <1>1, <1>4, <1>5, <1>6 DEF Types, reads, choice
<1>8. EntryInv' /\ OrderInv'
  BY <1>1, <1>4, <1>6 DEF EntryInv, Entries, OrderInv
<1> QED
  BY <1>7, <1>8

LEMMA TypeStep ==
  ASSUME TypeInv, [Next]_vars
  PROVE  TypeInv'
<1>1. CASE UNCHANGED vars
  BY <1>1 DEF vars, files, reads, choice, TypeInv, Types, EntryInv, Entries, OrderInv
<1>2. CASE Next
  <2>1. \/ Reading \/ Ordering \/ Broker \/ Tick
        \/ \E s \in Symbols : Purge(s) \/ Intend(s)
    BY <1>2 DEF Next, Daemon, Reading, Ordering
  <2> QED
    BY <2>1, ReadingKeepsTypes, OrderingKeepsTypes, BrokerKeepsTypes, TickKeepsTypes,
       PurgeKeepsTypes, IntendKeepsTypes
<1> QED
  BY <1>1, <1>2

\* Every state of the specification has the declared types.
THEOREM TypeCorrect == Spec => []TypeOK
<1>1. Spec => []TypeInv
  BY TypeInit, TypeStep, PTL DEF Spec
<1>2. TypeInv => TypeOK
  BY DEF TypeInv, TypeOK
<1> QED
  BY <1>1, <1>2, PTL

(***************************************************************************)
(* The slots                                                               *)
(***************************************************************************)

\* What is about to be bought has no entry and, with the entries, fits.
SlotInv ==
  /\ targets \cap Entries = {}
  /\ Cardinality(Entries) + Cardinality(targets) <= Slots

LEMMA SetOfSymbols ==
  ASSUME NEW S, S \subseteq Symbols
  PROVE  IsFiniteSet(S) /\ Cardinality(S) \in Nat
BY SymbolsAssumption, FS_Subset, FS_CardinalityType

LEMMA SmallerFits ==
  ASSUME NEW E, NEW T, E \subseteq Symbols, T \subseteq Symbols,
         NEW E2, NEW T2, E2 \subseteq E, T2 \subseteq T,
         Cardinality(E) + Cardinality(T) <= Slots
  PROVE  Cardinality(E2) + Cardinality(T2) <= Slots
<1>1. Cardinality(E2) <= Cardinality(E) /\ Cardinality(T2) <= Cardinality(T)
  BY SetOfSymbols, FS_Subset
<1>2. /\ Cardinality(E) \in Nat /\ Cardinality(T) \in Nat
      /\ Cardinality(E2) \in Nat /\ Cardinality(T2) \in Nat
  BY SetOfSymbols
<1> QED
  BY <1>1, <1>2, TimeAssumption

LEMMA OneMoves ==
  ASSUME NEW E, NEW T, E \subseteq Symbols, T \subseteq Symbols,
         NEW s \in T, s \notin E, Cardinality(E) + Cardinality(T) <= Slots
  PROVE  Cardinality(E \cup {s}) + Cardinality(T \ {s}) <= Slots
<1>1. Cardinality(E \cup {s}) = Cardinality(E) + 1
  BY SetOfSymbols, FS_AddElement
<1>2. Cardinality(T \ {s}) = Cardinality(T) - 1
  BY SetOfSymbols, FS_RemoveElement
<1>3. Cardinality(E) \in Nat /\ Cardinality(T) \in Nat
  BY SetOfSymbols
<1> QED
  BY <1>1, <1>2, <1>3, TimeAssumption

LEMMA SlotsShrink ==
  ASSUME TypeInv, SlotInv, Entries' \subseteq Entries, targets' \subseteq targets
  PROVE  SlotInv'
<1>1. Entries \subseteq Symbols /\ targets \subseteq Symbols
  BY DEF Entries, TypeInv, Types
<1>2. Cardinality(Entries') + Cardinality(targets') <= Slots
  BY <1>1, SmallerFits DEF SlotInv
<1> QED
  BY <1>2 DEF SlotInv

\* Only an order that is begun adds an entry.
LEMMA EntriesShrink ==
  ASSUME TypeInv, UNCHANGED book \/ Ordering \/ \E s \in Symbols : Purge(s)
  PROVE  Entries' \subseteq Entries
<1> USE DEF TypeInv
<1>1. CASE UNCHANGED book
  BY <1>1 DEF Entries
<1>2. CASE Ordering
  <2>1. CASE book' = [book EXCEPT ![current] = NoEntry]
    BY <2>1 DEF Entries, Types
  <2>2. CASE pc = "record" /\ book' = [book EXCEPT ![current].pending = FALSE]
    <3>1. current \in Entries
      <4>1. book[current].n = Len(buys) /\ Len(buys) \in Nat /\ Len(buys) > 0
        BY <2>2 DEF OrderInv, Types
      <4> QED
        BY <4>1 DEF Entries, NoEntry, Types
    <3>2. \A s \in Symbols : s # current => book'[s] = book[s]
      BY <2>2 DEF Types
    <3> QED
      BY <3>1, <3>2 DEF Entries
  <2> QED
    BY <1>1, <1>2, <2>1, <2>2, OrderingBook
<1>3. CASE \E s \in Symbols : Purge(s)
  BY <1>3 DEF Purge, Entries, Types
<1> QED
  BY <1>1, <1>2, <1>3

LEMMA SlotInit == Init => SlotInv
<1> SUFFICES ASSUME Init PROVE SlotInv
  OBVIOUS
<1>1. Entries = {} /\ targets = {}
  BY DEF Init, Entries
<1> QED
  BY <1>1, FS_EmptySet, TimeAssumption DEF SlotInv

LEMMA ScanKeepsSlots ==
  ASSUME TypeInv, SlotInv, Scan
  PROVE  SlotInv'
<1>1. UNCHANGED book /\ Entries' = Entries
  BY DEF Scan, files, Entries
<1>2. CASE targets' = {}
  BY <1>1, <1>2, SlotsShrink
<1>3. CASE targets' # {}
  <2>1. PICK rows : /\ targets' \subseteq Symbols \ Excluded(rows)
                    /\ Cardinality(targets') <= FreeSlots
    BY <1>3 DEF Scan, EndCycle
  <2>2. targets' \subseteq Symbols /\ targets' \cap Entries = {}
    BY <2>1 DEF Excluded
  <2>3. Cardinality(Entries) \in Nat /\ Cardinality(targets') \in Nat
    BY <2>2, SetOfSymbols DEF Entries
  <2>4. Cardinality(Entries) + Cardinality(targets') <= Slots
    BY <2>1, <2>3, TimeAssumption DEF FreeSlots
  <2> QED
    BY <1>1, <2>2, <2>4 DEF SlotInv
<1> QED
  BY <1>2, <1>3

LEMMA IntendKeepsSlots ==
  ASSUME TypeInv, SlotInv, NEW s \in Symbols, Intend(s)
  PROVE  SlotInv'
<1> USE DEF TypeInv
<1>1. targets' = targets \ {s} /\ s \in targets /\ targets \subseteq Symbols /\ Entries \subseteq Symbols
  BY DEF Intend, Types, Entries
<1>2. CASE pc' = "order"
  <2>1. Len(buys') # 0 /\ book' = [book EXCEPT ![s] = [n |-> Len(buys'), pending |-> TRUE]]
    BY <1>2, Intended DEF Types
  <2>2. Entries' = Entries \cup {s}
    BY <2>1 DEF Entries, NoEntry, Types
  <2>3. s \notin Entries
    BY <1>1 DEF SlotInv
  <2>4. Cardinality(Entries') + Cardinality(targets') <= Slots
    BY <1>1, <2>2, <2>3, OneMoves DEF SlotInv
  <2> QED
    BY <1>1, <2>2, <2>4 DEF SlotInv
<1>3. CASE pc' # "order"
  <2>1. UNCHANGED book
    BY <1>3 DEF Intend
  <2> QED
    BY <1>1, <2>1, EntriesShrink, SlotsShrink
<1> QED
  BY <1>2, <1>3

LEMMA SlotStep ==
  ASSUME TypeInv, SlotInv, [Next]_vars
  PROVE  SlotInv'
<1>1. CASE Scan
  BY <1>1, ScanKeepsSlots
<1>2. CASE \E s \in Symbols : Intend(s)
  BY <1>2, IntendKeepsSlots
<1>3. CASE ~Scan /\ ~\E s \in Symbols : Intend(s)
  <2>1. \/ Reading \/ Ordering \/ Broker \/ Tick \/ UNCHANGED vars
        \/ \E s \in Symbols : Purge(s)
    BY <1>3 DEF Next, Daemon, Reading, Ordering
  <2>2. UNCHANGED book \/ Ordering \/ \E s \in Symbols : Purge(s)
    BY <2>1, ReadingKeepsTypes, BrokerMoves DEF Tick, files, vars
  <2>3. targets' \subseteq targets
    <3>1. CASE Reading
      BY <1>3, <3>1
      DEF Reading, ReadOpenOrders, ReadBalance, Synced, SellsDone, BuysDone, Sell, EndCycle, choice
    <3>2. CASE Ordering
      BY <3>2 DEF Ordering, Refuse, Accept, Uncertain, Answer, Record, Crash, EndCycle, choice
    <3>3. CASE Broker \/ Tick \/ UNCHANGED vars \/ \E s \in Symbols : Purge(s)
      BY <3>3, BrokerMoves DEF Tick, vars, Purge, choice
    <3> QED
      BY <2>1, <3>1, <3>2, <3>3
  <2> QED
    BY <2>2, <2>3, EntriesShrink, SlotsShrink
<1> QED
  BY <1>1, <1>2, <1>3

(***************************************************************************)
(* The cooldown                                                            *)
(***************************************************************************)

\* What a scan that could read the audit file chose stays out of its cooldown.
CoolInv ==
  ~blind => \A n \in 1..Len(buys) :
              buys[n].sym \in targets => buys[n].row \notin 0..Cooldown

\* Rows and choice stay: no buy of a target gets a recent row.
LEMMA ChoiceStaysCool ==
  ASSUME CoolInv, targets' \subseteq targets, blind' = blind \/ targets' = {},
         Len(buys') = Len(buys),
         \A n \in 1..Len(buys) : /\ buys'[n].sym = buys[n].sym
                                 /\ \/ buys'[n].row = buys[n].row
                                    \/ buys[n].sym \notin targets
  PROVE  CoolInv'
BY DEF CoolInv

LEMMA ScanCools ==
  ASSUME TypeInv, Scan
  PROVE  CoolInv'
<1>1. UNCHANGED buys
  BY DEF Scan
<1>2. CASE targets' = {}
  BY <1>2 DEF CoolInv
<1>3. CASE targets' # {} /\ ~blind'
  <2>1. targets' \cap AuditBuys = {}
    BY <1>3 DEF Scan, EndCycle, RowsRead, Excluded
  <2> QED
    BY <1>1, <2>1 DEF CoolInv, AuditBuys, SymbolsOf
<1> QED
  BY <1>2, <1>3 DEF CoolInv

LEMMA TickCools ==
  ASSUME TypeInv, CoolInv, Tick
  PROVE  CoolInv'
<1>1. buys \in Seq(Buy) /\ Len(buys) \in Nat /\ UNCHANGED choice
  BY DEF TypeInv, Types, Tick
<1>2. buys' = [n \in 1..Len(buys) |-> Older(buys[n])]
  BY DEF Tick
<1>3. Len(buys') = Len(buys)
  BY Aged DEF TypeInv
<1>4. ASSUME NEW n \in 1..Len(buys), buys[n].row \notin 0..Cooldown
      PROVE  buys'[n].row \notin 0..Cooldown
  <2>1. buys[n] \in Buy
    BY <1>1, ElementOfSeq
  <2> DEFINE row == buys[n].row
             aged == IF row = NoRow THEN NoRow ELSE UpTo(row)
  <2>2. row \in {NoRow} \cup 0..Horizon
    BY <2>1 DEF Buy
  <2>3. buys'[n].row = aged
    BY <1>2, <2>1 DEF Older, Buy
  <2>4. Horizon \in Nat /\ Cooldown \in Nat /\ Horizon > Cooldown
    BY TimeAssumption DEF Horizon
  <2>5. aged \notin 0..Cooldown
    BY <1>4, <2>2, <2>4 DEF UpTo, NoRow
  <2> QED
    BY <2>3, <2>5
<1>5. \A n \in 1..Len(buys) : buys'[n].sym = buys[n].sym
  BY Aged DEF TypeInv
<1> QED
  BY <1>1, <1>3, <1>4, <1>5 DEF CoolInv, choice

LEMMA OrderingCools ==
  ASSUME TypeInv, SlotInv, CoolInv, Ordering
  PROVE  CoolInv'
<1> USE DEF TypeInv
<1>1. targets' \subseteq targets /\ (blind' = blind \/ targets' = {})
  BY DEF Ordering, Refuse, Accept, Uncertain, Answer, Record, Crash, EndCycle, choice
<1>2. buys \in Seq(Buy) /\ Len(buys) \in Nat
  BY DEF Types
<1>3. CASE Answer
  <2>1. Len(buys) > 0 /\ buys[Len(buys)].sym = current /\ current \in Symbols
        /\ book[current].n = Len(buys)
    BY <1>3 DEF Answer, OrderInv, Types
  <2>2. current \notin targets
    BY <1>2, <2>1 DEF SlotInv, Entries, NoEntry
  <2>3. /\ Len(buys') = Len(buys)
        /\ \A n \in 1..Len(buys) : buys'[n].sym = buys[n].sym
    BY OrderingMoves DEF OrderMoves
  <2>4. \A n \in 1..Len(buys) : n # Len(buys) => buys'[n] = buys[n]
    BY <1>2, <1>3 DEF Answer
  <2> QED
    BY <1>1, <2>1, <2>2, <2>3, <2>4, ChoiceStaysCool
<1>4. CASE ~Answer
  <2>1. UNCHANGED buys \/ \E stage \in Stages : SetStage(Len(buys), stage) /\ Len(buys) > 0
    BY <1>2, <1>4 DEF Ordering, Refuse, Accept, Uncertain, Record, Crash, OrderInv, Stages
  <2>2. /\ Len(buys') = Len(buys)
        /\ \A n \in 1..Len(buys) : buys'[n].sym = buys[n].sym /\ buys'[n].row = buys[n].row
    <3>1. CASE UNCHANGED buys
      BY <3>1
    <3>2. ASSUME NEW stage \in Stages, SetStage(Len(buys), stage), Len(buys) > 0
          PROVE  /\ Len(buys') = Len(buys)
                 /\ \A n \in 1..Len(buys) :
                      buys'[n].sym = buys[n].sym /\ buys'[n].row = buys[n].row
      BY <1>2, <3>2, StageSet
    <3> QED
      BY <2>1, <3>1, <3>2
  <2> QED
    BY <1>1, <2>2, ChoiceStaysCool
<1> QED
  BY <1>3, <1>4

LEMMA BrokerCools ==
  ASSUME TypeInv, CoolInv, Broker
  PROVE  CoolInv'
<1>1. UNCHANGED choice
  BY BrokerMoves
<1>2. buys \in Seq(Buy)
  BY DEF TypeInv, Types
<1>3. PICK n \in 1..Len(buys), stage \in Stages : SetStage(n, stage)
  BY DEF Broker, Show, Fill, Cancel, SellFills, Stages
<1>4. /\ Len(buys') = Len(buys)
      /\ \A m \in 1..Len(buys) : buys'[m].sym = buys[m].sym /\ buys'[m].row = buys[m].row
  BY <1>2, <1>3, StageSet
<1> QED
  BY <1>1, <1>4, ChoiceStaysCool DEF choice

LEMMA IntendCools ==
  ASSUME TypeInv, CoolInv, NEW s \in Symbols, Intend(s)
  PROVE  CoolInv'
<1>1. targets' \subseteq targets /\ blind' = blind
  BY DEF Intend
<1>2. CASE pc' # "order"
  BY <1>1, <1>2, ChoiceStaysCool DEF Intend
<1>3. CASE pc' = "order"
  <2> DEFINE b == [sym |-> s, stage |-> "intended", age |-> 0, hidden |-> 0, row |-> NoRow]
  <2>1. buys \in Seq(Buy) /\ Len(buys) \in Nat
    BY DEF TypeInv, Types
  <2>2. Len(buys') = Len(buys) + 1 /\ \A n \in 1..Len(buys) : buys'[n] = buys[n]
    BY <1>3, Intended
  <2>3. buys' = Append(buys, b)
    BY <1>3 DEF Intend, TypeInv, OrderInv, Types
  <2>4. buys'[Len(buys) + 1] = b
    BY <2>1, <2>3
  <2>5. b.row \notin 0..Cooldown
    BY TimeAssumption DEF NoRow
  <2> HIDE DEF b
  <2>6. ASSUME NEW n \in 1..Len(buys')
        PROVE  buys'[n] = b \/ n \in 1..Len(buys)
    BY <2>1, <2>2, <2>4
  <2> QED
    BY <1>1, <2>2, <2>5, <2>6 DEF CoolInv
<1> QED
  BY <1>2, <1>3

LEMMA CoolStep ==
  ASSUME TypeInv, SlotInv, CoolInv, [Next]_vars
  PROVE  CoolInv'
<1>1. CASE Reading /\ ~Scan
  <2>1. /\ UNCHANGED buys
        /\ targets' \subseteq targets /\ (blind' = blind \/ targets' = {})
    BY <1>1
    DEF Reading, ReadOpenOrders, ReadBalance, Synced, SellsDone, BuysDone, Sell, EndCycle, choice
  <2> QED
    BY <2>1, ChoiceStaysCool
<1>2. CASE UNCHANGED vars \/ \E s \in Symbols : Purge(s)
  BY <1>2, ChoiceStaysCool DEF vars, choice, Purge
<1>3. \/ Scan \/ Reading \/ Ordering \/ Broker \/ Tick \/ UNCHANGED vars
      \/ \E s \in Symbols : Purge(s) \/ Intend(s)
  BY DEF Next, Daemon, Reading, Ordering
<1> QED
  BY <1>1, <1>2, <1>3, ScanCools, OrderingCools, BrokerCools, TickCools, IntendCools

\* No symbol is bought again before the cooldown of its last recorded order
\* is over, unless the scan could not read the audit file.
THEOREM CooldownHolds == Spec => CoolsDown
<1> DEFINE IInv == TypeInv /\ SlotInv /\ CoolInv
           Cool == \A s \in Symbols :
             ~blind /\ Len(buys') > Len(buys) /\ buys'[Len(buys')].sym = s
               => \A n \in 1..Len(buys) :
                    buys[n].sym = s /\ buys[n].row # NoRow => buys[n].row > Cooldown
<1>1. Init => IInv
  <2>1. Init => CoolInv
    BY DEF Init, CoolInv
  <2> QED
    BY <2>1, TypeInit, SlotInit
<1>2. IInv /\ [Next]_vars => IInv'
  BY TypeStep, SlotStep, CoolStep
<1>3. ASSUME IInv, [Next]_vars
      PROVE  [Cool]_vars
  <2>1. buys \in Seq(Buy) /\ Len(buys) \in Nat
    BY <1>3 DEF TypeInv, Types
  <2>2. CASE Len(buys') > Len(buys)
    <3>1. PICK s \in Symbols : Intend(s) /\ pc' = "order"
      <4>1. ~(Reading \/ Ordering \/ Broker \/ Tick \/ UNCHANGED vars)
        BY <1>3, <2>1, <2>2, ReadingKeepsTypes, OrderingMoves, BrokerMoves, Aged
        DEF OrderMoves, TypeInv, vars
      <4>2. ~\E s \in Symbols : Purge(s)
        BY <2>1, <2>2 DEF Purge
      <4>3. \E s \in Symbols : Intend(s)
        BY <1>3, <4>1, <4>2 DEF Next, Daemon, Reading, Ordering
      <4> QED
        BY <2>1, <2>2, <4>3 DEF Intend
    <3>2. s \in targets /\ buys'[Len(buys')].sym = s
      BY <1>3, <3>1, Intended DEF Intend
    <3>3. ASSUME ~blind, NEW n \in 1..Len(buys), buys[n].sym = s, buys[n].row # NoRow
          PROVE  buys[n].row > Cooldown
      <4>1. buys[n] \in Buy
        BY <2>1, ElementOfSeq
      <4>2. buys[n].row \in 0..Horizon /\ buys[n].row \notin 0..Cooldown
        BY <1>3, <3>2, <3>3, <4>1 DEF CoolInv, Buy
      <4> QED
        BY <4>2, TimeAssumption DEF Horizon
    <3> QED
      BY <3>2, <3>3
  <2> QED
    BY <2>2
<1> HIDE DEF IInv, Cool
<1>4. Spec => [][Cool]_vars
  BY <1>1, <1>2, <1>3, PTL DEF Spec
<1> QED
  BY <1>4 DEF Cool, CoolsDown

(***************************************************************************)
(* Live buys and their entries                                             *)
(***************************************************************************)

\* What the broker has to keep to: an answered order shows before the next
\* minute, and one whose answer got lost while its entry is still spared.
PromptBroker == ShowDelay = 0 /\ LateDelay + ReadSpan < Grace

\* The entry of a buy is spared by the purge of this cycle, however long it takes.
Young(n) ==
  book[buys[n].sym].pending /\ buys[n].age + timer <= LateDelay + ReadSpan

\* An order that shows nowhere is new, or its entry is provisional.
AgeInv ==
  \A n \in 1..Len(buys) :
    /\ buys[n].stage \in {"intended", "sent"} => buys[n].age = 0
    /\ buys[n].stage = "sent" =>
         pc \in {"buy", "order", "answer", "record"} \/ (pc = "rest" /\ timer = 1)
    /\ buys[n].stage = "late" => buys[n].age <= LateDelay /\ book[buys[n].sym].pending

\* The reads of a cycle miss no live buy but one that the purge spares.
ReadInv ==
  \A n \in 1..Len(buys) : buys[n].stage \in Live =>
    /\ pc = "opened" => buys[n].sym \in pending \/ buys[n].stage = "held" \/ Young(n)
    /\ pc = "sync" => buys[n].sym \in pending \cup heldSnap \/ Young(n)

\* UNFILLED rows are about buys that came to nothing, and what was sold has
\* a sell row.
EndInv ==
  /\ \A n \in unfilled : n \in 1..Len(buys) /\ buys[n].stage \in {"void", "cancelled"}
  /\ \A n \in 1..Len(buys) : buys[n].stage = "sold" => n \in sold

LiveInv == LiveBuyHasEntry /\ AgeInv /\ ReadInv /\ EndInv

IInv == TypeInv /\ SlotInv /\ LiveInv

LEMMA BuysTyped ==
  ASSUME TypeInv
  PROVE  /\ Len(buys) \in Nat
         /\ \A n \in 1..Len(buys) :
              /\ buys[n] \in Buy
              /\ buys[n].sym \in Symbols /\ buys[n].stage \in Stages
              /\ buys[n].age \in Nat /\ buys[n].hidden \in 0..ShowDelay
<1>1. buys \in Seq(Buy) /\ Len(buys) \in Nat
  BY DEF TypeInv, Types
<1>2. Horizon \in Nat
  BY TimeAssumption DEF Horizon
<1>3. ASSUME NEW n \in 1..Len(buys)
      PROVE  buys[n] \in Buy
  BY <1>1, ElementOfSeq
<1> QED
  BY <1>1, <1>2, <1>3 DEF Buy

\* A live buy makes its symbol one with an entry.
LEMMA LiveIsEntered ==
  ASSUME TypeInv, LiveBuyHasEntry, NEW n \in 1..Len(buys), buys[n].stage \in Live
  PROVE  buys[n].sym \in Entries /\ book[buys[n].sym].n = n /\ n # 0
<1>1. buys[n].sym \in Symbols /\ book[buys[n].sym].n = n
  BY BuysTyped DEF LiveBuyHasEntry
<1>2. n # 0
  BY BuysTyped
<1> QED
  BY <1>1, <1>2 DEF Entries, NoEntry

LEMMA ReadingKeepsLive ==
  ASSUME PromptBroker, IInv, Reading
  PROVE  LiveInv'
<1> USE DEF IInv, LiveInv
<1>1. UNCHANGED <<buys, book, unfilled>>
  BY ReadingKeepsTypes
<1>2. LiveBuyHasEntry'
  BY <1>1 DEF LiveBuyHasEntry
<1>3. EndInv'
  <2>1. sold \subseteq sold'
    BY DEF Reading, ReadOpenOrders, ReadBalance, Synced, SellsDone, Scan, BuysDone, Sell, files
  <2> QED
    BY <1>1, <2>1 DEF EndInv
<1>4. AgeInv'
  <2>1. \/ pc \notin {"buy", "order", "answer", "record"} /\ ~(pc = "rest" /\ timer = 1)
        \/ pc' = "rest" /\ timer' = 1
    BY DEF Reading, ReadOpenOrders, ReadBalance, Synced, SellsDone, Scan, BuysDone, Sell, EndCycle
  <2> QED
    BY <1>1, <2>1 DEF AgeInv
<1>5. ReadInv'
  <2> SUFFICES ASSUME NEW n \in 1..Len(buys), buys[n].stage \in Live
               PROVE  /\ pc' = "opened" =>
                           buys[n].sym \in pending' \/ buys[n].stage = "held" \/ Young(n)'
                      /\ pc' = "sync" =>
                           buys[n].sym \in pending' \cup heldSnap' \/ Young(n)'
    BY <1>1 DEF ReadInv
  <2>1. CASE pc' = "opened"
    <3>1. /\ pc = "rest" /\ timer = 0 /\ timer' = ReadSpan
          /\ pending' = InStage({"listed"})
      BY <2>1
      DEF Reading, ReadOpenOrders, ReadBalance, Synced, SellsDone, Scan, BuysDone, Sell, EndCycle
    <3>2. buys[n].stage \in {"late", "listed", "held"}
      BY <3>1 DEF AgeInv, Live
    <3>3. CASE buys[n].stage = "listed"
      <4>1. buys[n].sym \in pending'
        BY <3>1, <3>3 DEF InStage, SymbolsOf
      <4> QED
        BY <2>1, <4>1
    <3>4. CASE buys[n].stage = "late"
      <4>1. Young(n)'
        BY <1>1, <3>1, <3>4, BuysTyped, TimeAssumption DEF AgeInv, Young
      <4> QED
        BY <2>1, <4>1
    <3> QED
      BY <2>1, <3>2, <3>3, <3>4
  <2>2. CASE pc' = "sync"
    <3>1. /\ pc = "opened" /\ UNCHANGED <<timer, pending>>
          /\ heldSnap' = InStage({"held"})
      BY <2>2
      DEF Reading, ReadOpenOrders, ReadBalance, Synced, SellsDone, Scan, BuysDone, Sell, EndCycle
    <3>2. Young(n) => Young(n)'
      BY <1>1, <3>1 DEF Young
    <3>3. buys[n].stage = "held" => buys[n].sym \in heldSnap'
      BY <3>1 DEF InStage, SymbolsOf
    <3> QED
      BY <2>2, <3>1, <3>2, <3>3 DEF ReadInv
  <2> QED
    BY <2>1, <2>2
<1> QED
  BY <1>2, <1>3, <1>4, <1>5

LEMMA BrokerKeepsLive ==
  ASSUME PromptBroker, IInv, Broker
  PROVE  LiveInv'
<1> USE DEF IInv, LiveInv
<1>1. PICK n \in 1..Len(buys), stage \in {"listed", "held", "cancelled", "sold"} :
          /\ OrderMoves(n, stage)
          /\ stage = "held" => buys[n].stage \in {"sent", "late", "listed"}
          /\ stage = "listed" => buys[n].stage \in {"sent", "late"}
          /\ stage = "cancelled" => buys[n].stage = "listed"
          /\ stage = "sold" => buys[n].stage = "held" /\ n \in sold
  BY BrokerMoves
<1>2. UNCHANGED <<book, sold, unfilled, pc, timer, pending, heldSnap>>
  BY BrokerMoves DEF files, reads
<1>3. /\ Len(buys') = Len(buys)
      /\ \A m \in 1..Len(buys) :
           /\ buys'[m].sym = buys[m].sym /\ buys'[m].age = buys[m].age
           /\ buys'[m].stage = IF m = n THEN stage ELSE buys[m].stage
  BY <1>1 DEF OrderMoves
<1>4. \A m \in 1..Len(buys) :
        /\ buys'[m].stage \in Live => buys[m].stage \in Live
        /\ buys'[m].stage \in Live /\ buys[m].stage = "held" => buys'[m].stage = "held"
        /\ buys'[m].stage \in {"intended", "sent", "late"} => buys'[m].stage = buys[m].stage
  BY <1>1, <1>3 DEF Live
<1>5. LiveBuyHasEntry'
  BY <1>2, <1>3, <1>4 DEF LiveBuyHasEntry
<1>6. AgeInv'
  BY <1>2, <1>3, <1>4 DEF AgeInv
<1>7. ReadInv'
  <2>1. \A m \in 1..Len(buys) : Young(m) => Young(m)'
    BY <1>2, <1>3 DEF Young
  <2> QED
    BY <1>2, <1>3, <1>4, <2>1 DEF ReadInv
<1>8. EndInv'
  BY <1>1, <1>2, <1>3 DEF EndInv
<1> QED
  BY <1>5, <1>6, <1>7, <1>8

LEMMA TickKeepsLive ==
  ASSUME PromptBroker, IInv, Tick
  PROVE  LiveInv'
<1> USE DEF IInv, LiveInv
<1>1. /\ Len(buys') = Len(buys)
      /\ \A m \in 1..Len(buys) :
           /\ buys'[m].sym = buys[m].sym
           /\ buys'[m].stage = buys[m].stage
           /\ buys'[m].age \in Nat /\ buys'[m].age <= buys[m].age + 1
           /\ MayWait(buys[m])
  BY Aged DEF TypeInv
<1>2. UNCHANGED <<book, sold, unfilled, pc, pending, heldSnap>>
  BY DEF Tick, files, reads
<1>3. ASSUME NEW m \in 1..Len(buys)
      PROVE  /\ buys[m].stage \notin {"intended", "sent"}
             /\ buys[m].stage = "late" => buys[m].age < LateDelay
  <2>1. buys[m].hidden = 0
    BY BuysTyped DEF PromptBroker
  <2>2. MayWait(buys[m])
    BY <1>1
  <2>3. buys[m].stage # "intended"
    BY <2>2 DEF MayWait
  <2>4. buys[m].stage # "sent"
    BY <2>1, <2>2 DEF MayWait, PromptBroker
  <2>5. buys[m].stage = "late" => buys[m].age < LateDelay
    BY <2>2 DEF MayWait
  <2> QED
    BY <2>3, <2>4, <2>5
<1>4. LiveBuyHasEntry' /\ EndInv'
  BY <1>1, <1>2 DEF LiveBuyHasEntry, EndInv
<1>5. AgeInv'
  <2>1. \A m \in 1..Len(buys) : buys[m].stage = "late" => buys'[m].age <= LateDelay
    BY <1>1, <1>3, BuysTyped, TimeAssumption
  <2> QED
    BY <1>1, <1>2, <1>3, <2>1 DEF AgeInv
<1>6. ReadInv'
  <2>1. pc \in {"opened", "sync"} => timer > 0 /\ timer' = timer - 1 /\ timer \in Int
    BY TimeAssumption DEF Tick, TypeInv, Types
  <2>2. ASSUME NEW m \in 1..Len(buys), pc \in {"opened", "sync"}, Young(m)
        PROVE  Young(m)'
    BY <1>1, <1>2, <2>1, <2>2, BuysTyped, TimeAssumption DEF Young
  <2> QED
    BY <1>1, <1>2, <2>2 DEF ReadInv
<1> QED
  BY <1>4, <1>5, <1>6

\* The purge takes no entry of a live buy.
LEMMA PurgedIsDead ==
  ASSUME PromptBroker, IInv, NEW s \in Symbols, Purge(s)
  PROVE  \A n \in 1..Len(buys) : buys[n].sym = s => buys[n].stage \notin Live
<1> USE DEF IInv, LiveInv
<1> SUFFICES ASSUME NEW n \in 1..Len(buys), buys[n].sym = s, buys[n].stage \in Live
             PROVE  FALSE
  OBVIOUS
<1>1. pc = "sync" /\ s \notin heldSnap /\ s \notin pending
      /\ ~(book[s].pending /\ buys[book[s].n].age < Grace)
  BY DEF Purge, Purged, Missing, OnHold
<1>2. Young(n)
  BY <1>1 DEF ReadInv
<1>3. book[s].n = n
  BY LiveIsEntered
<1>4. timer \in Nat
  BY TimeAssumption DEF TypeInv, Types
<1>5. book[s].pending /\ buys[n].age < Grace
  BY <1>2, <1>4, BuysTyped, TimeAssumption DEF Young, PromptBroker
<1> QED
  BY <1>1, <1>3, <1>5

LEMMA PurgeKeepsLive ==
  ASSUME PromptBroker, IInv, NEW s \in Symbols, Purge(s)
  PROVE  LiveInv'
<1> USE DEF IInv, LiveInv
<1>1. UNCHANGED <<buys, sold, timer, pending, heldSnap>>
      /\ pc = "sync" /\ pc' \in {"sync", "scan"}
  BY DEF Purge, reads
<1>2. \A n \in 1..Len(buys) : buys[n].stage \in Live =>
        buys[n].sym # s /\ buys[n].sym \in Symbols
  BY PurgedIsDead, BuysTyped
<1>3. \A x \in Symbols : x # s => book'[x] = book[x]
  BY DEF Purge, TypeInv, Types
<1>4. LiveBuyHasEntry'
  BY <1>1, <1>2, <1>3 DEF LiveBuyHasEntry
<1>5. AgeInv'
  BY <1>1, <1>2, <1>3 DEF AgeInv, Live
<1>6. ReadInv'
  <2>1. \A n \in 1..Len(buys) : buys[n].stage \in Live /\ Young(n) => Young(n)'
    BY <1>1, <1>2, <1>3 DEF Young
  <2> QED
    BY <1>1, <2>1 DEF ReadInv
<1>7. EndInv'
  <2>1. \/ unfilled' = unfilled
        \/ unfilled' = unfilled \cup {book[s].n} /\ book[s].n \notin sold
    BY DEF Purge
  <2>2. book[s].n \in 1..Len(buys) /\ buys[book[s].n].sym = s
    BY DEF Purge, Purged, Missing, Entries, EntryInv, TypeInv
  <2>3. ASSUME book[s].n \notin sold
        PROVE  buys[book[s].n].stage \in {"void", "cancelled"}
    <3>1. buys[book[s].n].stage \in Stages \ Live
      BY <2>2, BuysTyped, PurgedIsDead
    <3>2. buys[book[s].n].stage # "intended"
      BY <1>1, <2>2 DEF OrderInv, TypeInv
    <3>3. buys[book[s].n].stage # "sold"
      BY <2>2, <2>3 DEF EndInv
    <3> QED
      BY <3>1, <3>2, <3>3 DEF Stages, Live
  <2> QED
    BY <1>1, <2>1, <2>2, <2>3 DEF EndInv
<1> QED
  BY <1>4, <1>5, <1>6, <1>7

LEMMA IntendKeepsLive ==
  ASSUME PromptBroker, IInv, NEW s \in Symbols, Intend(s)
  PROVE  LiveInv'
<1> USE DEF IInv, LiveInv
<1>1. pc = "buy" /\ s \in targets /\ pc' \in {"buy", "order"}
      /\ UNCHANGED <<sold, unfilled, timer>>
  BY DEF Intend
<1>2. CASE pc' # "order"
  <2>1. UNCHANGED <<buys, book>>
    BY <1>2 DEF Intend
  <2> QED
    BY <1>1, <2>1 DEF LiveBuyHasEntry, AgeInv, ReadInv, EndInv
<1>3. CASE pc' = "order"
  <2>1. Len(buys) \in Nat /\ Len(buys') = Len(buys) + 1
    BY <1>3, Intended, BuysTyped
  <2>2. /\ \A n \in 1..Len(buys) : buys'[n] = buys[n]
        /\ buys'[Len(buys')].stage = "intended" /\ buys'[Len(buys')].age = 0
        /\ book' = [book EXCEPT ![s] = [n |-> Len(buys'), pending |-> TRUE]]
    BY <1>3, Intended
  <2>3. \A n \in 1..Len(buys') : n \in 1..Len(buys) \/ n = Len(buys')
    BY <2>1
  <2>4. \A n \in 1..Len(buys) : buys[n].stage \in Live =>
          buys[n].sym # s /\ buys[n].sym \in Symbols
    BY <1>1, LiveIsEntered, BuysTyped DEF SlotInv
  <2>5. \A x \in Symbols : x # s => book'[x] = book[x]
    BY <2>2 DEF TypeInv, Types
  <2>6. LiveBuyHasEntry'
    BY <2>2, <2>3, <2>4, <2>5 DEF LiveBuyHasEntry, Live
  <2>7. AgeInv'
    BY <1>1, <1>3, <2>2, <2>3, <2>4, <2>5 DEF AgeInv, Live
  <2>8. ReadInv'
    BY <1>3 DEF ReadInv
  <2>9. EndInv'
    BY <1>1, <2>1, <2>2, <2>3 DEF EndInv
  <2> QED
    BY <2>6, <2>7, <2>8, <2>9
<1> QED
  BY <1>2, <1>3

\* The order in progress is the last buy: what its steps leave live.
LEMMA OrderingStages ==
  ASSUME PromptBroker, IInv, Ordering
  PROVE  /\ Len(buys') = Len(buys)
         /\ \A m \in 1..Len(buys) :
              /\ buys'[m].sym = buys[m].sym /\ buys'[m].age = buys[m].age
              /\ m # Len(buys) => buys'[m].stage = buys[m].stage
              /\ buys'[m].stage = buys[m].stage
                   \/ /\ m = Len(buys) /\ pc \in {"order", "answer"}
                      /\ buys[m].stage \in {"intended", "sent"}
                      /\ buys'[m].stage \in {"void", "sent", "late"}
              /\ buys'[m].stage = "sent" /\ buys[m].stage # "sent" => pc' = "answer"
              /\ pc = "order" /\ m = Len(buys) => buys'[m].stage \in {"void", "sent"}
              /\ buys'[m].stage = "late" /\ buys[m].stage # "late" =>
                   pc = "answer" /\ m = Len(buys)
<1> USE DEF IInv
<1>1. Len(buys) \in Nat
  BY BuysTyped
<1>2. pc = "order" => buys[Len(buys)].stage = "intended"
  BY DEF TypeInv, OrderInv
<1> QED
  BY <1>1, <1>2, OrderingMoves DEF OrderMoves

LEMMA OrderingKeepsLive ==
  ASSUME PromptBroker, IInv, Ordering
  PROVE  LiveInv'
<1> USE DEF IInv, LiveInv
<1>1. UNCHANGED <<sold, unfilled, current>> /\ current \in Symbols /\ Len(buys) \in Nat
  BY OrderingMoves, BuysTyped DEF TypeInv, Types
<1>2. pc \in {"order", "answer", "record"} =>
        book[current] = [n |-> Len(buys), pending |-> TRUE] /\ buys[Len(buys)].sym = current
        /\ Len(buys) > 0
  BY DEF TypeInv, OrderInv
<1>3. \A n \in 1..Len(buys) : buys[n].stage \in Live /\ buys[n].sym = current
                             /\ pc \in {"order", "answer", "record"} => n = Len(buys)
  BY <1>2, LiveIsEntered
<1>4. pc' \in {"buy", "answer", "record"} \/ (pc' = "rest" /\ timer' = 1)
  BY DEF Ordering, Refuse, Accept, Uncertain, Answer, Record, Crash, EndCycle
<1>5. \A x \in Symbols : x # current => book'[x] = book[x]
  BY OrderingBook DEF TypeInv, Types
<1>6. /\ book' # book => pc \in {"order", "record"} /\ (pc = "order" => Refuse)
      /\ pc = "record" => book'[current].n = book[current].n
  <2>1. book[current] \in Entry
    BY <1>1 DEF TypeInv, Types
  <2> QED
    BY <1>1, <2>1, OrderingBook DEF Refuse, Entry, TypeInv, Types
<1>7. \A m \in 1..Len(buys) : buys[m].sym \in Symbols
  BY BuysTyped
<1>8. Refuse => buys'[Len(buys)].stage = "void"
  <2>1. ASSUME Refuse
        PROVE  buys'[Len(buys)].stage = "void"
    <3>1. buys \in Seq(Buy) /\ Len(buys) \in 1..Len(buys) /\ "void" \in Stages
      BY <1>1, <1>2, <2>1 DEF Refuse, Stages, TypeInv, Types
    <3> QED
      BY <2>1, <3>1, StageSet DEF Refuse
  <2> QED
    BY <2>1
<1>9. LiveBuyHasEntry'
  <2> SUFFICES ASSUME NEW n \in 1..Len(buys), buys'[n].stage \in Live
               PROVE  book'[buys[n].sym].n = n
    BY OrderingStages DEF LiveBuyHasEntry
  <2>1. CASE n = Len(buys) /\ pc \in {"order", "answer"}
    <3>1. book' = book
      BY <1>6, <1>8, <2>1 DEF Live
    <3> QED
      BY <1>2, <2>1, <3>1
  <2>2. CASE ~(n = Len(buys) /\ pc \in {"order", "answer"})
    <3>1. buys[n].stage \in Live /\ book[buys[n].sym].n = n
      BY <2>2, OrderingStages DEF LiveBuyHasEntry
    <3>2. CASE buys[n].sym # current \/ book' = book
      BY <1>5, <1>7, <3>1, <3>2
    <3>3. CASE buys[n].sym = current /\ book' # book
      BY <1>3, <1>6, <2>2, <3>1, <3>3
    <3> QED
      BY <3>2, <3>3
  <2> QED
    BY <2>1, <2>2
<1>10. AgeInv'
  <2> SUFFICES ASSUME NEW n \in 1..Len(buys)
               PROVE  /\ buys'[n].stage \in {"intended", "sent"} => buys[n].age = 0
                      /\ buys'[n].stage = "sent" =>
                           pc' \in {"buy", "order", "answer", "record"}
                             \/ (pc' = "rest" /\ timer' = 1)
                      /\ buys'[n].stage = "late" =>
                           buys[n].age <= LateDelay /\ book'[buys[n].sym].pending
    BY OrderingStages DEF AgeInv
  <2>1. buys'[n].stage \in {"intended", "sent"} => buys[n].age = 0
    BY OrderingStages DEF AgeInv
  <2>2. ASSUME buys'[n].stage = "late"
        PROVE  buys[n].age <= LateDelay /\ book'[buys[n].sym].pending
    <3>1. CASE buys[n].stage # "late"
      <4>1. pc = "answer" /\ n = Len(buys) /\ buys[n].stage \in {"intended", "sent"}
        BY <2>2, <3>1, OrderingStages
      <4>2. buys[n].age = 0 /\ book' = book
        BY <1>6, <4>1 DEF AgeInv
      <4> QED
        BY <1>2, <4>1, <4>2, TimeAssumption
    <3>2. CASE buys[n].stage = "late"
      <4>1. buys[n].age <= LateDelay /\ book[buys[n].sym].pending /\ buys[n].stage \in Live
        BY <3>2 DEF AgeInv, Live
      <4>2. CASE buys[n].sym # current \/ book' = book
        BY <1>5, <1>7, <4>1, <4>2
      <4>3. CASE buys[n].sym = current /\ book' # book
        <5>1. n = Len(buys) /\ pc \in {"order", "record"}
          BY <1>3, <1>6, <4>1, <4>3
        <5>2. buys[n].stage # "late"
          BY <5>1 DEF TypeInv, OrderInv
        <5> QED
          BY <3>2, <5>2
      <4> QED
        BY <4>2, <4>3
    <3> QED
      BY <3>1, <3>2
  <2> QED
    BY <1>4, <2>1, <2>2
<1>11. ReadInv'
  BY <1>4 DEF ReadInv
<1>12. EndInv'
  <2>1. \A n \in 1..Len(buys) :
          /\ buys[n].stage \in {"void", "cancelled"} => buys'[n].stage = buys[n].stage
          /\ buys'[n].stage = "sold" => buys[n].stage = "sold"
    BY OrderingStages
  <2> QED
    BY <1>1, <2>1, OrderingStages DEF EndInv
<1> QED
  BY <1>9, <1>10, <1>11, <1>12

LEMMA LiveInit == Init => LiveInv
BY DEF Init, LiveInv, LiveBuyHasEntry, AgeInv, ReadInv, EndInv

LEMMA LiveStep ==
  ASSUME PromptBroker, IInv, [Next]_vars
  PROVE  LiveInv'
<1>1. CASE UNCHANGED vars
  BY <1>1 DEF vars, files, reads, IInv, LiveInv, LiveBuyHasEntry, AgeInv, ReadInv, EndInv, Young
<1>2. CASE Next
  <2>1. \/ Reading \/ Ordering \/ Broker \/ Tick
        \/ \E s \in Symbols : Purge(s) \/ Intend(s)
    BY <1>2 DEF Next, Daemon, Reading, Ordering
  <2> QED
    BY <2>1, ReadingKeepsLive, OrderingKeepsLive, BrokerKeepsLive, TickKeepsLive,
       PurgeKeepsLive, IntendKeepsLive
<1> QED
  BY <1>1, <1>2

LEMMA Invariance == ASSUME PromptBroker PROVE Spec => []IInv
<1>1. Init => IInv
  BY TypeInit, SlotInit, LiveInit DEF IInv
<1>2. IInv /\ [Next]_vars => IInv'
  BY TypeStep, SlotStep, LiveStep DEF IInv
<1> QED
  BY <1>1, <1>2, PTL DEF Spec

\* Whatever the broker has accepted has its ledger entry.
THEOREM LiveBuysKeepEntries == PromptBroker => (Spec => []LiveBuyHasEntry)
<1> SUFFICES ASSUME PromptBroker
             PROVE  Spec => []LiveBuyHasEntry
  OBVIOUS
<1>1. Spec => []IInv
  BY Invariance
<1>2. IInv => LiveBuyHasEntry
  BY DEF IInv, LiveInv
<1> QED
  BY <1>1, <1>2, PTL

\* No buy with an UNFILLED row was or will be filled.
THEOREM UnfilledIsHonest == PromptBroker => (Spec => []UnfilledHonest)
<1> SUFFICES ASSUME PromptBroker
             PROVE  Spec => []UnfilledHonest
  OBVIOUS
<1>1. Spec => []IInv
  BY Invariance
<1>2. IInv => UnfilledHonest
  BY DEF IInv, LiveInv, EndInv, UnfilledHonest, Bought
<1> QED
  BY <1>1, <1>2, PTL

\* Live buys have different entries, so there are no more of them than slots.
LEMMA LiveFits ==
  ASSUME IInv
  PROVE  SlotsRespected
<1> DEFINE L == {n \in 1..Len(buys) : buys[n].stage \in Live}
           f == [n \in L |-> buys[n].sym]
<1>1. Entries \subseteq Symbols /\ targets \subseteq Symbols
  BY DEF Entries, IInv, TypeInv, Types
<1>2. f \in Injection(L, Entries)
  <2>1. \A n \in L : f[n] \in Entries /\ book[f[n]].n = n
    BY LiveIsEntered DEF IInv, LiveInv
  <2>2. f \in [L -> Entries]
    BY <2>1
  <2>3. \A a, b \in L : f[a] = f[b] => a = b
    BY <2>1
  <2>4. DOMAIN f = L
    OBVIOUS
  <2> HIDE DEF f, L
  <2> QED
    BY <2>2, <2>3, <2>4 DEF Injection, IsInjective
<1>3. Cardinality(L) <= Cardinality(Entries)
  BY <1>1, <1>2, SetOfSymbols, FS_Injection
<1>4. L \subseteq 1..Len(buys) /\ Len(buys) \in Nat
  BY BuysTyped DEF IInv
<1>5. Cardinality(L) \in Nat
  BY <1>1, <1>2, SetOfSymbols, FS_Injection, FS_CardinalityType
<1>6. Cardinality(Entries) \in Nat /\ Cardinality(targets) \in Nat
  BY <1>1, SetOfSymbols
<1>7. Cardinality(Entries) + Cardinality(targets) <= Slots
  BY DEF IInv, SlotInv
<1>8. Cardinality(L) <= Slots
  BY <1>3, <1>5, <1>6, <1>7, TimeAssumption
<1> QED
  BY <1>8 DEF SlotsRespected

\* Live orders and holdings together never exceed the slots.
THEOREM SlotsAreRespected == PromptBroker => (Spec => []SlotsRespected)
<1> SUFFICES ASSUME PromptBroker
             PROVE  Spec => []SlotsRespected
  OBVIOUS
<1>1. Spec => []IInv
  BY Invariance
<1>2. IInv => SlotsRespected
  BY LiveFits
<1> QED
  BY <1>1, <1>2, PTL
=============================================================================
