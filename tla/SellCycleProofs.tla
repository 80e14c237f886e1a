-------------------------- MODULE SellCycleProofs ---------------------------
(***************************************************************************)
(* Theorems about SellCycle, for every set of symbols, lot size, delay and *)
(* bound that satisfies the assumptions of the module.                     *)
(***************************************************************************)
EXTENDS SellCycle, SequenceTheorems, FiniteSetTheorems, TLAPS

\* A partial take-profit asks for at least one share and never for more than
\* the position holds (the max(1, ...) of holding_evaluator).
LEMMA PartialQtyInRange ==
  ASSUME NEW q \in 1..MaxLot
  PROVE  PartialQty(q) \in 1..MaxLot
<1>1. PartialPct \in 0..100 /\ MaxLot \in Nat
  BY LotAssumption
<1>2. q * PartialPct \in Nat /\ q * PartialPct <= q * 100
  BY <1>1
<1>3. (q * PartialPct) \div 100 \in Int /\ (q * PartialPct) \div 100 <= q
  BY <1>2
<1>4. q * PartialPct >= 100 => (q * PartialPct) \div 100 >= 1
  BY <1>2
<1> QED
  BY <1>1, <1>2, <1>3, <1>4 DEF PartialQty

\* A buy order still working is listed, is the only one of its symbol, and
\* what it may still buy fits the largest position.
BuyInv ==
  \A s \in Symbols : \A o \in LiveBuys(s) :
    /\ o.listed
    /\ held[s] + o.left <= MaxLot
    /\ \A p \in LiveBuys(s) : p = o

\* An order that is listed, or filled in part, is still an order.
LEMMA OrderUpdates ==
  ASSUME NEW o \in Order
  PROVE  /\ [o EXCEPT !.listed = TRUE] \in Order
         /\ \A n \in 1..MaxLot : [o EXCEPT !.left = n, !.touched = TRUE] \in Order
<1>1. [o EXCEPT !.listed = TRUE] \in Order
  BY DEF Order
<1>2. ASSUME NEW n \in 1..MaxLot
      PROVE  [o EXCEPT !.left = n, !.touched = TRUE] \in Order
  <2> DEFINE r == [o EXCEPT !.left = n]
  <2>1. r \in Order
    BY DEF Order
  <2> HIDE DEF r
  <2>2. [r EXCEPT !.touched = TRUE] \in Order
    BY <2>1 DEF Order
  <2> QED
    BY <2>2 DEF r
<1> QED
  BY <1>1, <1>2

\* Steps of the broker keep the types.
LEMMA BrokerKeepsTypes == TypeOK /\ BuyInv /\ Broker => TypeOK'
<1> SUFFICES ASSUME TypeOK, BuyInv, NEW o \in orders,
                    ListOrder(o) \/ (\E q \in 1..MaxLot : FillOrder(o, q)) \/ CancelOrder(o)
             PROVE  TypeOK'
  BY DEF Broker
<1> USE LotAssumption
<1>0. o \in Order /\ o.sym \in Symbols /\ o.left \in 1..MaxLot
  BY DEF TypeOK, Order
<1>1. CASE ListOrder(o)
  BY <1>0, <1>1, OrderUpdates DEF TypeOK, ListOrder, audit, ledger, reads
<1>2. ASSUME NEW q \in 1..MaxLot, FillOrder(o, q)
      PROVE  TypeOK'
  <2>1. held' \in [Symbols -> Shares]
    <3>1. CASE o.side = "sell"
      <4>1. q <= held[o.sym] /\ held[o.sym] \in 0..MaxLot
        BY <1>0, <1>2, <3>1 DEF TypeOK, FillOrder, Shares
      <4>2. held[o.sym] - q \in 0..MaxLot
        BY <4>1
      <4>3. held' = [held EXCEPT ![o.sym] = held[o.sym] - q]
        BY <1>2, <3>1 DEF FillOrder
      <4> QED
        BY <4>2, <4>3 DEF TypeOK, Shares
    <3>2. CASE o.side = "buy"
      <4>1. held[o.sym] + o.left <= MaxLot
        BY <1>0, <3>2 DEF BuyInv, LiveBuys
      <4>2. q <= o.left /\ held[o.sym] \in 0..MaxLot
        BY <1>0, <1>2 DEF TypeOK, FillOrder, Shares
      <4>3. held[o.sym] + q \in 0..MaxLot
        BY <1>0, <4>1, <4>2
      <4>4. held' = [held EXCEPT ![o.sym] = held[o.sym] + q]
        BY <1>2, <3>2 DEF FillOrder
      <4> QED
        BY <4>3, <4>4 DEF TypeOK, Shares
    <3> QED
      BY <1>2, <3>1, <3>2 DEF FillOrder
  <2>2. orders' \subseteq Order
    <3>1. q # o.left => o.left - q \in 1..MaxLot
      BY <1>0, <1>2 DEF FillOrder
    <3>2. q # o.left => [o EXCEPT !.left = o.left - q, !.touched = TRUE] \in Order
      BY <1>0, <3>1, OrderUpdates
    <3> QED
      BY <1>2, <3>2 DEF TypeOK, FillOrder, WithFill
  <2>3. partialSells' \in [Symbols -> Nat]
    BY <1>0, <1>2 DEF TypeOK, FillOrder
  <2> QED
    BY <1>2, <2>1, <2>2, <2>3 DEF TypeOK, FillOrder, audit, ledger, reads
<1>3. CASE CancelOrder(o)
  BY <1>3, BoundAssumption DEF TypeOK, CancelOrder, Fail, audit, ledger, reads
<1> QED
  BY <1>1, <1>2, <1>3

\* Listing, filling and cancelling orders keep what is known of the working buys.
LEMMA BrokerKeepsBuyInv == TypeOK /\ BuyInv /\ Broker => BuyInv'
<1> SUFFICES ASSUME TypeOK, BuyInv, NEW o \in orders,
                    ListOrder(o) \/ (\E q \in 1..MaxLot : FillOrder(o, q)) \/ CancelOrder(o),
                    NEW s \in Symbols, NEW p \in LiveBuys(s)'
             PROVE  p.listed /\ held'[s] + p.left <= MaxLot /\ \A r \in LiveBuys(s)' : r = p
  BY DEF Broker, BuyInv
<1> USE LotAssumption
<1>0. o \in Order /\ o.sym \in Symbols /\ o.left \in 1..MaxLot
  BY DEF TypeOK, Order
<1>1. CASE ListOrder(o)
  <2> DEFINE n == [o EXCEPT !.listed = TRUE]
  <2>1. n.side = o.side /\ n.sym = o.sym
    BY <1>0 DEF Order
  <2>2. n \notin LiveBuys(s)'
    BY <1>1, <2>1 DEF BuyInv, LiveBuys, ListOrder
  <2>3. LiveBuys(s)' \subseteq LiveBuys(s)
    BY <1>1, <2>2 DEF LiveBuys, ListOrder
  <2> QED
    BY <1>1, <2>3 DEF BuyInv, ListOrder
<1>2. ASSUME NEW q \in 1..MaxLot, FillOrder(o, q)
      PROVE  p.listed /\ held'[s] + p.left <= MaxLot /\ \A r \in LiveBuys(s)' : r = p
  <2> DEFINE n == [o EXCEPT !.left = o.left - q, !.touched = TRUE]
  <2>1. n.side = o.side /\ n.sym = o.sym /\ n.listed = o.listed /\ n.left = o.left - q
    BY <1>0 DEF Order
  <2> HIDE DEF n
  <2>2. orders' \subseteq (orders \ {o}) \cup {n}
    BY <1>2 DEF FillOrder, WithFill, n
  <2>3. CASE o.side = "buy" /\ o.sym = s
    <3>1. LiveBuys(s) = {o}
      BY <2>3 DEF BuyInv, LiveBuys
    <3>2. LiveBuys(s)' \subseteq {n}
      BY <2>2, <3>1 DEF LiveBuys
    <3>3. held'[s] = held[s] + q
      BY <1>0, <1>2, <2>3 DEF TypeOK, FillOrder
    <3>4. o.listed /\ held[s] + o.left <= MaxLot
      BY <3>1 DEF BuyInv
    <3>5. p = n /\ \A r \in LiveBuys(s)' : r = p
      BY <3>2
    <3>6. p.listed /\ p.left = o.left - q
      BY <2>1, <3>4, <3>5
    <3>7. held[s] \in Int
      BY DEF TypeOK, Shares
    <3> QED
      BY <1>0, <3>3, <3>4, <3>5, <3>6, <3>7
  <2>4. CASE ~(o.side = "buy" /\ o.sym = s)
    <3>1. LiveBuys(s)' \subseteq LiveBuys(s)
      BY <2>1, <2>2, <2>4 DEF LiveBuys
    <3>2. held'[s] <= held[s]
      BY <1>0, <1>2, <2>4 DEF TypeOK, FillOrder, Shares
    <3>3. held[s] \in Int /\ held'[s] \in Int
      BY <1>0, <1>2 DEF TypeOK, FillOrder, Shares
    <3>4. p \in LiveBuys(s) /\ p \in Order
      BY <3>1 DEF LiveBuys, TypeOK
    <3>5. p.left \in Int
      BY <3>4 DEF Order
    <3> QED
      BY <3>1, <3>2, <3>3, <3>4, <3>5 DEF BuyInv
  <2> QED
    BY <2>3, <2>4
<1>3. CASE CancelOrder(o)
  BY <1>3 DEF BuyInv, LiveBuys, CancelOrder
<1> QED
  BY <1>1, <1>2, <1>3

\* The loop over the targets always has one in hand, the ledger is only marked
\* and purged in a cycle that knows the open orders, and no symbol has more
\* attempts than the bound.
PcInv ==
  /\ pc \in {"loop", "send", "await"} => targets # <<>>
  /\ pc \in {"mark", "purge"} => openKnown
  /\ \A s \in Symbols : Len(attempts[s]) <= MaxAttempts

\* While the daemon is in its sell loop, the head of the targets is a sale of at
\* least one and at most MaxLot shares.
LEMMA TargetInHand ==
  ASSUME TypeOK, PcInv, pc \in {"loop", "send", "await"}
  PROVE  /\ Head(targets) \in Target
         /\ Head(targets).sym \in Symbols
         /\ Head(targets).qty \in 1..MaxLot
         /\ Tail(targets) \in Seq(Target)
         /\ Len(targets) # 1 => Tail(targets) # <<>>
<1>1. targets \in Seq(Target) /\ targets # <<>>
  BY DEF TypeOK, PcInv
<1>2. /\ Head(targets) \in Target
      /\ Tail(targets) \in Seq(Target)
      /\ Len(Tail(targets)) = Len(targets) - 1
  BY <1>1, HeadTailProperties
<1>3. Len(targets) # 1 => Tail(targets) # <<>>
  <2>1. Len(targets) \in Nat
    BY <1>1, LenProperties
  <2>2. \A q : q = <<>> => Len(q) = 0
    OBVIOUS
  <2> QED
    BY <1>2, <2>1, <2>2
<1> QED
  BY <1>2, <1>3 DEF Target

\* The rows an operation rewrites keep their shape and their number.
LEMMA RowUpdates ==
  ASSUME TypeOK, NEW s \in Symbols, NEW i \in Int
  PROVE  LET closed == [attempts EXCEPT ![s][i].intent = "unfilled"]
             ordered == [attempts EXCEPT ![s][i] =
                           [@ EXCEPT !.orderedAt = now, !.ordered = "open"]]
         IN /\ closed \in [Symbols -> Seq(Attempt)]
            /\ ordered \in [Symbols -> Seq(Attempt)]
            /\ \A x \in Symbols : /\ Len(closed[x]) = Len(attempts[x])
                                  /\ Len(ordered[x]) = Len(attempts[x])
<1> DEFINE rows == attempts[s]
<1>1. rows \in Seq(Attempt) /\ now \in Time
  BY DEF TypeOK
<1>2. ASSUME NEW a \in Attempt
      PROVE  /\ [a EXCEPT !.intent = "unfilled"] \in Attempt
             /\ [a EXCEPT !.orderedAt = now, !.ordered = "open"] \in Attempt
  <2> DEFINE b == [a EXCEPT !.orderedAt = now]
  <2>1. [a EXCEPT !.intent = "unfilled"] \in Attempt
    BY DEF Attempt
  <2>2. b \in Attempt
    BY <1>1 DEF Attempt
  <2> HIDE DEF b
  <2>3. [b EXCEPT !.ordered = "open"] \in Attempt
    BY <2>2 DEF Attempt
  <2> QED
    BY <2>1, <2>3 DEF b
<1> DEFINE closedRows == [rows EXCEPT ![i].intent = "unfilled"]
           orderedRows == [rows EXCEPT ![i] =
                             [@ EXCEPT !.orderedAt = now, !.ordered = "open"]]
<1> DEFINE Goal == /\ closedRows \in Seq(Attempt) /\ Len(closedRows) = Len(rows)
                   /\ orderedRows \in Seq(Attempt) /\ Len(orderedRows) = Len(rows)
<1>3. ASSUME i \in 1..Len(rows)
      PROVE  Goal
  <2>1. rows[i] \in Attempt
    BY <1>1, <1>3, ElementOfSeq
  <2> DEFINE c == [rows[i] EXCEPT !.intent = "unfilled"]
             d == [rows[i] EXCEPT !.orderedAt = now, !.ordered = "open"]
  <2>2. c \in Attempt /\ d \in Attempt
    BY <1>2, <2>1
  <2>3. closedRows = [rows EXCEPT ![i] = c] /\ orderedRows = [rows EXCEPT ![i] = d]
    OBVIOUS
  <2> HIDE DEF c, d, closedRows, orderedRows, rows
  <2>4. Goal
    BY <1>1, <1>3, <2>2, <2>3, ExceptSeq
  <2> QED
    BY <2>4
<1>4. ASSUME i \notin 1..Len(rows)
      PROVE  Goal
  <2>1. DOMAIN rows = 1..Len(rows) /\ rows = [j \in 1..Len(rows) |-> rows[j]]
    BY <1>1, LenProperties
  <2>2. closedRows = rows /\ orderedRows = rows
    BY <1>4, <2>1
  <2> QED
    BY <1>1, <2>2
<1>5. Goal
  BY <1>3, <1>4
<1>6. /\ [attempts EXCEPT ![s][i].intent = "unfilled"] = [attempts EXCEPT ![s] = closedRows]
      /\ [attempts EXCEPT ![s][i] = [@ EXCEPT !.orderedAt = now, !.ordered = "open"]]
           = [attempts EXCEPT ![s] = orderedRows]
  OBVIOUS
<1> HIDE DEF closedRows, orderedRows
<1> QED
  BY <1>5, <1>6 DEF TypeOK

\* Reading the broker keeps the types.
LEMMA ReadsKeepTypes == TypeOK /\ (ReadOpenOrders \/ ReadBalance) => TypeOK'
<1> SUFFICES ASSUME TypeOK, ReadOpenOrders \/ ReadBalance
             PROVE  TypeOK'
  OBVIOUS
<1>1. CASE ReadOpenOrders
  <2>1. {o.sym : o \in {x \in orders : x.listed}} \subseteq Symbols
    BY DEF TypeOK, Order
  <2>2. pending' \subseteq Symbols /\ openKnown' \in BOOLEAN
    BY <1>1, <2>1 DEF ReadOpenOrders
  <2>3. faults' \in 0..MaxFaults
    BY <1>1, BoundAssumption DEF TypeOK, ReadOpenOrders, Fail
  <2> QED
    BY <1>1, <2>2, <2>3 DEF TypeOK, ReadOpenOrders, PcValues, broker, audit, ledger
<1>2. CASE ReadBalance
  BY <1>2, BoundAssumption DEF TypeOK, ReadBalance, PcValues, Fail, broker, audit, ledger
<1> QED
  BY <1>1, <1>2

\* What ConfirmSells attributes is bounded by what is missing, so the audit
\* stays at or above the balance it was compared with.
LEMMA ConfirmBounds ==
  ASSUME TypeOK, PcInv, ConfirmSells, NEW s \in Symbols
  PROVE  /\ audited'[s] \in Nat
         /\ s \in pending => audited'[s] >= audited[s]
         /\ audited'[s] >= audited[s] \/ audited'[s] >= heldSnap[s]
<1>1. PICK gap \in [Symbols -> [0..MaxAttempts -> 0..MaxLot]] :
        /\ \A x \in Symbols : Attribution(x, gap[x])
        /\ audited' = [x \in Symbols |->
                         audited[x] - (gap[x][Len(attempts[x])] - gap[x][0])]
  BY DEF ConfirmSells
<1> DEFINE n == Len(attempts[s])
<1>2. n \in 0..MaxAttempts /\ 0 \in 0..MaxAttempts
  BY LenProperties, BoundAssumption DEF TypeOK, PcInv
<1>3. gap[s][n] \in Nat /\ gap[s][0] \in Nat
  <2>1. gap[s] \in [0..MaxAttempts -> 0..MaxLot]
    BY <1>1
  <2> HIDE DEF n
  <2>2. gap[s][n] \in 0..MaxLot /\ gap[s][0] \in 0..MaxLot
    BY <1>2, <2>1
  <2> QED
    BY <2>2, LotAssumption
<1>4. audited[s] \in Nat /\ heldSnap[s] \in Nat
  BY DEF TypeOK, Shares
<1>5. gap[s][n] = IF Confirmable(s) THEN Gap(s) ELSE 0
  BY <1>1 DEF Attribution
<1>6. audited'[s] = audited[s] - (gap[s][n] - gap[s][0])
  BY <1>1
<1>7. gap[s][n] = 0 \/ gap[s][n] = audited[s] - heldSnap[s]
  BY <1>5 DEF Gap
<1>8. s \in pending => gap[s][n] = 0
  BY <1>5 DEF Confirmable
<1> HIDE DEF n
<1> QED
  BY <1>3, <1>4, <1>6, <1>7, <1>8

\* Booking fills on an attempt (_mark_filled_sells) keeps its type.
LEMMA MarkFilledType ==
  ASSUME NEW a \in Attempt, NEW g
  PROVE  MarkFilled(a, g) \in Attempt
<1> DEFINE b == [a EXCEPT !.ordered = IF TakenByOrdered(a, g) > 0 THEN "filled" ELSE @]
<1>1. b \in Attempt
  BY DEF Attempt
<1> HIDE DEF b
<1>2. [b EXCEPT !.intent = IF TakenByIntent(a, g) > 0 THEN "filled" ELSE @] \in Attempt
  BY <1>1 DEF Attempt
<1> QED
  BY <1>2 DEF MarkFilled, b

\* Confirming sells keeps the types and the number of rows.
LEMMA ConfirmKeepsTypes ==
  TypeOK /\ PcInv /\ ConfirmSells =>
    TypeOK' /\ \A s \in Symbols : Len(attempts'[s]) = Len(attempts[s])
<1> SUFFICES ASSUME TypeOK, PcInv, ConfirmSells
             PROVE  TypeOK' /\ \A s \in Symbols : Len(attempts'[s]) = Len(attempts[s])
  OBVIOUS
<1>1. PICK gap \in [Symbols -> [0..MaxAttempts -> 0..MaxLot]] :
        /\ attempts' = [s \in Symbols |-> [i \in 1..Len(attempts[s]) |->
                                             MarkFilled(attempts[s][i], gap[s][i])]]
        /\ audited' = [s \in Symbols |->
                         audited[s] - (gap[s][Len(attempts[s])] - gap[s][0])]
        /\ partialAudited' = [s \in Symbols |->
             partialAudited[s] \/ \E i \in 1..Len(attempts[s]) :
                                    IsPartialFill(s, attempts[s][i], gap[s][i])]
  BY DEF ConfirmSells
<1>2. audited' \in [Symbols -> Nat]
  <2>1. \A s \in Symbols : audited'[s] \in Nat
    BY ConfirmBounds
  <2> QED
    BY <1>1, <2>1
<1>3. partialAudited' \in [Symbols -> BOOLEAN]
  BY <1>1, Zenon DEF TypeOK
<1>4. ASSUME NEW s \in Symbols
      PROVE  attempts'[s] \in Seq(Attempt) /\ Len(attempts'[s]) = Len(attempts[s])
  <2> DEFINE n == Len(attempts[s])
             marked == [i \in 1..n |-> MarkFilled(attempts[s][i], gap[s][i])]
  <2>1. attempts[s] \in Seq(Attempt) /\ n \in Nat
    BY LenProperties DEF TypeOK
  <2>2. \A i \in 1..n : MarkFilled(attempts[s][i], gap[s][i]) \in Attempt
    BY <2>1, ElementOfSeq, MarkFilledType
  <2>3. attempts'[s] = marked
    BY <1>1
  <2> HIDE DEF n
  <2>4. marked \in [1..n -> Attempt]
    BY <2>2
  <2>5. marked \in Seq(Attempt)
    BY <2>1, <2>4, SeqDef
  <2>6. DOMAIN marked = 1..n
    OBVIOUS
  <2>7. Len(marked) = n
    <3> HIDE DEF marked
    <3> QED
      BY <2>1, <2>5, <2>6, LenProperties
  <2> QED
    BY <2>3, <2>5, <2>7 DEF n
<1>5. attempts' \in [Symbols -> Seq(Attempt)]
  BY <1>1, <1>4
<1>6. recent' \subseteq Symbols /\ intentsKnown' \in BOOLEAN /\ pc' \in PcValues
  BY DEF ConfirmSells, PcValues
<1> QED
  BY <1>2, <1>3, <1>4, <1>5, <1>6 DEF TypeOK, ConfirmSells, broker, ledger

\* The steps between the confirmation and the decision keep the types.
LEMMA LedgerStepsKeepTypes ==
  TypeOK /\ (SkipConfirm \/ MarkPartials \/ PurgeLedger \/ BackfillBuys \/ ReconcileLedger)
    => TypeOK'
<1> SUFFICES ASSUME TypeOK,
                    SkipConfirm \/ MarkPartials \/ PurgeLedger \/ BackfillBuys
                      \/ ReconcileLedger
             PROVE  TypeOK'
  OBVIOUS
<1>0. \A s \in Symbols : heldSnap[s] \in Nat /\ audited[s] \in Nat
  BY LotAssumption DEF TypeOK, Shares
<1>f. Fail => faults' \in 0..MaxFaults
  BY BoundAssumption DEF TypeOK, Fail
<1>1. CASE SkipConfirm
  <2>1. faults' \in 0..MaxFaults
    BY <1>1, <1>f DEF SkipConfirm, TypeOK
  <2> QED
    BY <1>1, <2>1 DEF TypeOK, SkipConfirm, PcValues, broker, audit, ledger
<1>2. CASE MarkPartials
  <2>1. partialDone' \in [Symbols -> BOOLEAN]
    BY <1>2, Zenon DEF MarkPartials, TypeOK
  <2> QED
    BY <1>2, <2>1 DEF TypeOK, MarkPartials, PcValues, broker, audit, reads
<1>3. CASE PurgeLedger
  <2>1. partialDone' \in [Symbols -> BOOLEAN]
    BY <1>3, Zenon DEF PurgeLedger, TypeOK
  <2>2. book' \in [Symbols -> Shares]
    BY <1>3, LotAssumption DEF PurgeLedger, TypeOK, Shares
  <2> QED
    BY <1>3, <2>1, <2>2 DEF TypeOK, PurgeLedger, PcValues, broker, audit, reads
<1>4. CASE BackfillBuys
  <2>1. buyAudited' \in [Symbols -> BOOLEAN]
    BY <1>4, Zenon DEF BackfillBuys, TypeOK
  <2>2. audited' \in [Symbols -> Nat]
    <3>1. CASE UNCHANGED <<buyAudited, audited>>
      BY <3>1 DEF TypeOK
    <3>2. ASSUME NEW B, audited' = [s \in Symbols |-> IF s \in B THEN audited[s] + heldSnap[s]
                                                               ELSE audited[s]]
          PROVE  audited' \in [Symbols -> Nat]
      BY <1>0, <3>2
    <3> QED
      BY <1>4, <3>1, <3>2, Zenon DEF BackfillBuys
  <2>3. faults' \in 0..MaxFaults
    BY <1>4, <1>f DEF BackfillBuys, TypeOK
  <2>4. pc' \in PcValues
    BY <1>4 DEF BackfillBuys, PcValues
  <2> QED
    BY <1>4, <2>1, <2>2, <2>3, <2>4 DEF TypeOK, BackfillBuys, broker, ledger, reads
<1>5. CASE ReconcileLedger
  <2>1. book' \in [Symbols -> Shares]
    BY <1>5 DEF ReconcileLedger, TypeOK
  <2> QED
    BY <1>5, <2>1 DEF TypeOK, ReconcileLedger, PcValues, broker, audit, reads
<1> QED
  BY <1>1, <1>2, <1>3, <1>4, <1>5

\* The targets of a cycle ask for between one share and the largest position.
LEMMA DecideKeepsTypes ==
  TypeOK /\ Decide => TypeOK' /\ (pc' = "loop" => targets' # <<>>)
<1> SUFFICES ASSUME TypeOK, Decide
             PROVE  TypeOK' /\ (pc' = "loop" => targets' # <<>>)
  OBVIOUS
<1>1. PICK signal \in [Symbols -> {"hold", "partial", "full"}] :
        LET sellable == {s \in Symbols : signal[s] # "hold"}
            target(s) == [sym |-> s, partial |-> signal[s] = "partial",
                          qty |-> IF signal[s] = "partial" THEN PartialQty(heldSnap[s])
                                                           ELSE heldSnap[s]]
        IN /\ \A s \in sellable : heldSnap[s] > 0
           /\ \E order \in [1..Cardinality(sellable) -> sellable] :
                targets' = [i \in 1..Cardinality(sellable) |-> target(order[i])]
  BY DEF Decide
<1> DEFINE sellable == {s \in Symbols : signal[s] # "hold"}
           n == Cardinality(sellable)
           target(s) == [sym |-> s, partial |-> signal[s] = "partial",
                         qty |-> IF signal[s] = "partial" THEN PartialQty(heldSnap[s])
                                                          ELSE heldSnap[s]]
<1>2. n \in Nat
  BY SymbolsAssumption, FS_Subset, FS_CardinalityType
<1>3. ASSUME NEW s \in sellable
      PROVE  target(s) \in Target
  <2>1. heldSnap[s] \in 1..MaxLot
    BY <1>1, LotAssumption DEF TypeOK, Shares
  <2>2. target(s).qty \in 1..MaxLot
    BY <2>1, PartialQtyInRange
  <2> QED
    BY <2>2 DEF Target
<1>4. PICK order \in [1..n -> sellable] : targets' = [i \in 1..n |-> target(order[i])]
  BY <1>1
<1>5. targets' \in Seq(Target)
  <2>1. \A i \in 1..n : target(order[i]) \in Target
    <3> HIDE DEF sellable, n, target
    <3> QED
      BY <1>3, <1>4
  <2> HIDE DEF n, target
  <2>2. targets' \in [1..n -> Target]
    BY <1>4, <2>1
  <2> QED
    BY <1>2, <2>2, SeqDef
<1>6. pc' \in PcValues /\ (pc' = "loop" => targets' # <<>>)
  BY DEF Decide, PcValues
<1> QED
  BY <1>5, <1>6 DEF TypeOK, Decide, broker, audit, ledger, reads

SellStep == SkipTarget \/ WriteIntent \/ GateRefuses \/ SendSell \/ AnswerOk \/ AnswerLost

\* The steps that handle one target keep the types and the number of rows
\* within the bound.
LEMMA SellStepsKeepTypes == TypeOK /\ PcInv /\ SellStep => TypeOK' /\ PcInv'
<1> SUFFICES ASSUME TypeOK, PcInv, SellStep
             PROVE  TypeOK' /\ PcInv'
  OBVIOUS
<1> DEFINE t == Head(targets)
           s == t.sym
<1>0. pc \in {"loop", "send", "await"}
  BY DEF SellStep, SkipTarget, WriteIntent, GateRefuses, SendSell, AnswerOk, AnswerLost
<1>t. /\ t \in Target /\ s \in Symbols /\ t.qty \in 1..MaxLot /\ t.partial \in BOOLEAN
      /\ Tail(targets) \in Seq(Target)
      /\ Len(targets) # 1 => Tail(targets) # <<>>
  BY <1>0, TargetInHand DEF Target
<1>n. ASSUME NextTarget
      PROVE  /\ targets' \in Seq(Target)
             /\ pc' \in PcValues \ {"mark", "purge"}
             /\ pc' \in {"loop", "send", "await"} => targets' # <<>>
  BY <1>t, <1>n DEF NextTarget, PcValues
<1>f. Fail => faults' \in 0..MaxFaults
  BY BoundAssumption DEF TypeOK, Fail
<1>l. Len(attempts[s]) \in Int /\ attempts[s] \in Seq(Attempt)
  BY <1>t, LenProperties DEF TypeOK
<1> DEFINE closed == [attempts EXCEPT ![s][Len(attempts[s])].intent = "unfilled"]
           ordered == [attempts EXCEPT ![s][Len(attempts[s])] =
                         [@ EXCEPT !.orderedAt = now, !.ordered = "open"]]
<1>r. /\ closed \in [Symbols -> Seq(Attempt)]
      /\ ordered \in [Symbols -> Seq(Attempt)]
      /\ \A x \in Symbols : /\ Len(closed[x]) = Len(attempts[x])
                            /\ Len(ordered[x]) = Len(attempts[x])
  BY <1>t, <1>l, RowUpdates
<1> HIDE DEF t, s, closed, ordered
<1>1. CASE SkipTarget
  BY <1>1, <1>n DEF TypeOK, PcInv, SkipTarget, broker, audit, ledger, reads
<1>2. CASE WriteIntent
  <2> DEFINE row == [qty |-> t.qty, partial |-> t.partial, intentAt |-> now,
                     intent |-> "open", orderedAt |-> Nothing, ordered |-> "none"]
             more == [attempts EXCEPT ![s] = Append(@, row)]
  <2>1. row \in Attempt
    BY <1>t DEF Attempt, TypeOK
  <2>2. Append(attempts[s], row) \in Seq(Attempt)
        /\ Len(Append(attempts[s], row)) = Len(attempts[s]) + 1
    BY <1>l, <2>1, AppendProperties
  <2>3. Len(attempts[s]) + 1 <= MaxAttempts
    BY <1>2, <1>l, BoundAssumption DEF WriteIntent, s, t
  <2>4. more \in [Symbols -> Seq(Attempt)] /\ \A x \in Symbols : Len(more[x]) <= MaxAttempts
    BY <1>t, <2>2, <2>3 DEF TypeOK, PcInv
  <2>5. CASE attempts' = more /\ pc' = "send" /\ UNCHANGED <<faults, targets>>
    BY <1>0, <1>2, <2>4, <2>5
    DEF TypeOK, PcInv, WriteIntent, PcValues, broker, ledger, reads
  <2>6. CASE Fail /\ NextTarget /\ UNCHANGED attempts
    BY <1>2, <1>n, <1>f, <2>6 DEF TypeOK, PcInv, WriteIntent, broker, ledger, reads
  <2> QED
    BY <1>2, <2>5, <2>6 DEF WriteIntent, t, s
<1>3. CASE GateRefuses
  <2>1. attempts' = closed \/ UNCHANGED attempts
    BY <1>3 DEF GateRefuses, closed, s, t
  <2>2. /\ attempts' \in [Symbols -> Seq(Attempt)]
        /\ \A x \in Symbols : Len(attempts'[x]) <= MaxAttempts
    BY <1>r, <2>1 DEF TypeOK, PcInv
  <2> QED
    BY <1>3, <1>n, <1>f, <2>2 DEF TypeOK, PcInv, GateRefuses, broker, ledger, reads
<1>4. CASE SendSell
  <2> DEFINE o == [side |-> "sell", sym |-> t.sym, left |-> t.qty, sentAt |-> now,
                   listed |-> FALSE, partial |-> t.partial, touched |-> FALSE]
  <2>1. o \in Order
    BY <1>t DEF Order, TypeOK, s
  <2>2. orders' \subseteq Order /\ accepted' \in BOOLEAN /\ faults' \in 0..MaxFaults
    <3> HIDE DEF o
    <3>1. orders' = orders \cup {o} \/ orders' = orders
      BY <1>4 DEF SendSell, o, t
    <3> QED
      BY <1>4, <1>f, <2>1, <3>1 DEF SendSell, TypeOK
  <2> QED
    BY <1>0, <1>4, <2>2 DEF TypeOK, PcInv, SendSell, PcValues, audit, ledger, reads
<1>5. CASE AnswerOk
  <2>1. attempts' = ordered \/ UNCHANGED attempts
    BY <1>5 DEF AnswerOk, ordered, s, t
  <2>2. /\ attempts' \in [Symbols -> Seq(Attempt)]
        /\ \A x \in Symbols : Len(attempts'[x]) <= MaxAttempts
    BY <1>r, <2>1 DEF TypeOK, PcInv
  <2>3. faults' \in 0..MaxFaults
    BY <1>5, <1>f DEF AnswerOk, TypeOK
  <2> QED
    BY <1>5, <1>n, <2>2, <2>3 DEF TypeOK, PcInv, AnswerOk, broker, ledger, reads
<1>6. CASE AnswerLost
  <2>1. faults' \in 0..MaxFaults
    BY <1>6, <1>f DEF AnswerLost, TypeOK
  <2>2. targets' \in Seq(Target)
    BY <1>6, EmptySeq DEF AnswerLost
  <2> QED
    BY <1>6, <2>1, <2>2 DEF TypeOK, PcInv, AnswerLost, PcValues, broker, audit, ledger, reads
<1> QED
  BY <1>1, <1>2, <1>3, <1>4, <1>5, <1>6 DEF SellStep

\* A crash leaves every variable in its type.
LEMMA CrashKeepsTypes == TypeOK /\ Crash => TypeOK'
<1> SUFFICES ASSUME TypeOK, Crash
             PROVE  TypeOK'
  OBVIOUS
<1>1. faults' \in 0..MaxFaults
  BY BoundAssumption DEF TypeOK, Crash, Fail
<1>2. heldSnap' \in [Symbols -> Shares] /\ openAt' \in Time
  BY LotAssumption, BoundAssumption DEF Crash, Shares, Time
<1>3. targets' \in Seq(Target)
  BY EmptySeq DEF Crash
<1> QED
  BY <1>1, <1>2, <1>3 DEF TypeOK, Crash, PcValues, broker, audit, ledger

(***************************************************************************)
(* What a cycle knows.  A buy can only add shares to a symbol the cycle has *)
(* seen pending, so for every other symbol the balance read afterwards is   *)
(* an upper bound of what the account holds from then on.                   *)
(***************************************************************************)
SnapInv ==
  pc # "idle" /\ openKnown =>
    \A s \in Symbols \ pending :
      LiveBuys(s) = {} /\ (pc # "balance" => held[s] <= heldSnap[s])

\* A position held, or being bought, is in the ledger.
LedgerInv ==
  /\ HeldStaysInLedger
  /\ \A s \in Symbols : LiveBuys(s) # {} => book[s] > 0

\* The audit covers what is held, and a buy is confirmed only when it is done.
AuditInv ==
  /\ AuditCoversHoldings
  /\ \A s \in Symbols : buyAudited[s] => LiveBuys(s) = {}

IInv == TypeOK /\ BuyInv /\ PcInv /\ SnapInv /\ LedgerInv /\ AuditInv

Quiet == Tick \/ Daemon \/ Crash \/ UNCHANGED vars

\* Only the broker moves shares and only a sell is ever added to its orders.
LEMMA QuietKeepsBroker ==
  Quiet => held' = held /\ \A s \in Symbols : LiveBuys(s)' = LiveBuys(s)
<1> SUFFICES ASSUME Quiet
             PROVE  held' = held /\ \A s \in Symbols : LiveBuys(s)' = LiveBuys(s)
  OBVIOUS
<1>1. CASE SendSell
  <2> DEFINE t == Head(targets)
             o == [side |-> "sell", sym |-> t.sym, left |-> t.qty, sentAt |-> now,
                   listed |-> FALSE, partial |-> t.partial, touched |-> FALSE]
  <2>1. orders' = orders \cup {o} \/ orders' = orders
    BY <1>1 DEF SendSell
  <2>2. o.side # "buy"
    OBVIOUS
  <2> HIDE DEF o
  <2>3. \A s \in Symbols : LiveBuys(s)' = LiveBuys(s)
    BY <2>1, <2>2 DEF LiveBuys
  <2> QED
    BY <1>1, <2>3 DEF SendSell
<1>2. CASE ~SendSell
  <2>1. UNCHANGED broker
    BY <1>2 DEF Quiet, Tick, Daemon, Crash, vars, ReadOpenOrders, ReadBalance, ConfirmSells,
                SkipConfirm, MarkPartials, PurgeLedger, BackfillBuys, ReconcileLedger,
                Decide, SkipTarget, WriteIntent, GateRefuses, AnswerOk, AnswerLost
  <2> QED
    BY <2>1 DEF broker, LiveBuys
<1> QED
  BY <1>1, <1>2

\* The broker adds shares only to a symbol with a working buy, and never
\* starts a buy.
LEMMA BrokerBuys ==
  ASSUME TypeOK, Broker, NEW s \in Symbols, LiveBuys(s) = {}
  PROVE  LiveBuys(s)' = {} /\ held'[s] <= held[s]
<1>1. PICK o \in orders :
        ListOrder(o) \/ (\E q \in 1..MaxLot : FillOrder(o, q)) \/ CancelOrder(o)
  BY DEF Broker
<1>2. o \in Order /\ o.sym \in Symbols /\ held[s] \in Int
  BY LotAssumption DEF TypeOK, Order, Shares
<1>3. ~(o.side = "buy" /\ o.sym = s)
  BY DEF LiveBuys
<1>4. ASSUME NEW n, n.side = o.side, n.sym = o.sym, orders' \subseteq orders \cup {n}
      PROVE  LiveBuys(s)' = {}
  BY <1>3, <1>4 DEF LiveBuys
<1>5. CASE ListOrder(o)
  <2> DEFINE n == [o EXCEPT !.listed = TRUE]
  <2>1. n.side = o.side /\ n.sym = o.sym
    BY <1>2 DEF Order
  <2>2. orders' \subseteq orders \cup {n} /\ held' = held
    BY <1>5 DEF ListOrder
  <2> HIDE DEF n
  <2> QED
    BY <1>2, <1>4, <2>1, <2>2
<1>6. CASE \E q \in 1..MaxLot : FillOrder(o, q)
  <2>1. PICK q \in 1..MaxLot : FillOrder(o, q)
    BY <1>6
  <2> DEFINE n == [o EXCEPT !.left = @ - q, !.touched = TRUE]
  <2>2. n.side = o.side /\ n.sym = o.sym
    BY <1>2 DEF Order
  <2>3. orders' \subseteq orders \cup {n}
    BY <2>1 DEF FillOrder, WithFill
  <2>4. held'[s] <= held[s]
    BY <1>2, <1>3, <2>1 DEF TypeOK, FillOrder
  <2> HIDE DEF n
  <2> QED
    BY <1>4, <2>2, <2>3, <2>4
<1>7. CASE CancelOrder(o)
  BY <1>2, <1>7 DEF CancelOrder, LiveBuys
<1> QED
  BY <1>1, <1>5, <1>6, <1>7

\* A broker step keeps what the cycle knows, the ledger and the audit sound.
LEMMA BrokerKeepsIInv == IInv /\ Broker => IInv'
<1> SUFFICES ASSUME IInv, Broker
             PROVE  IInv'
  OBVIOUS
<1>1. UNCHANGED <<audit, ledger, pc, reads, targets>>
  BY DEF Broker, ListOrder, FillOrder, CancelOrder
<1>2. \A s \in Symbols : LiveBuys(s) = {} => LiveBuys(s)' = {} /\ held'[s] <= held[s]
  BY BrokerBuys DEF IInv
<1>3. TypeOK' /\ BuyInv'
  BY BrokerKeepsTypes, BrokerKeepsBuyInv DEF IInv
<1>4. PcInv'
  BY <1>1 DEF IInv, PcInv, reads, audit
<1>5. /\ \A s \in Symbols : held[s] \in Int /\ heldSnap[s] \in Int /\ held'[s] \in Int
      /\ \A s \in Symbols : audited[s] \in Int /\ book[s] \in Int
  BY <1>3, LotAssumption DEF IInv, TypeOK, Shares
<1>6. SnapInv'
  BY <1>1, <1>2, <1>5 DEF IInv, SnapInv, reads
<1>7. LedgerInv'
  BY <1>1, <1>2, <1>5 DEF IInv, LedgerInv, HeldStaysInLedger, ledger
<1>8. AuditInv'
  BY <1>1, <1>2, <1>5 DEF IInv, AuditInv, AuditCoversHoldings, audit
<1> QED
  BY <1>3, <1>4, <1>6, <1>7, <1>8 DEF IInv

\* Types and control state are kept by the steps of the daemon and the clock.
LEMMA QuietKeepsTypes == TypeOK /\ PcInv /\ Quiet => TypeOK' /\ PcInv'
<1> SUFFICES ASSUME TypeOK, PcInv, Quiet
             PROVE  TypeOK' /\ PcInv'
  OBVIOUS
<1>1. CASE Tick
  <2>1. now' \in Time
    BY <1>1, BoundAssumption DEF Tick, TypeOK, Time
  <2> QED
    BY <1>1, <2>1 DEF Tick, TypeOK, PcInv, broker, audit, ledger, reads
<1>2. CASE ReadOpenOrders \/ ReadBalance
  <2>1. PcInv'
    BY <1>2 DEF PcInv, ReadOpenOrders, ReadBalance, audit
  <2> QED
    BY <1>2, <2>1, ReadsKeepTypes
<1>3. CASE ConfirmSells
  <2>1. TypeOK' /\ \A s \in Symbols : Len(attempts'[s]) = Len(attempts[s])
    BY <1>3, ConfirmKeepsTypes
  <2> QED
    BY <1>3, <2>1 DEF PcInv, ConfirmSells
<1>4. CASE SkipConfirm \/ MarkPartials \/ PurgeLedger \/ BackfillBuys \/ ReconcileLedger
  <2>1. UNCHANGED <<attempts, openKnown>>
    BY <1>4 DEF SkipConfirm, MarkPartials, PurgeLedger, BackfillBuys, ReconcileLedger,
                audit, reads
  <2>2. pc' \in {"purge", "backfill", "idle", "reconcile", "decide"}
    BY <1>4 DEF SkipConfirm, MarkPartials, PurgeLedger, BackfillBuys, ReconcileLedger
  <2>3. pc' = "purge" => openKnown
    BY <1>4 DEF SkipConfirm, MarkPartials, PurgeLedger, BackfillBuys, ReconcileLedger, PcInv
  <2> QED
    BY <1>4, <2>1, <2>2, <2>3, LedgerStepsKeepTypes DEF PcInv
<1>5. CASE Decide
  <2>1. UNCHANGED attempts /\ pc' \in {"idle", "loop"}
    BY <1>5 DEF Decide, audit
  <2> QED
    BY <1>5, <2>1, DecideKeepsTypes DEF PcInv
<1>6. CASE SellStep
  BY <1>6, SellStepsKeepTypes
<1>7. CASE Crash
  <2>1. UNCHANGED attempts /\ pc' = "idle"
    BY <1>7 DEF Crash, audit
  <2> QED
    BY <1>7, <2>1, CrashKeepsTypes DEF PcInv
<1>8. CASE UNCHANGED vars
  BY <1>8 DEF vars, broker, audit, ledger, reads, TypeOK, PcInv
<1> QED
  BY <1>1, <1>2, <1>3, <1>4, <1>5, <1>6, <1>7, <1>8 DEF Quiet, Daemon, SellStep

\* The steps that leave the broker and the files alone keep the agreement between
\* the snapshots of the cycle and the broker.
LEMMA QuietKeepsSnapInv == IInv /\ Quiet => SnapInv'
<1> SUFFICES ASSUME IInv, Quiet, pc' # "idle", openKnown', NEW s \in Symbols \ pending'
             PROVE  LiveBuys(s)' = {} /\ (pc' # "balance" => held'[s] <= heldSnap'[s])
  BY DEF SnapInv
<1>1. held' = held /\ LiveBuys(s)' = LiveBuys(s) /\ held[s] \in Int
  BY QuietKeepsBroker, LotAssumption DEF IInv, TypeOK, Shares
<1>2. CASE ReadOpenOrders
  <2>1. pc' = "balance" /\ pending' = {o.sym : o \in {x \in orders : x.listed}}
    BY <1>2 DEF ReadOpenOrders
  <2>2. LiveBuys(s) = {}
    BY <2>1 DEF IInv, BuyInv, LiveBuys
  <2> QED
    BY <1>1, <2>1, <2>2
<1>3. CASE ReadBalance
  BY <1>1, <1>3 DEF IInv, SnapInv, ReadBalance
<1>4. CASE ~(ReadOpenOrders \/ ReadBalance)
  <2>1. UNCHANGED <<pending, openKnown, heldSnap>> /\ (pc = "balance" => pc' = "balance")
        /\ pc # "idle"
    BY <1>4 DEF Quiet, Tick, Daemon, Crash, vars, ConfirmSells, SkipConfirm, MarkPartials,
                PurgeLedger, BackfillBuys, ReconcileLedger, Decide, SkipTarget, WriteIntent,
                GateRefuses, SendSell, AnswerOk, AnswerLost, reads
  <2> QED
    BY <1>1, <2>1 DEF IInv, SnapInv
<1> QED
  BY <1>2, <1>3, <1>4

\* The same steps keep the ledger entry of every holding.
LEMMA QuietKeepsLedgerInv == IInv /\ Quiet => LedgerInv'
<1> SUFFICES ASSUME IInv, Quiet, NEW s \in Symbols
             PROVE  held'[s] > 0 \/ LiveBuys(s)' # {} => book'[s] > 0
  BY DEF LedgerInv, HeldStaysInLedger
<1>1. held' = held /\ LiveBuys(s)' = LiveBuys(s)
  BY QuietKeepsBroker
<1>2. held[s] \in Nat /\ heldSnap[s] \in Nat /\ book[s] \in Nat
  BY LotAssumption DEF IInv, TypeOK, Shares
<1>3. held[s] > 0 \/ LiveBuys(s) # {} => book[s] > 0
  BY DEF IInv, LedgerInv, HeldStaysInLedger
<1>4. CASE PurgeLedger
  <2>1. ASSUME heldSnap[s] = 0, s \notin pending
        PROVE  held[s] = 0 /\ LiveBuys(s) = {}
    BY <1>2, <1>4, <2>1 DEF IInv, SnapInv, PcInv, PurgeLedger
  <2>2. book'[s] = IF heldSnap[s] = 0 /\ s \notin pending THEN 0 ELSE book[s]
    BY <1>4 DEF PurgeLedger, Purgeable
  <2> QED
    BY <1>1, <1>2, <1>3, <2>1, <2>2
<1>5. CASE ReconcileLedger
  <2>1. book'[s] = book[s] \/ (book'[s] = heldSnap[s] /\ heldSnap[s] > 0)
    BY <1>5 DEF ReconcileLedger, Settled
  <2> QED
    BY <1>1, <1>3, <2>1
<1>6. CASE ~(PurgeLedger \/ ReconcileLedger)
  <2>1. book' = book
    BY <1>6 DEF Quiet, Tick, Daemon, Crash, vars, ReadOpenOrders, ReadBalance, ConfirmSells,
                SkipConfirm, MarkPartials, BackfillBuys, Decide, SkipTarget, WriteIntent,
                GateRefuses, SendSell, AnswerOk, AnswerLost, ledger
  <2> QED
    BY <1>1, <1>3, <2>1
<1> QED
  BY <1>4, <1>5, <1>6

\* The same steps keep the audited shares of every holding.
LEMMA QuietKeepsAuditInv == IInv /\ Quiet => AuditInv'
<1> SUFFICES ASSUME IInv, Quiet, NEW s \in Symbols, buyAudited'[s]
             PROVE  audited'[s] >= held'[s] /\ LiveBuys(s)' = {}
  BY DEF AuditInv, AuditCoversHoldings
<1>1. held' = held /\ LiveBuys(s)' = LiveBuys(s)
  BY QuietKeepsBroker
<1>2. held[s] \in Nat /\ heldSnap[s] \in Nat /\ audited[s] \in Nat
  BY LotAssumption DEF IInv, TypeOK, Shares
<1>3. buyAudited[s] => audited[s] >= held[s] /\ LiveBuys(s) = {}
  BY DEF IInv, AuditInv, AuditCoversHoldings
<1>4. CASE ConfirmSells
  <2>1. /\ audited'[s] \in Nat
        /\ s \in pending => audited'[s] >= audited[s]
        /\ audited'[s] >= audited[s] \/ audited'[s] >= heldSnap[s]
    BY <1>4, ConfirmBounds DEF IInv
  <2>2. s \notin pending => held[s] <= heldSnap[s]
    BY <1>4 DEF ConfirmSells, IInv, SnapInv
  <2>3. buyAudited[s]
    BY <1>4 DEF ConfirmSells
  <2> QED
    BY <1>1, <1>2, <1>3, <2>1, <2>2, <2>3
<1>5. CASE BackfillBuys
  <2>1. CASE buyAudited[s]
    <3>1. audited'[s] = audited[s]
      BY <1>5, <2>1 DEF BackfillBuys, IInv, TypeOK
    <3> QED
      BY <1>1, <1>3, <2>1, <3>1
  <2>2. CASE ~buyAudited[s]
    <3>1. Settled(s) /\ openKnown /\ audited'[s] = audited[s] + heldSnap[s]
      BY <1>5, <2>2 DEF BackfillBuys, IInv, TypeOK
    <3>2. held[s] <= heldSnap[s] /\ LiveBuys(s) = {}
      BY <1>5, <3>1 DEF Settled, BackfillBuys, IInv, SnapInv
    <3> QED
      BY <1>1, <1>2, <3>1, <3>2
  <2> QED
    BY <2>1, <2>2
<1>6. CASE ~(ConfirmSells \/ BackfillBuys)
  <2>1. UNCHANGED <<audited, buyAudited>>
    BY <1>6 DEF Quiet, Tick, Daemon, Crash, vars, ReadOpenOrders, ReadBalance,
                SkipConfirm, MarkPartials, PurgeLedger, ReconcileLedger, Decide, SkipTarget,
                WriteIntent, GateRefuses, SendSell, AnswerOk, AnswerLost, audit
  <2> QED
    BY <1>1, <1>3, <2>1
<1> QED
  BY <1>4, <1>5, <1>6

\* A daemon that starts with its holdings in the ledger and in the audit file
\* satisfies the inductive invariant.
LEMMA InitIInv == Init => IInv
<1> SUFFICES ASSUME Init
             PROVE  IInv
  OBVIOUS
<1> USE LotAssumption, BoundAssumption
<1>1. \A s \in Symbols : /\ held[s] \in Nat /\ book[s] \in 1..MaxLot
                         /\ held[s] <= book[s]
                         /\ buyAudited[s] => held[s] = book[s]
  BY DEF Init, Shares
<1> DEFINE buy(s) == [side |-> "buy", sym |-> s, left |-> book[s] - held[s], sentAt |-> 0,
                      listed |-> TRUE, partial |-> FALSE, touched |-> TRUE]
<1>o. orders = {buy(s) : s \in {x \in Symbols : held[x] < book[x]}}
  BY DEF Init
<1>2. orders \subseteq Order
  <2>1. \A s \in Symbols : held[s] < book[s] => book[s] - held[s] \in 1..MaxLot
    BY <1>1
  <2>2. 0 \in Time
    BY DEF Time
  <2>3. \A s \in Symbols : held[s] < book[s] => buy(s) \in Order
    BY <2>1, <2>2 DEF Order
  <2> HIDE DEF buy
  <2> QED
    BY <1>o, <2>3
<1>3. \A s \in Symbols : \A o \in LiveBuys(s) :
        /\ held[s] < book[s] /\ o.listed /\ o.left = book[s] - held[s]
        /\ \A p \in LiveBuys(s) : p = o
  <2>1. \A s \in Symbols : buy(s).sym = s /\ buy(s).listed /\ buy(s).left = book[s] - held[s]
    OBVIOUS
  <2> HIDE DEF buy
  <2>2. ASSUME NEW s \in Symbols, NEW o \in LiveBuys(s)
        PROVE  o = buy(s) /\ held[s] < book[s]
    BY <1>o, <2>1 DEF LiveBuys
  <2> QED
    BY <2>1, <2>2
<1>4. BuyInv
  BY <1>1, <1>3 DEF BuyInv
<1>5. TypeOK
  <2>1. audited \in [Symbols -> Nat]
    BY <1>1 DEF Init
  <2>2. book \in [Symbols -> Shares] /\ heldSnap \in [Symbols -> Shares]
    BY DEF Init, Shares
  <2>3. attempts \in [Symbols -> Seq(Attempt)] /\ targets \in Seq(Target)
    BY EmptySeq DEF Init
  <2>4. now \in Time /\ openAt \in Time /\ faults \in 0..MaxFaults /\ pc \in PcValues
    BY DEF Init, Time, PcValues
  <2>5. held \in [Symbols -> Shares] /\ buyAudited \in [Symbols -> BOOLEAN]
    BY DEF Init
  <2>6. /\ partialAudited \in [Symbols -> BOOLEAN] /\ partialDone \in [Symbols -> BOOLEAN]
        /\ partialSells \in [Symbols -> Nat]
    BY DEF Init
  <2>7. /\ openKnown \in BOOLEAN /\ intentsKnown \in BOOLEAN /\ accepted \in BOOLEAN
        /\ pending \subseteq Symbols /\ recent \subseteq Symbols
    BY DEF Init
  <2> QED
    BY <1>2, <2>1, <2>2, <2>3, <2>4, <2>5, <2>6, <2>7 DEF TypeOK
<1>6. PcInv
  <2>1. \A s \in Symbols : attempts[s] = <<>>
    BY DEF Init
  <2>2. \A q : q = <<>> => Len(q) = 0
    OBVIOUS
  <2> QED
    BY <2>1, <2>2 DEF Init, PcInv
<1>7. SnapInv
  BY DEF Init, SnapInv
<1>8. LedgerInv
  BY <1>1 DEF LedgerInv, HeldStaysInLedger
<1>9. AuditInv
  <2>1. \A s \in Symbols : buyAudited[s] => audited[s] = held[s]
    BY DEF Init
  <2> QED
    BY <1>1, <1>3, <2>1 DEF AuditInv, AuditCoversHoldings
<1> QED
  BY <1>4, <1>5, <1>6, <1>7, <1>8, <1>9 DEF IInv

\* The inductive invariant holds in every reachable state.
THEOREM Invariance == Spec => []IInv
<1>1. Init => IInv
  BY InitIInv
<1>2. IInv /\ [Next]_vars => IInv'
  <2>1. [Next]_vars => Broker \/ Quiet
    BY DEF Next, Quiet
  <2>2. IInv /\ Quiet => IInv'
    <3>1. IInv /\ Quiet => TypeOK' /\ PcInv'
      BY QuietKeepsTypes DEF IInv
    <3>2. IInv /\ Quiet => BuyInv'
      BY QuietKeepsBroker DEF IInv, BuyInv
    <3> QED
      BY <3>1, <3>2, QuietKeepsSnapInv, QuietKeepsLedgerInv, QuietKeepsAuditInv DEF IInv
  <2> QED
    BY <2>1, <2>2, BrokerKeepsIInv
<1> QED
  BY <1>1, <1>2, PTL DEF Spec

\* Every variable of the cycle, the broker and the two files keeps its type.
THEOREM TypeCorrect == Spec => []TypeOK
<1>1. IInv => TypeOK
  BY DEF IInv
<1> QED
  BY <1>1, Invariance, PTL

\* A held position never loses its ledger entry: what _sync_positions removes
\* is neither held nor being bought (intraday_buy_daemon.py l.311-357).
THEOREM LedgerKeepsHoldings == Spec => []HeldStaysInLedger
<1>1. IInv => HeldStaysInLedger
  BY DEF IInv, LedgerInv
<1> QED
  BY <1>1, Invariance, PTL

\* The audit never confirms a sale that did not happen, even when open orders
\* and balance are torn (intraday_buy_daemon.py l.624-785).
THEOREM AuditNeverOversells == Spec => []AuditCoversHoldings
<1>1. IInv => AuditCoversHoldings
  BY DEF IInv, AuditInv
<1> QED
  BY <1>1, Invariance, PTL

(***************************************************************************)
(* The invariant                                                           *)
(***************************************************************************)

\* The rows of the last sell of a symbol.
LastOf(s) == attempts[s][Len(attempts[s])]

RowOpen(a) == a.intent = "open" \/ a.ordered = "open"

\* The row keeps the symbol from being sold for the grace period.
Protects(a) == a.intent = "open" /\ a.ordered # "filled"

\* A working sell is alone, fits the account, and has the last row, which
\* protects it and asks for no less than is left and already missing.
SellOk(s) ==
  \A o \in LiveSells(s) :
    /\ \A p \in LiveSells(s) : p = o
    /\ LiveBuys(s) = {} /\ buyAudited[s]
    /\ o.left <= held[s]
    /\ o.listed \/ now <= o.sentAt + ListDelay
    /\ attempts[s] # <<>>
    /\ Protects(LastOf(s)) /\ LastOf(s).intentAt = o.sentAt
    /\ audited[s] - held[s] <= LastOf(s).qty - o.left
    /\ o.listed \/ LastOf(s).qty = o.left

\* What the last sell has sold is booked, or its row is open for all of it.
RowOk(s) ==
  audited[s] > held[s] /\ LiveSells(s) = {} =>
    attempts[s] # <<>> /\ RowOpen(LastOf(s)) /\ audited[s] - held[s] <= LastOf(s).qty

\* Nothing has been sold of a position whose buy is not confirmed.
NewOk(s) == ~buyAudited[s] => audited[s] = 0 /\ heldSnap[s] <= held[s]

\* The last row of the symbol was written when its order could still be unlisted
\* at the read of the open orders.
Fresh(s) ==
  attempts[s] # <<>> /\ Protects(LastOf(s)) /\ openAt <= LastOf(s).intentAt + ListDelay

\* Between the reads, a symbol not seen pending has no sell working that has
\* sold anything the balance can show, or its row protects it.
ReadOk(s) ==
  openKnown /\ s \notin pending =>
    /\ pc = "balance" => LiveSells(s) = {} \/ (Fresh(s) /\ audited[s] <= held[s])
    /\ pc = "confirm" => \/ LiveSells(s) = {} /\ heldSnap[s] = held[s]
                         \/ Fresh(s) /\ audited[s] <= heldSnap[s]

\* Nothing works at the broker and all that was sold is booked.
Clear(s) ==
  /\ LiveSells(s) = {} /\ LiveBuys(s) = {}
  /\ heldSnap[s] = held[s]
  /\ held[s] > 0 => buyAudited[s] /\ audited[s] <= held[s]

\* The symbols the loop has still to decide about.
ToSell == {targets[i].sym : i \in {j \in 1..Len(targets) : pc = "await" => j > 1}}

\* The cycle may still send a sell of the symbol.
Waiting(s) ==
  /\ openKnown /\ intentsKnown /\ s \notin pending /\ s \notin recent
  /\ \/ pc \in {"mark", "purge", "backfill", "reconcile", "decide"}
     \/ pc \in {"loop", "send", "await"} /\ s \in ToSell

ClearOk(s) == Waiting(s) => Clear(s)

ClockInv == pc \in {"balance", "confirm"} => now <= openAt + ReadSpan

\* The targets are of different symbols and fit the balance.
TargetInv ==
  pc \in {"loop", "send", "await"} =>
    /\ \A i, j \in 1..Len(targets) : targets[i].sym = targets[j].sym => i = j
    /\ \A i \in 1..Len(targets) : targets[i].qty <= heldSnap[targets[i].sym]

\* Between its INTENT row and the request nothing happens to a target.
HeadInv ==
  pc = "send" =>
    LET t == Head(targets) IN
    /\ openKnown /\ intentsKnown /\ t.sym \notin pending /\ t.sym \notin recent
    /\ attempts[t.sym] # <<>> /\ Protects(LastOf(t.sym))
    /\ LastOf(t.sym).intentAt = now /\ LastOf(t.sym).qty = t.qty

SymbolOk(s) == SellOk(s) /\ RowOk(s) /\ NewOk(s) /\ ReadOk(s) /\ ClearOk(s)

SymbolInv == \A s \in Symbols : SymbolOk(s)

OrderInv == SymbolInv /\ ClockInv /\ TargetInv /\ HeadInv

(***************************************************************************)
(* Facts about rows and targets                                            *)
(***************************************************************************)

LEMMA LastTyped ==
  ASSUME TypeOK, NEW s \in Symbols, attempts[s] # <<>>
  PROVE  /\ Len(attempts[s]) \in Nat /\ Len(attempts[s]) > 0
         /\ Len(attempts[s]) \in 1..Len(attempts[s])
         /\ LastOf(s) \in Attempt
         /\ LastOf(s).qty \in 1..MaxLot /\ LastOf(s).intentAt \in Time
<1>1. attempts[s] \in Seq(Attempt)
  BY DEF TypeOK
<1>2. Len(attempts[s]) \in Nat /\ Len(attempts[s]) > 0
  BY <1>1, EmptySeq, LenProperties
<1>3. LastOf(s) \in Attempt
  BY <1>1, <1>2, ElementOfSeq DEF LastOf
<1> QED
  BY <1>2, <1>3 DEF Attempt

LEMMA Typed ==
  ASSUME TypeOK, NEW s \in Symbols
  PROVE  /\ held[s] \in Nat /\ heldSnap[s] \in Nat /\ audited[s] \in Nat
         /\ now \in Nat /\ openAt \in Nat
         /\ buyAudited[s] \in BOOLEAN
         /\ attempts[s] \in Seq(Attempt)
  BY LotAssumption, BoundAssumption DEF TypeOK, Shares, Time, Order

LEMMA OrderTyped ==
  ASSUME TypeOK, NEW o \in orders
  PROVE  /\ o \in Order /\ o.sym \in Symbols /\ o.left \in Nat /\ o.left > 0
         /\ o.sentAt \in Nat /\ o.listed \in BOOLEAN /\ o.side \in {"buy", "sell"}
  BY LotAssumption, BoundAssumption DEF TypeOK, Time, Order

\* What a symbol's facts depend on.
LEMMA SymbolFrame ==
  ASSUME NEW s \in Symbols, SymbolOk(s),
         LiveSells(s)' = LiveSells(s), LiveBuys(s)' = LiveBuys(s), held'[s] = held[s],
         UNCHANGED <<now, attempts, audited, buyAudited, pc, reads, targets>>
  PROVE  SymbolOk(s)'
<1>1. SellOk(s)' /\ RowOk(s)' /\ NewOk(s)'
  BY DEF SymbolOk, SellOk, RowOk, NewOk, LastOf, reads
<1>2. ReadOk(s)' /\ ClearOk(s)'
  BY DEF SymbolOk, ReadOk, ClearOk, Waiting, Clear, Fresh, LastOf, ToSell, reads
<1> QED
  BY <1>1, <1>2 DEF SymbolOk

\* Where the facts about rows and orders come from.
LEMMA AccountFrame ==
  ASSUME NEW s \in Symbols, SymbolOk(s),
         LiveSells(s)' = LiveSells(s), LiveBuys(s)' = LiveBuys(s), held'[s] = held[s],
         now' = now, attempts'[s] = attempts[s], audited'[s] = audited[s],
         buyAudited'[s] = buyAudited[s], heldSnap'[s] = heldSnap[s]
  PROVE  SellOk(s)' /\ RowOk(s)' /\ NewOk(s)'
  BY DEF SymbolOk, SellOk, RowOk, NewOk, LastOf

\* A symbol that is still waiting stays clear.
LEMMA ClearFrame ==
  ASSUME NEW s \in Symbols, SymbolOk(s), Waiting(s)' => Waiting(s),
         LiveSells(s)' = LiveSells(s), LiveBuys(s)' = LiveBuys(s), held'[s] = held[s],
         audited'[s] = audited[s], buyAudited'[s] = buyAudited[s], heldSnap'[s] = heldSnap[s]
  PROVE  ClearOk(s)'
  BY DEF SymbolOk, ClearOk, Clear

\* The largest of finitely many numbers.
LEMMA LargestOf ==
  ASSUME NEW m \in Nat, NEW T, T \subseteq 0..m, T # {}
  PROVE  \E j \in T : \A k \in T : k <= j
<1> DEFINE S == 0..m
           rest(j) == j..m
           U == {rest(j) : j \in T}
<1>1. IsFiniteSet(S)
  BY FS_Interval
<1>2. IsWellFoundedOn(StrictSubsetOrdering(S), FiniteSubsetsOf(S))
  BY FS_StrictSubsetOrderingWellFounded
<1>3. FiniteSubsetsOf(S) = SUBSET S
  BY <1>1, FS_FiniteSubsetsOfFinite
<1>4. U \subseteq SUBSET S /\ U # {}
  <2>1. \A j \in T : rest(j) \in SUBSET S
    OBVIOUS
  <2> HIDE DEF rest, S
  <2> QED
    BY <2>1
<1> HIDE DEF U
<1>5. PICK x \in U : \A y \in U : ~ (<<y, x>> \in StrictSubsetOrdering(S))
  BY <1>2, <1>3, <1>4, WFMin
<1>6. PICK j \in T : x = rest(j)
  BY DEF U
<1>7. ASSUME NEW k \in T, ~(k <= j)
      PROVE  FALSE
  <2>1. rest(k) \subseteq rest(j) /\ j \in rest(j) /\ j \notin rest(k)
    BY <1>7
  <2>2. rest(k) \in SUBSET S /\ rest(j) \in SUBSET S /\ rest(k) \in U
    BY DEF U
  <2> HIDE DEF rest, S
  <2>3. <<rest(k), rest(j)>> \in StrictSubsetOrdering(S)
    BY <2>1, <2>2 DEF StrictSubsetOrdering
  <2> QED
    BY <1>5, <1>6, <2>2, <2>3
<1> QED
  BY <1>7

(***************************************************************************)
(* What a confirmation books                                               *)
(***************************************************************************)

\* Once nothing is left to attribute, nothing is left for the older attempts.
LEMMA AttributionEnds ==
  ASSUME TypeOK, NEW s \in Symbols, Len(attempts[s]) <= MaxAttempts,
         NEW gap \in [0..MaxAttempts -> 0..MaxLot], Attribution(s, gap),
         NEW m \in 0..Len(attempts[s]), gap[m] = 0
  PROVE  \A i \in 0..m : gap[i] = 0
<1> DEFINE n == Len(attempts[s])
           T == {i \in 0..m : gap[i] # 0}
<1>1. n \in Nat /\ m \in Nat /\ m <= n
  BY LenProperties DEF TypeOK
<1> SUFFICES ASSUME T # {}
             PROVE  FALSE
  OBVIOUS
<1>2. T \subseteq 0..m
  OBVIOUS
<1>3. PICK j \in T : \A k \in T : k <= j
  BY <1>1, <1>2, LargestOf
<1>4. j \in 0..m /\ gap[j] # 0 /\ j # m
  OBVIOUS
<1>5. j + 1 \in 0..m /\ j + 1 \in 1..n /\ ~(j + 1 <= j) /\ (j + 1) - 1 = j
  BY <1>1, <1>4
<1>6. gap[j + 1] = 0
  BY <1>3, <1>5
<1>7. gap[j] = gap[j + 1] - Taken(attempts[s][j + 1], gap[j + 1])
  BY <1>5 DEF Attribution
<1>8. attempts[s][j + 1].qty \in Nat
  <2>1. attempts[s] \in Seq(Attempt)
    BY DEF TypeOK
  <2>2. attempts[s][j + 1] \in Attempt
    BY <1>5, <2>1, ElementOfSeq
  <2> QED
    BY <2>2, LotAssumption DEF Attempt
<1>9. Taken(attempts[s][j + 1], 0) = 0
  BY <1>8 DEF Taken, TakenByOrdered, TakenByIntent, LesserOf
<1> QED
  BY <1>4, <1>6, <1>7, <1>9

\* A row that nothing is booked on stays as it is.
LEMMA NothingToMark ==
  ASSUME NEW a \in Attempt
  PROVE  MarkFilled(a, 0) = a /\ Taken(a, 0) = 0
<1>1. a.qty \in Nat
  BY LotAssumption DEF Attempt
<1>2. TakenByOrdered(a, 0) = 0 /\ TakenByIntent(a, 0) = 0
  BY <1>1 DEF TakenByOrdered, TakenByIntent, LesserOf
<1>3. [a EXCEPT !.ordered = a.ordered, !.intent = a.intent] = a
  <2>1. [a EXCEPT !.ordered = a.ordered] = a
    BY DEF Attempt
  <2>2. [a EXCEPT !.intent = a.intent] = a
    BY DEF Attempt
  <2> QED
    BY <2>1, <2>2
<1>4. MarkFilled(a, 0) = [a EXCEPT !.ordered = a.ordered, !.intent = a.intent]
  <2>1. ~ (TakenByOrdered(a, 0) > 0) /\ ~ (TakenByIntent(a, 0) > 0)
    BY <1>2
  <2> QED
    BY <2>1, Zenon DEF MarkFilled
<1>5. Taken(a, 0) = 0
  BY <1>2 DEF Taken
<1> QED
  BY <1>3, <1>4, <1>5

\* An open row for all that is missing takes all of it.
LEMMA OpenRowTakesAll ==
  ASSUME NEW a \in Attempt, RowOpen(a), NEW g \in Nat, g <= a.qty
  PROVE  Taken(a, g) = g
<1>1. a.qty \in Nat
  BY LotAssumption DEF Attempt
<1> QED
  BY <1>1 DEF RowOpen, Taken, TakenByOrdered, TakenByIntent, LesserOf

\* What ConfirmSells does to one symbol: it leaves it alone when the balance
\* shows nothing missing, and brings the audit to the balance when the last
\* row is open for all that is missing.
LEMMA ConfirmBooks ==
  ASSUME TypeOK, PcInv, ConfirmSells, NEW s \in Symbols
  PROVE  /\ attempts[s] = <<>> <=> attempts'[s] = <<>>
         /\ ~Confirmable(s) \/ audited[s] <= heldSnap[s] =>
              attempts'[s] = attempts[s] /\ audited'[s] = audited[s]
         /\ Confirmable(s) /\ audited[s] > heldSnap[s] /\ attempts[s] # <<>>
              /\ RowOpen(LastOf(s)) /\ audited[s] - heldSnap[s] <= LastOf(s).qty =>
              audited'[s] = heldSnap[s]
<1>1. PICK gap \in [Symbols -> [0..MaxAttempts -> 0..MaxLot]] :
        /\ \A x \in Symbols : Attribution(x, gap[x])
        /\ attempts' = [x \in Symbols |->
                          [i \in 1..Len(attempts[x]) |->
                             MarkFilled(attempts[x][i], gap[x][i])]]
        /\ audited' = [x \in Symbols |->
                         audited[x] - (gap[x][Len(attempts[x])] - gap[x][0])]
  BY DEF ConfirmSells
<1> DEFINE n == Len(attempts[s])
           g == gap[s]
<1>2. n \in Nat /\ n <= MaxAttempts /\ g \in [0..MaxAttempts -> 0..MaxLot]
  BY <1>1, LenProperties DEF TypeOK, PcInv
<1>3. Attribution(s, g)
  BY <1>1
<1>4. attempts'[s] = [i \in 1..n |-> MarkFilled(attempts[s][i], g[i])]
  BY <1>1
<1>5. audited'[s] = audited[s] - (g[n] - g[0])
  BY <1>1
<1>6. g[n] = IF Confirmable(s) THEN Gap(s) ELSE 0
  BY <1>3 DEF Attribution
<1>7. audited[s] \in Nat /\ heldSnap[s] \in Nat /\ attempts[s] \in Seq(Attempt)
  BY Typed
<1>8. n \in 0..n /\ 0 \in 0..n /\ MaxAttempts \in Nat
  BY <1>2, BoundAssumption
<1> HIDE DEF g, n
<1>9. ASSUME g[n] = 0
      PROVE  attempts'[s] = attempts[s] /\ audited'[s] = audited[s]
  <2>1. \A i \in 0..n : g[i] = 0
    BY <1>2, <1>3, <1>8, <1>9, AttributionEnds DEF n
  <2>2. \A i \in 1..n : attempts[s][i] \in Attempt
    BY <1>7, ElementOfSeq DEF n
  <2>3. \A i \in 1..n : MarkFilled(attempts[s][i], g[i]) = attempts[s][i]
    BY <1>2, <2>1, <2>2, NothingToMark
  <2>4. attempts[s] = [i \in 1..n |-> attempts[s][i]]
    BY <1>7, LenProperties DEF n
  <2> QED
    BY <1>4, <1>5, <1>7, <1>8, <2>1, <2>3, <2>4
<1>10. attempts[s] = <<>> <=> attempts'[s] = <<>>
  <2>1. Len(attempts'[s]) = Len(attempts[s]) /\ attempts'[s] \in Seq(Attempt)
    BY ConfirmKeepsTypes DEF TypeOK
  <2> QED
    BY <1>7, <2>1, EmptySeq
<1>11. ASSUME Confirmable(s), audited[s] > heldSnap[s], attempts[s] # <<>>,
              RowOpen(LastOf(s)), audited[s] - heldSnap[s] <= LastOf(s).qty
       PROVE  audited'[s] = heldSnap[s]
  <2>1. g[n] = audited[s] - heldSnap[s]
    BY <1>6, <1>11 DEF Gap
  <2>2. n \in 1..n /\ n - 1 \in 0..n /\ LastOf(s) \in Attempt
    BY <1>11, LastTyped DEF n
  <2>3. g[n - 1] = g[n] - Taken(attempts[s][n], g[n])
    BY <1>3, <2>2 DEF Attribution, n
  <2>4. Taken(LastOf(s), g[n]) = g[n]
    BY <1>7, <1>11, <2>1, <2>2, OpenRowTakesAll
  <2>5. g[n - 1] = 0
    BY <1>7, <2>1, <2>3, <2>4 DEF LastOf, n
  <2>6. g[0] = 0
    <3>1. n - 1 \in 0..Len(attempts[s]) /\ 0 \in 0..(n - 1)
      BY <1>2, <2>2 DEF n
    <3> QED
      BY <1>2, <1>3, <2>5, <3>1, AttributionEnds DEF n
  <2> QED
    BY <1>5, <1>7, <2>1, <2>6
<1>12. ~Confirmable(s) \/ audited[s] <= heldSnap[s] => g[n] = 0
  BY <1>6, <1>7 DEF Gap
<1> QED
  BY <1>9, <1>10, <1>11, <1>12

(***************************************************************************)
(* Steps of the broker                                                     *)
(***************************************************************************)

\* Orders of other symbols stay as they are.
LEMMA OtherSymbols ==
  ASSUME TypeOK, NEW o \in orders, NEW n, n.sym = o.sym,
         orders \ {o} \subseteq orders', orders' \subseteq (orders \ {o}) \cup {n},
         NEW s \in Symbols, s # o.sym
  PROVE  LiveSells(s)' = LiveSells(s) /\ LiveBuys(s)' = LiveBuys(s)
  BY DEF LiveSells, LiveBuys

LEMMA ListKeepsOrders ==
  ASSUME IInv, OrderInv, NEW o \in orders, ListOrder(o)
  PROVE  OrderInv'
<1> DEFINE n == [o EXCEPT !.listed = TRUE]
<1>1. /\ o \in Order /\ o.sym \in Symbols
      /\ n.sym = o.sym /\ n.side = o.side /\ n.left = o.left /\ n.sentAt = o.sentAt /\ n.listed
  BY DEF IInv, TypeOK, Order
<1>2. UNCHANGED <<now, held, audit, pc, reads, targets>> /\ ~o.listed
  BY DEF ListOrder
<1>3. orders' = (orders \ {o}) \cup {n}
  BY DEF ListOrder
<1> HIDE DEF n
<1>4. ASSUME NEW s \in Symbols, s # o.sym
      PROVE  SymbolOk(s)'
  <2>1. LiveSells(s)' = LiveSells(s) /\ LiveBuys(s)' = LiveBuys(s)
    BY <1>1, <1>3, <1>4, OtherSymbols DEF IInv
  <2> QED
    BY <1>2, <2>1, SymbolFrame DEF OrderInv, SymbolInv, audit
<1>5. SymbolOk(o.sym)'
  <2> DEFINE s == o.sym
  <2>1. s \in Symbols /\ SymbolOk(s)
    BY <1>1 DEF OrderInv, SymbolInv
  <2>2. o.side = "sell"
    BY <1>1, <1>2 DEF IInv, BuyInv, LiveBuys, Order
  <2>3. o \in LiveSells(s)
    BY <2>2 DEF LiveSells
  <2>4. LiveSells(s) = {o}
    BY <2>1, <2>3 DEF SymbolOk, SellOk
  <2>5. LiveSells(s)' = {n} /\ LiveBuys(s)' = LiveBuys(s)
    BY <1>1, <1>3, <2>2, <2>4 DEF LiveSells, LiveBuys
  <2> HIDE DEF s
  <2>6. SellOk(s)'
    BY <1>1, <1>2, <2>1, <2>3, <2>5 DEF SymbolOk, SellOk, LastOf, audit
  <2>7. RowOk(s)' /\ NewOk(s)'
    BY <1>2, <2>1, <2>4, <2>5 DEF SymbolOk, RowOk, NewOk, LastOf, audit, reads
  <2>8. ReadOk(s)' /\ ClearOk(s)'
    BY <1>2, <2>1, <2>4, <2>5
       DEF SymbolOk, ReadOk, ClearOk, Waiting, Clear, Fresh, LastOf, ToSell, audit, reads
  <2> QED
    BY <2>6, <2>7, <2>8 DEF SymbolOk, s
<1>6. ClockInv' /\ TargetInv' /\ HeadInv'
  BY <1>2 DEF OrderInv, ClockInv, TargetInv, HeadInv, LastOf, audit, reads
<1> QED
  BY <1>4, <1>5, <1>6 DEF OrderInv, SymbolInv

LEMMA CancelKeepsOrders ==
  ASSUME IInv, OrderInv, NEW o \in orders, CancelOrder(o)
  PROVE  OrderInv'
<1>1. o \in Order /\ o.sym \in Symbols /\ o.left \in Nat /\ o.left > 0
  BY LotAssumption DEF IInv, TypeOK, Order
<1>2. UNCHANGED <<now, held, audit, pc, reads, targets>> /\ orders' = orders \ {o}
  BY DEF CancelOrder
<1>4. ASSUME NEW s \in Symbols, s # o.sym
      PROVE  SymbolOk(s)'
  <2>1. LiveSells(s)' = LiveSells(s) /\ LiveBuys(s)' = LiveBuys(s)
    BY <1>2, <1>4 DEF LiveSells, LiveBuys
  <2> QED
    BY <1>2, <2>1, SymbolFrame DEF OrderInv, SymbolInv, audit
<1>5. SymbolOk(o.sym)'
  <2> DEFINE s == o.sym
  <2>1. s \in Symbols /\ SymbolOk(s)
    BY <1>1 DEF OrderInv, SymbolInv
  <2>2. /\ LiveBuys(s)' \subseteq LiveBuys(s) /\ LiveSells(s)' \subseteq LiveSells(s)
        /\ LiveSells(s)' # LiveSells(s) => o \in LiveSells(s) /\ LiveSells(s)' = {}
    <3>1. LiveBuys(s)' \subseteq LiveBuys(s) /\ LiveSells(s)' = LiveSells(s) \ {o}
      BY <1>2 DEF LiveSells, LiveBuys
    <3> QED
      BY <2>1, <3>1 DEF SymbolOk, SellOk
  <2>3. /\ held[s] \in Nat /\ audited[s] \in Nat /\ heldSnap[s] \in Nat
        /\ attempts[s] # <<>> => LastOf(s).qty \in Nat
    BY <2>1, Typed, LastTyped, LotAssumption DEF IInv
  <2> HIDE DEF s
  <2>6. SellOk(s)'
    BY <1>2, <2>1, <2>2 DEF SymbolOk, SellOk, LastOf, audit
  <2>7. RowOk(s)'
    <3>1. CASE LiveSells(s)' = LiveSells(s)
      BY <1>2, <2>1, <3>1 DEF SymbolOk, RowOk, LastOf, audit
    <3>2. CASE LiveSells(s)' # LiveSells(s)
      <4>1. /\ attempts[s] # <<>> /\ Protects(LastOf(s))
            /\ audited[s] - held[s] <= LastOf(s).qty - o.left
        BY <2>1, <2>2, <3>2 DEF SymbolOk, SellOk
      <4>2. RowOpen(LastOf(s)) /\ audited[s] - held[s] <= LastOf(s).qty
        BY <1>1, <2>3, <4>1 DEF RowOpen, Protects
      <4> QED
        BY <1>2, <4>1, <4>2 DEF RowOk, LastOf, audit
    <3> QED
      BY <3>1, <3>2
  <2>8. NewOk(s)' /\ ReadOk(s)' /\ ClearOk(s)'
    BY <1>2, <2>1, <2>2
       DEF SymbolOk, NewOk, ReadOk, ClearOk, Waiting, Clear, Fresh, LastOf, ToSell, audit, reads
  <2> QED
    BY <2>6, <2>7, <2>8 DEF SymbolOk, s
<1>6. ClockInv' /\ TargetInv' /\ HeadInv'
  BY <1>2 DEF OrderInv, ClockInv, TargetInv, HeadInv, LastOf, audit, reads
<1> QED
  BY <1>4, <1>5, <1>6 DEF OrderInv, SymbolInv

\* A buy that fills adds to a symbol without sells.
LEMMA BuyFillKeepsSymbol ==
  ASSUME IInv, OrderInv, NEW o \in orders, NEW q \in 1..MaxLot, FillOrder(o, q), o.side = "buy"
  PROVE  SymbolOk(o.sym)'
<1> DEFINE s == o.sym
<1>1. /\ o \in Order /\ s \in Symbols /\ SymbolOk(s)
      /\ held[s] \in Nat /\ audited[s] \in Nat /\ heldSnap[s] \in Nat
  <2>1. o \in Order /\ s \in Symbols
    BY OrderTyped DEF IInv
  <2> QED
    BY <2>1, Typed DEF IInv, OrderInv, SymbolInv
<1>2. UNCHANGED <<now, audit, pc, reads, targets>> /\ held'[s] = held[s] + q
  <2>1. held \in [Symbols -> Shares]
    BY DEF IInv, TypeOK
  <2>2. held' = [held EXCEPT ![s] = held[s] + q]
    BY DEF FillOrder
  <2>3. UNCHANGED <<now, audit, pc, reads, targets>>
    BY DEF FillOrder
  <2> QED
    BY <1>1, <2>1, <2>2, <2>3
<1>3. LiveBuys(s) # {}
  BY DEF LiveBuys
<1>4. LiveSells(s) = {}
  BY <1>1, <1>3 DEF SymbolOk, SellOk
<1>5. LiveSells(s)' = {}
  <2> DEFINE n == [o EXCEPT !.left = @ - q, !.touched = TRUE]
  <2>1. orders' \subseteq orders \cup {n}
    BY DEF FillOrder, WithFill
  <2>2. n.side = "buy"
    BY <1>1 DEF Order
  <2> HIDE DEF n
  <2> QED
    BY <1>4, <2>1, <2>2 DEF LiveSells
<1>6. q \in Nat /\ (attempts[s] # <<>> => LastOf(s).qty \in Nat)
  BY <1>1, LastTyped, LotAssumption DEF IInv
<1> HIDE DEF s
<1>7. SellOk(s)'
  BY <1>5 DEF SellOk
<1>8. RowOk(s)'
  <2> SUFFICES ASSUME audited'[s] > held'[s]
               PROVE  /\ attempts'[s] # <<>> /\ RowOpen(LastOf(s)')
                      /\ audited'[s] - held'[s] <= LastOf(s)'.qty
    BY DEF RowOk
  <2>1. audited[s] > held[s] /\ audited'[s] = audited[s] /\ attempts' = attempts
    BY <1>1, <1>2, <1>6 DEF audit
  <2>2. attempts[s] # <<>> /\ RowOpen(LastOf(s)) /\ audited[s] - held[s] <= LastOf(s).qty
    BY <1>1, <1>4, <2>1 DEF SymbolOk, RowOk
  <2>3. LastOf(s)' = LastOf(s)
    BY <2>1 DEF LastOf
  <2> QED
    BY <1>1, <1>2, <1>6, <2>1, <2>2, <2>3
<1>9. NewOk(s)'
  <2>1. heldSnap[s] <= held[s] => heldSnap'[s] <= held'[s]
    BY <1>1, <1>2, <1>6 DEF reads
  <2> QED
    BY <1>1, <1>2, <2>1 DEF SymbolOk, NewOk, audit
<1>10. ReadOk(s)'
  BY <1>1, <1>2, <1>3 DEF ReadOk, IInv, SnapInv, reads
<1>11. ClearOk(s)'
  BY <1>1, <1>2, <1>3 DEF SymbolOk, ClearOk, Waiting, Clear, ToSell, reads
<1> QED
  BY <1>7, <1>8, <1>9, <1>10, <1>11 DEF SymbolOk, s

\* A sell that fills takes from its symbol what its row asked for.
LEMMA SellFillKeepsSymbol ==
  ASSUME ~TornReads, IInv, OrderInv, NEW o \in orders, NEW q \in 1..MaxLot, FillOrder(o, q),
         o.side = "sell"
  PROVE  SymbolOk(o.sym)'
<1> DEFINE s == o.sym
           n == [o EXCEPT !.left = o.left - q, !.touched = TRUE]
<1>1. /\ o \in Order /\ s \in Symbols /\ SymbolOk(s)
      /\ held[s] \in Nat /\ audited[s] \in Nat /\ heldSnap[s] \in Nat
      /\ o.left \in Nat /\ q \in Nat
  <2>1. o \in Order /\ s \in Symbols /\ o.left \in Nat /\ q \in Nat
    BY OrderTyped, LotAssumption DEF IInv
  <2> QED
    BY <2>1, Typed DEF IInv, OrderInv, SymbolInv
<1>2. /\ UNCHANGED <<now, audit, pc, reads, targets>>
      /\ held'[s] = held[s] - q /\ q <= o.left /\ q <= held[s] /\ o.listed
      /\ q = o.left \/ pc # "balance" \/ s \in pending
  <2>1. held \in [Symbols -> Shares]
    BY DEF IInv, TypeOK
  <2>2. held' = [held EXCEPT ![s] = held[s] - q] /\ q <= held[s]
    BY DEF FillOrder
  <2>3. UNCHANGED <<now, audit, pc, reads, targets>>
    BY DEF FillOrder
  <2>4. q <= o.left /\ o.listed /\ (q = o.left \/ pc # "balance" \/ s \in pending)
    BY DEF FillOrder
  <2> QED
    BY <1>1, <2>1, <2>2, <2>3, <2>4
<1>3. /\ n.side = "sell" /\ n.sym = s /\ n.left = o.left - q /\ n.sentAt = o.sentAt
      /\ n.listed = o.listed
  BY <1>1 DEF Order
<1>4. orders' = (orders \ {o}) \cup (IF q = o.left THEN {} ELSE {n})
  BY DEF FillOrder, WithFill
<1>5. o \in LiveSells(s)
  BY DEF LiveSells
<1>6. /\ LiveSells(s) = {o} /\ LiveBuys(s) = {} /\ buyAudited[s]
      /\ o.left <= held[s]
      /\ attempts[s] # <<>>
      /\ Protects(LastOf(s)) /\ LastOf(s).intentAt = o.sentAt
      /\ audited[s] - held[s] <= LastOf(s).qty - o.left
  BY <1>1, <1>5 DEF SymbolOk, SellOk
<1> HIDE DEF n
<1>7. /\ LiveBuys(s)' = {}
      /\ q = o.left => LiveSells(s)' = {}
      /\ q # o.left => LiveSells(s)' = {n}
  BY <1>3, <1>4, <1>6 DEF LiveSells, LiveBuys
<1>8. LastOf(s).qty \in Nat
  BY <1>1, <1>6, LastTyped, LotAssumption DEF IInv
<1> HIDE DEF s
<1>9. LastOf(s)' = LastOf(s) /\ audited'[s] = audited[s]
  BY <1>2 DEF LastOf, audit
<1>10. SellOk(s)'
  <2> SUFFICES ASSUME NEW x \in LiveSells(s)'
               PROVE  /\ \A p \in LiveSells(s)' : p = x
                      /\ LiveBuys(s)' = {} /\ buyAudited'[s]
                      /\ x.left <= held'[s]
                      /\ x.listed \/ now' <= x.sentAt + ListDelay
                      /\ attempts'[s] # <<>>
                      /\ Protects(LastOf(s)') /\ LastOf(s)'.intentAt = x.sentAt
                      /\ audited'[s] - held'[s] <= LastOf(s)'.qty - x.left
                      /\ x.listed \/ LastOf(s)'.qty = x.left
    BY DEF SellOk
  <2>1. x = n /\ \A p \in LiveSells(s)' : p = x
    BY <1>7
  <2>2. x.left <= held'[s]
    BY <1>1, <1>2, <1>3, <1>6, <2>1
  <2>3. audited[s] - held'[s] <= LastOf(s).qty - x.left
    BY <1>1, <1>2, <1>3, <1>6, <1>8, <2>1
  <2> QED
    BY <1>2, <1>3, <1>6, <1>7, <1>9, <2>1, <2>2, <2>3 DEF audit
<1>11. RowOk(s)'
  <2>1. CASE q = o.left
    <3>1. audited[s] - held'[s] <= LastOf(s).qty
      BY <1>1, <1>2, <1>6, <1>8, <2>1
    <3> QED
      BY <1>2, <1>6, <1>9, <3>1 DEF RowOk, RowOpen, Protects, audit
  <2>2. CASE q # o.left
    BY <1>7, <2>2 DEF RowOk
  <2> QED
    BY <2>1, <2>2
<1>12. NewOk(s)'
  BY <1>2, <1>6 DEF NewOk, audit
<1>13. ReadOk(s)'
  <2>1. Fresh(s)' = Fresh(s)
    BY <1>2, <1>9 DEF Fresh, audit, reads
  <2> QED
    BY <1>1, <1>2, <1>6, <1>7, <1>9, <2>1 DEF SymbolOk, ReadOk, reads, s
<1>14. ClearOk(s)'
  BY <1>1, <1>2, <1>6 DEF SymbolOk, ClearOk, Waiting, Clear, ToSell, reads
<1> QED
  BY <1>10, <1>11, <1>12, <1>13, <1>14 DEF SymbolOk, s

LEMMA FillKeepsOrders ==
  ASSUME ~TornReads, IInv, OrderInv, NEW o \in orders, NEW q \in 1..MaxLot, FillOrder(o, q)
  PROVE  OrderInv'
<1> DEFINE n == [o EXCEPT !.left = o.left - q, !.touched = TRUE]
<1>1. o \in Order /\ o.sym \in Symbols /\ n.sym = o.sym
  BY DEF IInv, TypeOK, Order
<1>2. UNCHANGED <<now, audit, pc, reads, targets>>
  BY DEF FillOrder
<1>3. orders \ {o} \subseteq orders' /\ orders' \subseteq (orders \ {o}) \cup {n}
  BY DEF FillOrder, WithFill
<1> HIDE DEF n
<1>4. ASSUME NEW s \in Symbols, s # o.sym
      PROVE  SymbolOk(s)'
  <2>1. LiveSells(s)' = LiveSells(s) /\ LiveBuys(s)' = LiveBuys(s)
    BY <1>1, <1>3, <1>4, OtherSymbols DEF IInv
  <2>2. held'[s] = held[s]
    BY <1>4 DEF FillOrder, IInv, TypeOK
  <2> QED
    BY <1>2, <2>1, <2>2, SymbolFrame DEF OrderInv, SymbolInv, audit
<1>5. SymbolOk(o.sym)'
  BY <1>1, BuyFillKeepsSymbol, SellFillKeepsSymbol DEF Order
<1>6. ClockInv' /\ TargetInv' /\ HeadInv'
  BY <1>2 DEF OrderInv, ClockInv, TargetInv, HeadInv, LastOf, audit, reads
<1> QED
  BY <1>4, <1>5, <1>6 DEF OrderInv, SymbolInv

(***************************************************************************)
(* Steps of the daemon and the clock                                       *)
(***************************************************************************)

LEMMA TickKeepsOrders ==
  ASSUME IInv, OrderInv, Tick
  PROVE  OrderInv'
<1>1. /\ UNCHANGED <<broker, audit, pc, reads, targets>> /\ now' = now + 1 /\ pc # "send"
      /\ \A o \in orders : ~o.listed => now < o.sentAt + ListDelay
      /\ pc \in {"balance", "confirm"} => now < openAt + ReadSpan
  BY DEF Tick
<1>2. now \in Nat /\ openAt \in Nat
  BY BoundAssumption DEF IInv, TypeOK, Time
<1>3. ASSUME NEW s \in Symbols
      PROVE  SymbolOk(s)'
  <2>1. LiveSells(s)' = LiveSells(s) /\ LiveBuys(s)' = LiveBuys(s) /\ SymbolOk(s)
    BY <1>1 DEF LiveSells, LiveBuys, broker, OrderInv, SymbolInv
  <2>2. ASSUME NEW o \in LiveSells(s)
        PROVE  o.listed \/ now' <= o.sentAt + ListDelay
    BY <1>1, <1>2, OrderTyped, TimeAssumption DEF LiveSells, IInv
  <2>3. SellOk(s)'
    BY <1>1, <2>1, <2>2 DEF SymbolOk, SellOk, LastOf, broker, audit
  <2>4. RowOk(s)' /\ NewOk(s)'
    BY <1>1, <2>1 DEF SymbolOk, RowOk, NewOk, LastOf, broker, audit, reads
  <2>5. ReadOk(s)' /\ ClearOk(s)'
    BY <1>1, <2>1 DEF SymbolOk, ReadOk, ClearOk, Waiting, Clear, Fresh, LastOf, ToSell, broker,
                      audit, reads
  <2> QED
    BY <2>3, <2>4, <2>5 DEF SymbolOk
<1>4. ClockInv'
  BY <1>1, <1>2, TimeAssumption DEF ClockInv, reads
<1>5. TargetInv' /\ HeadInv'
  BY <1>1 DEF OrderInv, TargetInv, HeadInv, reads
<1> QED
  BY <1>3, <1>4, <1>5 DEF OrderInv, SymbolInv

LEMMA OpenReadKeepsOrders ==
  ASSUME IInv, OrderInv, ReadOpenOrders
  PROVE  OrderInv'
<1>1. /\ UNCHANGED <<now, broker, audit, heldSnap, targets>> /\ pc' = "balance" /\ openAt' = now
      /\ openKnown' => pending' = {o.sym : o \in {x \in orders : x.listed}}
  BY DEF ReadOpenOrders
<1>2. now \in Nat
  BY BoundAssumption DEF IInv, TypeOK, Time
<1>3. ASSUME NEW s \in Symbols
      PROVE  SymbolOk(s)'
  <2>1. LiveSells(s)' = LiveSells(s) /\ LiveBuys(s)' = LiveBuys(s) /\ SymbolOk(s)
    BY <1>1 DEF LiveSells, LiveBuys, broker, OrderInv, SymbolInv
  <2>2. SellOk(s)' /\ RowOk(s)' /\ NewOk(s)'
    BY <1>1, <2>1, AccountFrame DEF broker, audit
  <2>3. ASSUME openKnown', s \notin pending', NEW o \in LiveSells(s)
        PROVE  Fresh(s)' /\ audited'[s] <= held'[s]
    <3>1. ~o.listed
      BY <1>1, <2>3 DEF LiveSells
    <3>2. /\ attempts[s] # <<>> /\ Protects(LastOf(s)) /\ LastOf(s).intentAt = o.sentAt
          /\ now <= o.sentAt + ListDelay
          /\ audited[s] - held[s] <= LastOf(s).qty - o.left /\ LastOf(s).qty = o.left
      BY <2>1, <2>3, <3>1 DEF SymbolOk, SellOk
    <3>3. o.left \in Nat /\ audited[s] \in Nat /\ held[s] \in Nat
      BY Typed, OrderTyped DEF LiveSells, IInv
    <3> QED
      BY <1>1, <3>2, <3>3 DEF Fresh, LastOf, broker, audit
  <2>4. ReadOk(s)'
    BY <1>1, <2>1, <2>3 DEF ReadOk
  <2>5. ClearOk(s)'
    BY <1>1 DEF ClearOk, Waiting
  <2> QED
    BY <2>2, <2>4, <2>5 DEF SymbolOk
<1>4. ClockInv' /\ TargetInv' /\ HeadInv'
  BY <1>1, <1>2, TimeAssumption DEF ClockInv, TargetInv, HeadInv
<1> QED
  BY <1>3, <1>4 DEF OrderInv, SymbolInv

LEMMA BalanceReadKeepsOrders ==
  ASSUME IInv, OrderInv, ReadBalance
  PROVE  OrderInv'
<1>1. /\ UNCHANGED <<now, broker, audit, openAt, openKnown, pending, targets>>
      /\ pc = "balance"
      /\ (pc' = "idle" /\ heldSnap' = heldSnap) \/ (pc' = "confirm" /\ heldSnap' = held)
  BY DEF ReadBalance
<1>2. ASSUME NEW s \in Symbols
      PROVE  SymbolOk(s)'
  <2>1. LiveSells(s)' = LiveSells(s) /\ LiveBuys(s)' = LiveBuys(s) /\ SymbolOk(s)
    BY <1>1 DEF LiveSells, LiveBuys, broker, OrderInv, SymbolInv
  <2>2. SellOk(s)' /\ RowOk(s)'
    BY <1>1, <2>1 DEF SymbolOk, SellOk, RowOk, LastOf, broker, audit
  <2>3. NewOk(s)'
    <3>1. held[s] <= held[s]
      BY Typed DEF IInv
    <3> QED
      BY <1>1, <2>1, <3>1 DEF SymbolOk, NewOk, broker, audit
  <2>4. ReadOk(s)'
    BY <1>1, <2>1 DEF SymbolOk, ReadOk, Fresh, LastOf, broker, audit
  <2>5. ClearOk(s)'
    BY <1>1 DEF ClearOk, Waiting
  <2> QED
    BY <2>2, <2>3, <2>4, <2>5 DEF SymbolOk
<1>3. ClockInv' /\ TargetInv' /\ HeadInv'
  BY <1>1 DEF OrderInv, ClockInv, TargetInv, HeadInv
<1> QED
  BY <1>2, <1>3 DEF OrderInv, SymbolInv

\* What a confirmation leaves of a symbol: its row, if the balance shows
\* nothing missing; the balance in the audit, if nothing of it works.
LEMMA ConfirmSymbol ==
  ASSUME IInv, OrderInv, ConfirmSells, NEW s \in Symbols
  PROVE  /\ \/ attempts'[s] = attempts[s] /\ audited'[s] = audited[s]
            \/ /\ s \notin pending /\ LiveSells(s) = {} /\ buyAudited[s]
               /\ heldSnap[s] = held[s] /\ audited'[s] = held[s]
         /\ LiveSells(s) = {} /\ s \notin pending /\ heldSnap[s] = held[s] /\ held[s] > 0 =>
              buyAudited[s] /\ audited'[s] <= held[s]
<1>1. /\ held[s] \in Nat /\ heldSnap[s] \in Nat /\ audited[s] \in Nat
      /\ SymbolOk(s) /\ TypeOK /\ PcInv /\ pc = "confirm" /\ openKnown
  BY Typed DEF IInv, OrderInv, SymbolInv, ConfirmSells
<1>2. /\ ~Confirmable(s) \/ audited[s] <= heldSnap[s] =>
           attempts'[s] = attempts[s] /\ audited'[s] = audited[s]
      /\ Confirmable(s) /\ audited[s] > heldSnap[s] /\ attempts[s] # <<>>
           /\ RowOpen(LastOf(s)) /\ audited[s] - heldSnap[s] <= LastOf(s).qty =>
           audited'[s] = heldSnap[s]
  BY <1>1, ConfirmBooks
<1>3. ASSUME Confirmable(s), audited[s] > heldSnap[s]
      PROVE  /\ s \notin pending /\ LiveSells(s) = {} /\ buyAudited[s]
             /\ heldSnap[s] = held[s] /\ audited'[s] = held[s]
  <2>1. s \notin pending /\ buyAudited[s]
    BY <1>3 DEF Confirmable
  <2>2. LiveSells(s) = {} /\ heldSnap[s] = held[s]
    BY <1>1, <1>3, <2>1 DEF SymbolOk, ReadOk
  <2>3. /\ attempts[s] # <<>> /\ RowOpen(LastOf(s))
        /\ audited[s] - heldSnap[s] <= LastOf(s).qty
    BY <1>1, <1>3, <2>2 DEF SymbolOk, RowOk
  <2> QED
    BY <1>2, <1>3, <2>1, <2>2, <2>3
<1>4. ASSUME s \notin pending, heldSnap[s] = held[s], held[s] > 0
      PROVE  Confirmable(s) /\ buyAudited[s]
  <2>1. IsAiSwing(s)
    BY <1>4 DEF IInv, LedgerInv, HeldStaysInLedger, IsAiSwing
  <2>2. buyAudited[s]
    BY <1>4, <2>1 DEF ConfirmSells, BuysConfirmed
  <2> QED
    BY <1>4, <2>1, <2>2 DEF Confirmable
<1>5. held[s] <= held[s] /\ (audited[s] <= heldSnap[s] \/ audited[s] > heldSnap[s])
  BY <1>1
<1> QED
  BY <1>2, <1>3, <1>4, <1>5

\* A row that could still be unlisted at the read is not older than the grace period.
LEMMA FreshIsRecent ==
  ASSUME TypeOK, NEW s \in Symbols, Fresh(s), now <= openAt + ReadSpan
  PROVE  IsRecent(attempts[s])
<1>1. /\ Len(attempts[s]) \in 1..Len(attempts[s]) /\ LastOf(s).intentAt \in Nat
      /\ openAt <= LastOf(s).intentAt + ListDelay
      /\ LastOf(s).intent = "open" /\ LastOf(s).ordered # "filled"
  BY LastTyped, BoundAssumption DEF Fresh, Protects, Time
<1>2. now \in Nat /\ openAt \in Nat
  BY BoundAssumption DEF TypeOK, Time
<1>3. now - LastOf(s).intentAt <= Grace
  BY <1>1, <1>2, TimeAssumption
<1> QED
  BY <1>1, <1>3 DEF IsRecent, LastOf

LEMMA ConfirmKeepsOrders ==
  ASSUME IInv, OrderInv, ConfirmSells
  PROVE  OrderInv'
<1>1. /\ UNCHANGED <<now, broker, buyAudited, openAt, openKnown, pending, heldSnap, targets>>
      /\ pc = "confirm" /\ openKnown /\ pc' = "mark"
      /\ recent' = {s \in Symbols : IsRecent(attempts'[s])}
  BY DEF ConfirmSells
<1>2. ASSUME NEW s \in Symbols
      PROVE  SymbolOk(s)'
  <2>1. /\ LiveSells(s)' = LiveSells(s) /\ LiveBuys(s)' = LiveBuys(s) /\ SymbolOk(s)
        /\ held'[s] = held[s] /\ heldSnap'[s] = heldSnap[s] /\ buyAudited'[s] = buyAudited[s]
    BY <1>1 DEF LiveSells, LiveBuys, broker, OrderInv, SymbolInv
  <2>2. SellOk(s)' /\ RowOk(s)' /\ NewOk(s)'
    <3>1. CASE attempts'[s] = attempts[s] /\ audited'[s] = audited[s]
      BY <1>1, <2>1, <3>1, AccountFrame
    <3>2. CASE LiveSells(s) = {} /\ buyAudited[s] /\ audited'[s] = held[s]
      <4>1. ~ (audited'[s] > held'[s])
        BY <2>1, <3>2, Typed DEF IInv
      <4> QED
        BY <2>1, <3>2, <4>1 DEF SellOk, RowOk, NewOk
    <3> QED
      BY <3>1, <3>2, ConfirmSymbol
  <2>3. ReadOk(s)'
    BY <1>1 DEF ReadOk
  <2>4. ASSUME s \notin pending, s \notin recent'
        PROVE  Clear(s)'
    <3>1. LiveSells(s) = {} /\ heldSnap[s] = held[s]
      <4> SUFFICES ASSUME Fresh(s), audited[s] <= heldSnap[s]
                   PROVE  FALSE
        BY <1>1, <2>1, <2>4 DEF SymbolOk, ReadOk
      <4>1. now <= openAt + ReadSpan
        BY <1>1 DEF OrderInv, ClockInv
      <4>2. IsRecent(attempts[s])
        BY <4>1, FreshIsRecent DEF IInv
      <4>3. attempts'[s] = attempts[s]
        <5>1. ~Confirmable(s) \/ audited[s] <= heldSnap[s]
          OBVIOUS
        <5> QED
          BY <5>1, ConfirmBooks DEF IInv
      <4> QED
        BY <1>1, <2>4, <4>2, <4>3
    <3>2. LiveBuys(s) = {}
      BY <1>1, <2>4 DEF IInv, SnapInv
    <3>3. held[s] > 0 => buyAudited[s] /\ audited'[s] <= held[s]
      BY <2>4, <3>1, ConfirmSymbol
    <3> QED
      BY <2>1, <3>1, <3>2, <3>3 DEF Clear
  <2>5. ClearOk(s)'
    BY <1>1, <2>4 DEF ClearOk, Waiting
  <2> QED
    BY <2>2, <2>3, <2>5 DEF SymbolOk
<1>3. ClockInv' /\ TargetInv' /\ HeadInv'
  BY <1>1 DEF ClockInv, TargetInv, HeadInv
<1> QED
  BY <1>2, <1>3 DEF OrderInv, SymbolInv

\* The steps between the confirmation and the decision that leave the audit alone.
LEMMA LedgerStepsKeepOrders ==
  ASSUME IInv, OrderInv, SkipConfirm \/ MarkPartials \/ PurgeLedger \/ ReconcileLedger
  PROVE  OrderInv'
<1>1. UNCHANGED <<now, broker, audit, openAt, openKnown, pending, heldSnap, targets>>
  BY DEF SkipConfirm, MarkPartials, PurgeLedger, ReconcileLedger, reads
<1>2. /\ pc' \in {"purge", "backfill", "decide"}
      /\ \/ ~intentsKnown'
         \/ /\ UNCHANGED <<intentsKnown, recent>>
            /\ pc \in {"mark", "purge", "reconcile"}
  BY DEF SkipConfirm, MarkPartials, PurgeLedger, ReconcileLedger, reads
<1>3. ASSUME NEW s \in Symbols
      PROVE  SymbolOk(s)'
  <2>1. LiveSells(s)' = LiveSells(s) /\ LiveBuys(s)' = LiveBuys(s) /\ SymbolOk(s)
    BY <1>1 DEF LiveSells, LiveBuys, broker, OrderInv, SymbolInv
  <2>2. SellOk(s)' /\ RowOk(s)' /\ NewOk(s)'
    BY <1>1, <2>1, AccountFrame DEF broker, audit
  <2>3. ReadOk(s)'
    BY <1>2 DEF ReadOk
  <2>4. Waiting(s)' => Waiting(s)
    BY <1>1, <1>2 DEF Waiting
  <2>5. ClearOk(s)'
    BY <1>1, <2>1, <2>4, ClearFrame DEF broker, audit
  <2> QED
    BY <2>2, <2>3, <2>5 DEF SymbolOk
<1>4. ClockInv' /\ TargetInv' /\ HeadInv'
  BY <1>2 DEF ClockInv, TargetInv, HeadInv
<1> QED
  BY <1>3, <1>4 DEF OrderInv, SymbolInv

\* A buy that is confirmed now has no sells.
LEMMA BackfillKeepsOrders ==
  ASSUME IInv, OrderInv, BackfillBuys
  PROVE  OrderInv'
<1>1. /\ UNCHANGED <<now, broker, attempts, openAt, openKnown, intentsKnown, recent, pending,
                     heldSnap, targets>>
      /\ pc = "backfill" /\ pc' \in {"idle", "reconcile"}
  BY DEF BackfillBuys, reads
<1>2. ASSUME NEW s \in Symbols
      PROVE  SymbolOk(s)'
  <2>1. /\ LiveSells(s)' = LiveSells(s) /\ LiveBuys(s)' = LiveBuys(s) /\ SymbolOk(s)
        /\ held'[s] = held[s] /\ heldSnap'[s] = heldSnap[s] /\ attempts'[s] = attempts[s]
    BY <1>1 DEF LiveSells, LiveBuys, broker, OrderInv, SymbolInv
  <2>2. ReadOk(s)' /\ (Waiting(s)' => Waiting(s))
    BY <1>1 DEF ReadOk, Waiting
  <2>3. CASE buyAudited'[s] = buyAudited[s] /\ audited'[s] = audited[s]
    <3>1. SellOk(s)' /\ RowOk(s)' /\ NewOk(s)'
      BY <1>1, <2>1, <2>3, AccountFrame
    <3>2. ClearOk(s)'
      BY <1>1, <2>1, <2>2, <2>3, ClearFrame
    <3> QED
      BY <2>2, <3>1, <3>2 DEF SymbolOk
  <2>4. CASE /\ heldSnap[s] > 0 /\ ~buyAudited[s] /\ buyAudited'[s]
             /\ audited'[s] = audited[s] + heldSnap[s]
    <3>1. audited[s] = 0 /\ heldSnap[s] <= held[s]
      BY <2>1, <2>4 DEF SymbolOk, NewOk
    <3>2. LiveSells(s) = {}
      BY <2>1, <2>4 DEF SymbolOk, SellOk
    <3>3. held[s] \in Nat /\ heldSnap[s] \in Nat
      BY Typed DEF IInv
    <3>4. ~ (audited'[s] > held'[s])
      BY <2>1, <2>4, <3>1, <3>3
    <3>5. SellOk(s)' /\ RowOk(s)' /\ NewOk(s)'
      BY <2>1, <2>4, <3>2, <3>4 DEF SellOk, RowOk, NewOk
    <3>6. ~Waiting(s)
      BY <2>1, <2>4 DEF SymbolOk, ClearOk, Clear
    <3> QED
      BY <2>2, <3>5, <3>6 DEF SymbolOk, ClearOk
  <2>5. \/ buyAudited'[s] = buyAudited[s] /\ audited'[s] = audited[s]
        \/ /\ heldSnap[s] > 0 /\ ~buyAudited[s] /\ buyAudited'[s]
           /\ audited'[s] = audited[s] + heldSnap[s]
    <3>1. buyAudited[s] \in BOOLEAN
      BY Typed DEF IInv
    <3> QED
      BY <3>1 DEF BackfillBuys, Settled
  <2> QED
    BY <2>3, <2>4, <2>5
<1>3. ClockInv' /\ TargetInv' /\ HeadInv'
  BY <1>1 DEF ClockInv, TargetInv, HeadInv
<1> QED
  BY <1>2, <1>3 DEF OrderInv, SymbolInv

\* A partial take-profit asks for no more than is held.
LEMMA PartialFits ==
  ASSUME NEW q \in 1..MaxLot
  PROVE  PartialQty(q) <= q
<1>1. PartialPct \in 0..100 /\ MaxLot \in Nat
  BY LotAssumption
<1>2. q * PartialPct \in Nat /\ q * PartialPct <= q * 100
  BY <1>1
<1>3. (q * PartialPct) \div 100 <= q
  BY <1>2
<1> QED
  BY <1>3 DEF PartialQty

\* The targets of a decision: each holding once, with what its signal asks for.
LEMMA DecidedTargets ==
  ASSUME TypeOK, Decide
  PROVE  /\ \A i, j \in 1..Len(targets') : targets'[i].sym = targets'[j].sym => i = j
         /\ \A i \in 1..Len(targets') :
              LET t == targets'[i] IN
              /\ t.sym \in Symbols /\ heldSnap[t.sym] > 0
              /\ t.qty = IF t.partial THEN PartialQty(heldSnap[t.sym]) ELSE heldSnap[t.sym]
              /\ t.partial => ~partialDone[t.sym]
<1>1. PICK signal \in [Symbols -> {"hold", "partial", "full"}] :
        LET sellable == {s \in Symbols : signal[s] # "hold"}
            target(s) == [sym |-> s, partial |-> signal[s] = "partial",
                          qty |-> IF signal[s] = "partial" THEN PartialQty(heldSnap[s])
                                                           ELSE heldSnap[s]]
        IN /\ \A s \in sellable : heldSnap[s] > 0
           /\ \A s \in Symbols : signal[s] = "partial" => ~partialDone[s]
           /\ \E order \in [1..Cardinality(sellable) -> sellable] :
                /\ \A i, j \in 1..Cardinality(sellable) : order[i] = order[j] => i = j
                /\ targets' = [i \in 1..Cardinality(sellable) |-> target(order[i])]
  BY DEF Decide
<1> DEFINE sellable == {s \in Symbols : signal[s] # "hold"}
           n == Cardinality(sellable)
           target(s) == [sym |-> s, partial |-> signal[s] = "partial",
                         qty |-> IF signal[s] = "partial" THEN PartialQty(heldSnap[s])
                                                          ELSE heldSnap[s]]
<1>2. n \in Nat
  BY SymbolsAssumption, FS_Subset, FS_CardinalityType
<1>3. PICK order \in [1..n -> sellable] :
        /\ \A i, j \in 1..n : order[i] = order[j] => i = j
        /\ targets' = [i \in 1..n |-> target(order[i])]
  BY <1>1
<1>4. \A s \in sellable : /\ s \in Symbols /\ heldSnap[s] > 0
                          /\ signal[s] = "partial" => ~partialDone[s]
  BY <1>1
<1>5. \A s \in sellable :
        /\ target(s).sym = s
        /\ target(s).qty = IF target(s).partial THEN PartialQty(heldSnap[s]) ELSE heldSnap[s]
        /\ target(s).partial => ~partialDone[s]
  BY <1>4
<1>6. Len(targets') = n
  <2>1. targets' \in Seq(Target)
    BY DecideKeepsTypes DEF TypeOK
  <2>2. DOMAIN targets' = 1..n /\ DOMAIN targets' = 1..Len(targets')
    BY <1>3, <2>1, LenProperties
  <2>3. Len(targets') \in Nat
    BY <2>1, LenProperties
  <2> HIDE DEF n
  <2> QED
    BY <1>2, <2>2, <2>3
<1> HIDE DEF sellable, n, target
<1>7. \A i \in 1..n : targets'[i] = target(order[i]) /\ order[i] \in sellable
  BY <1>3
<1>8. ASSUME NEW i \in 1..n, NEW j \in 1..n, targets'[i].sym = targets'[j].sym
      PROVE  i = j
  <2>1. order[i] = order[j]
    BY <1>5, <1>7, <1>8
  <2> QED
    BY <1>3, <2>1
<1>9. ASSUME NEW i \in 1..n
      PROVE  LET t == targets'[i] IN
             /\ t.sym \in Symbols /\ heldSnap[t.sym] > 0
             /\ t.qty = IF t.partial THEN PartialQty(heldSnap[t.sym]) ELSE heldSnap[t.sym]
             /\ t.partial => ~partialDone[t.sym]
  <2>1. targets'[i] = target(order[i]) /\ order[i] \in sellable
    BY <1>7
  <2>2. target(order[i]).sym = order[i]
    BY <1>5, <2>1
  <2> QED
    BY <1>4, <1>5, <2>1, <2>2
<1> QED
  BY <1>6, <1>8, <1>9

LEMMA DecideKeepsOrders ==
  ASSUME IInv, OrderInv, Decide
  PROVE  OrderInv'
<1>1. UNCHANGED <<now, broker, audit, reads>> /\ pc = "decide" /\ pc' \in {"idle", "loop"}
  BY DEF Decide
<1>2. ASSUME NEW s \in Symbols
      PROVE  SymbolOk(s)'
  <2>1. LiveSells(s)' = LiveSells(s) /\ LiveBuys(s)' = LiveBuys(s) /\ SymbolOk(s)
    BY <1>1 DEF LiveSells, LiveBuys, broker, OrderInv, SymbolInv
  <2>2. SellOk(s)' /\ RowOk(s)' /\ NewOk(s)'
    BY <1>1, <2>1, AccountFrame DEF broker, audit, reads
  <2>3. ReadOk(s)'
    BY <1>1 DEF ReadOk
  <2>4. Waiting(s)' => Waiting(s)
    BY <1>1 DEF Waiting, reads
  <2>5. ClearOk(s)'
    BY <1>1, <2>1, <2>4, ClearFrame DEF broker, audit, reads
  <2> QED
    BY <2>2, <2>3, <2>5 DEF SymbolOk
<1>3. TargetInv'
  <2>1. \A i \in 1..Len(targets') : targets'[i].qty <= heldSnap[targets'[i].sym]
    <3> SUFFICES ASSUME NEW i \in 1..Len(targets')
                 PROVE  targets'[i].qty <= heldSnap[targets'[i].sym]
      OBVIOUS
    <3> DEFINE t == targets'[i]
    <3>1. /\ t.sym \in Symbols /\ heldSnap[t.sym] > 0
          /\ t.qty = IF t.partial THEN PartialQty(heldSnap[t.sym]) ELSE heldSnap[t.sym]
      BY DecidedTargets DEF IInv
    <3> HIDE DEF t
    <3>2. heldSnap[t.sym] \in 1..MaxLot
      BY <3>1, LotAssumption DEF IInv, TypeOK, Shares
    <3>3. t.qty <= heldSnap[t.sym]
      BY <3>1, <3>2, PartialFits
    <3> QED
      BY <3>3 DEF t
  <2>2. \A i, j \in 1..Len(targets') : targets'[i].sym = targets'[j].sym => i = j
    BY DecidedTargets DEF IInv
  <2> QED
    BY <1>1, <2>1, <2>2 DEF TargetInv, reads
<1>4. ClockInv' /\ HeadInv'
  BY <1>1 DEF ClockInv, HeadInv
<1> QED
  BY <1>2, <1>3, <1>4 DEF OrderInv, SymbolInv

\* The target in hand is the first one.
LEMMA HeadIsFirst ==
  ASSUME TypeOK, PcInv, pc \in {"loop", "send", "await"}
  PROVE  /\ Len(targets) \in Nat /\ 1 \in 1..Len(targets) /\ Head(targets) = targets[1]
         /\ \A i \in 1..Len(Tail(targets)) :
              Tail(targets)[i] = targets[i + 1] /\ i + 1 \in 1..Len(targets) /\ i + 1 > 1
         /\ Len(Tail(targets)) \in Nat
<1>1. targets \in Seq(Target) /\ targets # <<>>
  BY DEF TypeOK, PcInv
<1>2. Len(targets) \in Nat /\ Len(targets) > 0
  BY <1>1, EmptySeq, LenProperties
<1>3. /\ Len(Tail(targets)) = Len(targets) - 1
      /\ \A i \in 1..Len(Tail(targets)) : Tail(targets)[i] = targets[i + 1]
  BY <1>1, HeadTailProperties
<1>4. Head(targets) = targets[1]
  BY <1>1
<1> QED
  BY <1>2, <1>3, <1>4

\* Going on to the next target leaves the rest of them.
LEMMA NextKeepsTargets ==
  ASSUME IInv, OrderInv, pc \in {"loop", "send", "await"}, NextTarget, heldSnap' = heldSnap
  PROVE  /\ TargetInv' /\ pc' \in {"idle", "loop"}
         /\ pc' = "loop" => ToSell' \subseteq ToSell /\ Head(targets).sym \notin ToSell'
<1>1. /\ Len(targets) \in Nat /\ 1 \in 1..Len(targets) /\ Head(targets) = targets[1]
      /\ \A i \in 1..Len(Tail(targets)) :
           Tail(targets)[i] = targets[i + 1] /\ i + 1 \in 1..Len(targets) /\ i + 1 > 1
      /\ Len(Tail(targets)) \in Nat
  BY HeadIsFirst DEF IInv
<1>2. targets' = Tail(targets) /\ pc' \in {"idle", "loop"}
  BY DEF NextTarget
<1>3. /\ \A i, j \in 1..Len(targets) : targets[i].sym = targets[j].sym => i = j
      /\ \A i \in 1..Len(targets) : targets[i].qty <= heldSnap[targets[i].sym]
  BY DEF OrderInv, TargetInv
<1>4. TargetInv'
  <2>1. ASSUME NEW i \in 1..Len(targets'), NEW j \in 1..Len(targets'),
               targets'[i].sym = targets'[j].sym
        PROVE  i = j
    BY <1>1, <1>2, <1>3, <2>1
  <2>2. ASSUME NEW i \in 1..Len(targets')
        PROVE  targets'[i].qty <= heldSnap'[targets'[i].sym]
    BY <1>1, <1>2, <1>3
  <2> QED
    BY <2>1, <2>2 DEF TargetInv
<1>5. ASSUME pc' = "loop", NEW x \in ToSell'
      PROVE  x \in ToSell /\ x # Head(targets).sym
  <2>1. PICK i \in 1..Len(targets') : x = targets'[i].sym
    BY DEF ToSell
  <2>2. x = targets[i + 1].sym /\ i + 1 \in 1..Len(targets) /\ i + 1 > 1
    BY <1>1, <1>2, <2>1
  <2>3. x # targets[1].sym
    BY <1>1, <1>3, <2>2
  <2> QED
    BY <1>1, <2>2, <2>3 DEF ToSell
<1> QED
  BY <1>2, <1>4, <1>5

\* Nothing works of a target that is not passed over, and it fits what is held.
LEMMA HeadIsClear ==
  ASSUME IInv, OrderInv, pc \in {"loop", "send"},
         pc = "loop" => ~Skipped(Head(targets).sym)
  PROVE  LET t == Head(targets)
             s == Head(targets).sym
         IN /\ s \in Symbols /\ t.qty \in Nat /\ t.qty > 0 /\ t.qty <= held[s]
            /\ LiveSells(s) = {} /\ LiveBuys(s) = {} /\ heldSnap[s] = held[s]
            /\ buyAudited[s] /\ audited[s] <= held[s]
<1> DEFINE t == Head(targets)
           s == Head(targets).sym
<1>1. /\ Len(targets) \in Nat /\ 1 \in 1..Len(targets) /\ t = targets[1]
      /\ s \in Symbols /\ t.qty \in Nat /\ t.qty > 0
  BY HeadIsFirst, TargetInHand, LotAssumption DEF IInv
<1>2. t.qty <= heldSnap[s]
  BY <1>1 DEF OrderInv, TargetInv
<1>3. Waiting(s)
  <2>1. s \in ToSell
    BY <1>1 DEF ToSell
  <2>2. openKnown /\ intentsKnown /\ s \notin pending /\ s \notin recent
    BY DEF Skipped, OrderInv, HeadInv
  <2> QED
    BY <2>1, <2>2 DEF Waiting
<1>4. Clear(s)
  BY <1>1, <1>3 DEF OrderInv, SymbolInv, SymbolOk, ClearOk
<1>5. held[s] \in Nat
  BY <1>1, Typed DEF IInv
<1> HIDE DEF s, t
<1>6. t.qty <= held[s] /\ held[s] > 0
  BY <1>1, <1>2, <1>4, <1>5 DEF Clear
<1> QED
  BY <1>1, <1>4, <1>6 DEF Clear, s, t

\* Going on to the next target keeps the facts of all symbols whose rows stay.
LEMMA NextFrame ==
  ASSUME IInv, OrderInv, pc \in {"loop", "send", "await"}, NextTarget,
         UNCHANGED <<now, broker, audited, buyAudited, reads>>
  PROVE  /\ ClockInv' /\ TargetInv' /\ HeadInv'
         /\ \A s \in Symbols : ReadOk(s)' /\ ClearOk(s)'
         /\ \A s \in Symbols : attempts'[s] = attempts[s] => SymbolOk(s)'
<1>1. /\ TargetInv' /\ pc' \in {"idle", "loop"}
      /\ pc' = "loop" => ToSell' \subseteq ToSell
  BY NextKeepsTargets DEF reads
<1>2. ASSUME NEW s \in Symbols
      PROVE  /\ ReadOk(s)' /\ ClearOk(s)'
             /\ attempts'[s] = attempts[s] => SymbolOk(s)'
  <2>1. LiveSells(s)' = LiveSells(s) /\ LiveBuys(s)' = LiveBuys(s) /\ SymbolOk(s)
    BY DEF LiveSells, LiveBuys, broker, OrderInv, SymbolInv
  <2>2. attempts'[s] = attempts[s] => SellOk(s)' /\ RowOk(s)' /\ NewOk(s)'
    BY <2>1, AccountFrame DEF broker, reads
  <2>3. ReadOk(s)'
    BY <1>1 DEF ReadOk
  <2>4. Waiting(s)' => Waiting(s)
    BY <1>1 DEF Waiting, reads
  <2>5. ClearOk(s)'
    BY <2>1, <2>4, ClearFrame DEF broker, reads
  <2> QED
    BY <2>2, <2>3, <2>5 DEF SymbolOk
<1>3. ClockInv' /\ HeadInv'
  BY <1>1 DEF ClockInv, HeadInv
<1> QED
  BY <1>1, <1>2, <1>3

LEMMA SkipTargetKeepsOrders ==
  ASSUME IInv, OrderInv, SkipTarget
  PROVE  OrderInv'
<1>1. NextTarget /\ UNCHANGED <<now, broker, audit, reads>> /\ pc = "loop"
  BY DEF SkipTarget
<1> QED
  BY <1>1, NextFrame DEF OrderInv, SymbolInv, audit

LEMMA WriteIntentKeepsOrders ==
  ASSUME IInv, OrderInv, WriteIntent
  PROVE  OrderInv'
<1>p. pc = "loop" /\ ~Skipped(Head(targets).sym)
  BY DEF WriteIntent
<1>t. Head(targets) \in Target /\ Head(targets).sym \in Symbols
  BY <1>p, TargetInHand DEF IInv
<1>0. PICK t \in Target, s \in Symbols : t = Head(targets) /\ s = t.sym
  BY <1>t
<1>r. PICK row \in Attempt :
        row = [qty |-> t.qty, partial |-> t.partial, intentAt |-> now,
               intent |-> "open", orderedAt |-> Nothing, ordered |-> "none"]
  BY DEF Attempt, Target, IInv, TypeOK
<1>1. /\ UNCHANGED <<now, broker, audited, buyAudited, reads>>
      /\ pc = "loop" /\ ~Skipped(s)
  BY <1>0 DEF WriteIntent
<1>2. CASE NextTarget /\ UNCHANGED attempts
  BY <1>1, <1>2, NextFrame DEF OrderInv, SymbolInv
<1>3. CASE pc' = "send" /\ UNCHANGED targets /\ attempts' = [attempts EXCEPT ![s] = Append(@, row)]
  <2>1. LiveSells(s) = {} /\ buyAudited[s] /\ audited[s] <= held[s]
    BY <1>0, <1>1, HeadIsClear
  <2>2. /\ attempts'[s] # <<>> /\ Len(attempts'[s]) = Len(attempts[s]) + 1
        /\ LastOf(s)' = row
        /\ \A x \in Symbols : x # s => attempts'[x] = attempts[x]
    <3>2. attempts[s] \in Seq(Attempt)
      BY Typed DEF IInv
    <3>3. /\ attempts'[s] = Append(attempts[s], row)
          /\ \A x \in Symbols : x # s => attempts'[x] = attempts[x]
      BY <1>3 DEF IInv, TypeOK
    <3>4. /\ Append(attempts[s], row) # <<>>
          /\ Len(Append(attempts[s], row)) = Len(attempts[s]) + 1
          /\ Append(attempts[s], row)[Len(attempts[s]) + 1] = row
      BY <3>2, AppendProperties
    <3> QED
      BY <3>3, <3>4 DEF LastOf
  <2>3. ToSell' = ToSell
    BY <1>1, <1>3 DEF ToSell
  <2>4. ASSUME NEW x \in Symbols
        PROVE  SymbolOk(x)'
    <3>1. LiveSells(x)' = LiveSells(x) /\ LiveBuys(x)' = LiveBuys(x) /\ SymbolOk(x)
      BY <1>1 DEF LiveSells, LiveBuys, broker, OrderInv, SymbolInv
    <3>2. ReadOk(x)' /\ (Waiting(x)' => Waiting(x))
      BY <1>1, <1>3, <2>3 DEF ReadOk, Waiting, reads
    <3>3. ClearOk(x)'
      BY <1>1, <3>1, <3>2, ClearFrame DEF broker, reads
    <3>4. SellOk(x)' /\ RowOk(x)' /\ NewOk(x)'
      <4>1. CASE x # s
        BY <1>1, <2>2, <3>1, <4>1, AccountFrame DEF broker, reads
      <4>2. CASE x = s
        <5>1. ~ (audited'[x] > held'[x])
          BY <1>1, <2>1, <4>2, Typed DEF IInv, broker
        <5> QED
          BY <1>1, <2>1, <3>1, <4>2, <5>1 DEF SellOk, RowOk, NewOk
      <4> QED
        BY <4>1, <4>2
    <3> QED
      BY <3>2, <3>3, <3>4 DEF SymbolOk
  <2>5. HeadInv'
    <3>1. openKnown' /\ intentsKnown' /\ s \notin pending' /\ s \notin recent'
      BY <1>1 DEF Skipped, reads
    <3> QED
      BY <1>0, <1>1, <1>r, <1>3, <2>2, <3>1 DEF HeadInv, Protects, LastOf
  <2>6. ClockInv' /\ TargetInv'
    BY <1>1, <1>3 DEF OrderInv, ClockInv, TargetInv, reads
  <2> QED
    BY <2>4, <2>5, <2>6 DEF OrderInv, SymbolInv
<1> QED
  BY <1>0, <1>r, <1>2, <1>3 DEF WriteIntent

\* Nothing works of a symbol whose sell is refused, whatever its row says.
LEMMA RefusalKeepsOrders ==
  ASSUME IInv, OrderInv, GateRefuses
  PROVE  OrderInv'
<1>1. /\ UNCHANGED <<now, broker, audited, buyAudited, reads>> /\ pc = "send" /\ NextTarget
      /\ \/ attempts' = [attempts EXCEPT ![Head(targets).sym]
                                           [Len(attempts[Head(targets).sym])].intent = "unfilled"]
         \/ attempts' = attempts
  BY DEF GateRefuses
<1>2. PICK s \in Symbols : s = Head(targets).sym
  BY <1>1, TargetInHand DEF IInv
<1>3. LiveSells(s) = {} /\ buyAudited[s] /\ audited[s] <= held[s]
  BY <1>1, <1>2, HeadIsClear
<1>4. ASSUME NEW x \in Symbols
      PROVE  SymbolOk(x)'
  <2>1. ReadOk(x)' /\ ClearOk(x)'
    BY <1>1, NextFrame
  <2>2. CASE x = s
    <3>1. LiveSells(x)' = {} /\ ~ (audited'[x] > held'[x]) /\ buyAudited'[x]
      BY <1>1, <1>3, <2>2, Typed DEF LiveSells, broker, IInv
    <3> QED
      BY <2>1, <3>1 DEF SymbolOk, SellOk, RowOk, NewOk
  <2>3. CASE x # s
    <3>1. attempts'[x] = attempts[x]
      BY <1>1, <1>2, <2>3 DEF IInv, TypeOK
    <3> QED
      BY <1>1, <3>1, NextFrame
  <2> QED
    BY <2>2, <2>3
<1>5. ClockInv' /\ TargetInv' /\ HeadInv'
  BY <1>1, NextFrame
<1> QED
  BY <1>4, <1>5 DEF OrderInv, SymbolInv

\* The sell that goes out is the only order of its symbol.
LEMMA SendKeepsOrders ==
  ASSUME IInv, OrderInv, SendSell
  PROVE  OrderInv'
<1>1. UNCHANGED <<now, held, audit, reads, targets>> /\ pc = "send" /\ pc' = "await"
  BY DEF SendSell
<1>2. Head(targets) \in Target /\ Head(targets).sym \in Symbols
  BY <1>1, TargetInHand DEF IInv
<1>3. PICK t \in Target, s \in Symbols : t = Head(targets) /\ s = t.sym
  BY <1>2
<1>4. PICK o : o = [side |-> "sell", sym |-> t.sym, left |-> t.qty, sentAt |-> now,
                    listed |-> FALSE, partial |-> t.partial, touched |-> FALSE]
  OBVIOUS
<1>5. orders' = orders \cup {o} \/ orders' = orders
  BY <1>3, <1>4 DEF SendSell
<1>6. /\ t.qty \in Nat /\ t.qty <= held[s]
      /\ LiveSells(s) = {} /\ LiveBuys(s) = {} /\ heldSnap[s] = held[s]
      /\ buyAudited[s] /\ audited[s] <= held[s]
  BY <1>1, <1>3, HeadIsClear
<1>7. o.side = "sell" /\ o.sym = s /\ o.left = t.qty /\ o.sentAt = now /\ o.listed = FALSE
  BY <1>3, <1>4
<1>8. /\ attempts[s] # <<>> /\ Protects(LastOf(s))
      /\ LastOf(s).intentAt = now /\ LastOf(s).qty = t.qty
  BY <1>1, <1>3 DEF OrderInv, HeadInv
<1>9. ToSell' \subseteq ToSell /\ s \notin ToSell'
  <2>1. /\ 1 \in 1..Len(targets) /\ targets[1].sym = s
        /\ \A i, j \in 1..Len(targets) : targets[i].sym = targets[j].sym => i = j
    BY <1>1, <1>3, HeadIsFirst DEF IInv, OrderInv, TargetInv
  <2>2. ASSUME NEW x \in ToSell'
        PROVE  x \in ToSell /\ x # s
    <3>1. PICK i \in 1..Len(targets) : i > 1 /\ x = targets[i].sym
      BY <1>1 DEF ToSell
    <3>2. i # 1
      BY <3>1
    <3> QED
      BY <1>1, <2>1, <3>1, <3>2 DEF ToSell
  <2> QED
    BY <2>2
<1>10. ASSUME NEW x \in Symbols
       PROVE  SymbolOk(x)'
  <2>1. LiveBuys(x)' = LiveBuys(x) /\ (x # s => LiveSells(x)' = LiveSells(x)) /\ SymbolOk(x)
    BY <1>5, <1>7 DEF LiveSells, LiveBuys, OrderInv, SymbolInv
  <2>2. ReadOk(x)' /\ (Waiting(x)' => x # s /\ Waiting(x))
    BY <1>1, <1>9 DEF ReadOk, Waiting, reads
  <2>3. CASE x # s
    BY <1>1, <2>1, <2>2, <2>3, AccountFrame, ClearFrame DEF SymbolOk, audit, reads
  <2>4. CASE x = s
    <3>1. /\ held[s] \in Nat /\ audited[s] \in Nat /\ now \in Nat
          /\ LastOf(s)' = LastOf(s)
      BY <1>1, Typed DEF IInv, LastOf, audit
    <3>2. LiveSells(s)' \subseteq {o} /\ LiveBuys(s)' = {}
      BY <1>5, <1>6, <2>1, <2>4 DEF LiveSells
    <3>3. SellOk(s)'
      <4> SUFFICES ASSUME NEW y \in LiveSells(s)'
                   PROVE  /\ \A p \in LiveSells(s)' : p = y
                          /\ LiveBuys(s)' = {} /\ buyAudited'[s]
                          /\ y.left <= held'[s]
                          /\ y.listed \/ now' <= y.sentAt + ListDelay
                          /\ attempts'[s] # <<>>
                          /\ Protects(LastOf(s)') /\ LastOf(s)'.intentAt = y.sentAt
                          /\ audited'[s] - held'[s] <= LastOf(s)'.qty - y.left
                          /\ y.listed \/ LastOf(s)'.qty = y.left
        BY DEF SellOk
      <4>1. y = o /\ \A p \in LiveSells(s)' : p = y
        BY <3>2
      <4>2. now <= now + ListDelay /\ audited[s] - held[s] <= t.qty - t.qty
        BY <1>6, <3>1, TimeAssumption
      <4> QED
        BY <1>1, <1>6, <1>7, <1>8, <3>1, <3>2, <4>1, <4>2 DEF audit
    <3>4. RowOk(s)' /\ NewOk(s)'
      <4>1. ~ (audited'[s] > held'[s]) /\ buyAudited'[s]
        BY <1>1, <1>6, <3>1 DEF audit
      <4> QED
        BY <4>1 DEF RowOk, NewOk
    <3> QED
      BY <2>2, <2>4, <3>3, <3>4 DEF SymbolOk, ClearOk
  <2> QED
    BY <2>3, <2>4
<1>11. ClockInv' /\ TargetInv' /\ HeadInv'
  BY <1>1 DEF OrderInv, ClockInv, TargetInv, HeadInv, reads
<1> QED
  BY <1>10, <1>11 DEF OrderInv, SymbolInv

\* What the ORDERED row adds to the last attempt.
LEMMA OrderedRow ==
  ASSUME TypeOK, NEW s \in Symbols,
         attempts' = [attempts EXCEPT ![s][Len(attempts[s])] =
                        [@ EXCEPT !.orderedAt = now, !.ordered = "open"]]
  PROVE  /\ \A x \in Symbols : x # s => attempts'[x] = attempts[x]
         /\ attempts[s] # <<>> =>
              /\ attempts'[s] # <<>> /\ LastOf(s)'.ordered = "open"
              /\ LastOf(s)'.qty = LastOf(s).qty /\ LastOf(s)'.intentAt = LastOf(s).intentAt
              /\ LastOf(s)'.intent = LastOf(s).intent /\ LastOf(s)'.partial = LastOf(s).partial
<1>1. attempts \in [Symbols -> Seq(Attempt)]
  BY DEF TypeOK
<1>2. \A x \in Symbols : x # s => attempts'[x] = attempts[x]
  BY <1>1
<1>3. ASSUME attempts[s] # <<>>
      PROVE  /\ attempts'[s] # <<>> /\ LastOf(s)'.ordered = "open"
             /\ LastOf(s)'.qty = LastOf(s).qty /\ LastOf(s)'.intentAt = LastOf(s).intentAt
             /\ LastOf(s)'.intent = LastOf(s).intent /\ LastOf(s)'.partial = LastOf(s).partial
  <2>1. PICK n : n = Len(attempts[s])
    OBVIOUS
  <2>2. PICK a \in Attempt : a = LastOf(s)
    BY <1>3, LastTyped
  <2>3. PICK d : d = [a EXCEPT !.orderedAt = now]
    OBVIOUS
  <2>4. PICK e : e = [d EXCEPT !.ordered = "open"]
    OBVIOUS
  <2>5. /\ d \in Attempt /\ d.qty = a.qty /\ d.intentAt = a.intentAt /\ d.intent = a.intent
        /\ d.partial = a.partial
    BY <2>3 DEF Attempt, TypeOK
  <2>6. /\ e \in Attempt /\ e.qty = a.qty /\ e.intentAt = a.intentAt /\ e.intent = a.intent
        /\ e.partial = a.partial /\ e.ordered = "open"
    BY <2>4, <2>5 DEF Attempt
  <2>7. attempts[s] \in Seq(Attempt) /\ n \in 1..Len(attempts[s])
    BY <1>1, <1>3, <2>1, LastTyped
  <2>8. attempts'[s] = [attempts[s] EXCEPT ![n] = e]
    BY <1>1, <2>1, <2>2, <2>3, <2>4 DEF LastOf
  <2>9. Len(attempts'[s]) = n /\ attempts'[s][n] = e /\ attempts'[s] \in Seq(Attempt)
    <3>1. PICK rows \in Seq(Attempt) : rows = attempts[s]
      BY <2>7
    <3>2. n \in 1..Len(rows) /\ Len(rows) = n
      BY <2>1, <2>7, <3>1
    <3>3. /\ [rows EXCEPT ![n] = e] \in Seq(Attempt) /\ Len([rows EXCEPT ![n] = e]) = n
          /\ \A j \in 1..Len(rows) : [rows EXCEPT ![n] = e][j] = IF j = n THEN e ELSE rows[j]
      BY <2>6, <3>2, ExceptSeq
    <3>4. [rows EXCEPT ![n] = e][n] = e
      BY <3>2, <3>3
    <3> QED
      BY <2>8, <3>1, <3>3, <3>4
  <2>10. attempts'[s] # <<>>
    BY <2>1, <2>7, <2>9, EmptySeq
  <2> QED
    BY <2>2, <2>6, <2>9, <2>10 DEF LastOf
<1> QED
  BY <1>2, <1>3

LEMMA AnswerKeepsOrders ==
  ASSUME IInv, OrderInv, AnswerOk
  PROVE  OrderInv'
<1>1. /\ UNCHANGED <<now, broker, audited, buyAudited, reads>> /\ pc = "await" /\ NextTarget
  BY DEF AnswerOk
<1>2. PICK s \in Symbols : s = Head(targets).sym
  BY <1>1, TargetInHand DEF IInv
<1>3. CASE attempts' = attempts
  BY <1>1, <1>3, NextFrame DEF OrderInv, SymbolInv
<1>4. CASE attempts' = [attempts EXCEPT ![s][Len(attempts[s])] =
                          [@ EXCEPT !.orderedAt = now, !.ordered = "open"]]
  <2>1. /\ \A x \in Symbols : x # s => attempts'[x] = attempts[x]
        /\ attempts[s] # <<>> =>
             /\ attempts'[s] # <<>> /\ LastOf(s)'.ordered = "open"
             /\ LastOf(s)'.qty = LastOf(s).qty /\ LastOf(s)'.intentAt = LastOf(s).intentAt
             /\ LastOf(s)'.intent = LastOf(s).intent
    BY <1>4, OrderedRow DEF IInv
  <2>2. LiveSells(s)' = LiveSells(s) /\ LiveBuys(s)' = LiveBuys(s) /\ SymbolOk(s)
    BY <1>1 DEF LiveSells, LiveBuys, broker, OrderInv, SymbolInv
  <2>3. SellOk(s)'
    BY <1>1, <2>1, <2>2 DEF SymbolOk, SellOk, Protects, broker
  <2>4. RowOk(s)' /\ NewOk(s)'
    BY <1>1, <2>1, <2>2 DEF SymbolOk, RowOk, RowOpen, NewOk, broker, reads
  <2>5. SymbolOk(s)'
    BY <1>1, <2>3, <2>4, NextFrame DEF SymbolOk
  <2>6. \A x \in Symbols : x # s => SymbolOk(x)'
    BY <1>1, <2>1, NextFrame
  <2>7. ClockInv' /\ TargetInv' /\ HeadInv'
    BY <1>1, NextFrame
  <2> QED
    BY <2>5, <2>6, <2>7 DEF OrderInv, SymbolInv
<1> QED
  BY <1>2, <1>3, <1>4 DEF AnswerOk

\* A lost answer and a crash end the cycle; the files and the broker stay.
LEMMA EndKeepsOrders ==
  ASSUME IInv, OrderInv, AnswerLost \/ Crash
  PROVE  OrderInv'
<1>1. /\ UNCHANGED <<now, broker, audit>> /\ pc' = "idle"
      /\ \A s \in Symbols : heldSnap'[s] = heldSnap[s] \/ heldSnap'[s] = 0
  BY DEF AnswerLost, Crash, reads
<1>2. ASSUME NEW s \in Symbols
      PROVE  SymbolOk(s)'
  <2>1. LiveSells(s)' = LiveSells(s) /\ LiveBuys(s)' = LiveBuys(s) /\ SymbolOk(s)
    BY <1>1 DEF LiveSells, LiveBuys, broker, OrderInv, SymbolInv
  <2>2. SellOk(s)' /\ RowOk(s)'
    BY <1>1, <2>1 DEF SymbolOk, SellOk, RowOk, LastOf, broker, audit
  <2>3. NewOk(s)'
    <3>1. 0 <= held[s]
      BY Typed DEF IInv
    <3> QED
      BY <1>1, <2>1, <3>1 DEF SymbolOk, NewOk, broker, audit
  <2>4. ReadOk(s)' /\ ClearOk(s)'
    BY <1>1 DEF ReadOk, ClearOk, Waiting
  <2> QED
    BY <2>2, <2>3, <2>4 DEF SymbolOk
<1>3. ClockInv' /\ TargetInv' /\ HeadInv'
  BY <1>1 DEF ClockInv, TargetInv, HeadInv
<1> QED
  BY <1>2, <1>3 DEF OrderInv, SymbolInv

(***************************************************************************)
(* The theorems                                                            *)
(***************************************************************************)

LEMMA InitOrders == Init => OrderInv
<1> SUFFICES ASSUME Init
             PROVE  OrderInv
  OBVIOUS
<1>1. ASSUME NEW s \in Symbols
      PROVE  SymbolOk(s)
  <2>1. LiveSells(s) = {}
    BY DEF Init, LiveSells
  <2>2. held[s] \in Nat /\ heldSnap[s] = 0 /\ (buyAudited[s] => audited[s] = held[s])
        /\ (~buyAudited[s] => audited[s] = 0)
    BY LotAssumption DEF Init, Shares
  <2>3. ~ (audited[s] > held[s]) /\ heldSnap[s] <= held[s]
    BY <2>2
  <2>4. SellOk(s) /\ RowOk(s) /\ NewOk(s)
    BY <2>1, <2>2, <2>3 DEF SellOk, RowOk, NewOk
  <2>5. ReadOk(s) /\ ClearOk(s)
    BY DEF Init, ReadOk, ClearOk, Waiting
  <2> QED
    BY <2>4, <2>5 DEF SymbolOk
<1>2. ClockInv /\ TargetInv /\ HeadInv
  BY DEF Init, ClockInv, TargetInv, HeadInv
<1> QED
  BY <1>1, <1>2 DEF OrderInv, SymbolInv

LEMMA StepKeepsOrders ==
  ASSUME ~TornReads, IInv, OrderInv, [Next]_vars
  PROVE  OrderInv'
<1>1. CASE UNCHANGED vars
  <2>1. \A s \in Symbols : SymbolOk(s)'
    BY <1>1, SymbolFrame DEF vars, broker, audit, LiveSells, LiveBuys, OrderInv, SymbolInv
  <2>2. ClockInv' /\ TargetInv' /\ HeadInv'
    BY <1>1 DEF vars, broker, audit, reads, OrderInv, ClockInv, TargetInv, HeadInv, LastOf
  <2> QED
    BY <2>1, <2>2 DEF OrderInv, SymbolInv
<1>2. CASE Broker
  BY <1>2, ListKeepsOrders, FillKeepsOrders, CancelKeepsOrders DEF Broker
<1>3. CASE Tick \/ Daemon \/ Crash
  BY <1>3, TickKeepsOrders, OpenReadKeepsOrders, BalanceReadKeepsOrders, ConfirmKeepsOrders,
     LedgerStepsKeepOrders, BackfillKeepsOrders, DecideKeepsOrders, SkipTargetKeepsOrders,
     WriteIntentKeepsOrders, RefusalKeepsOrders, SendKeepsOrders, AnswerKeepsOrders, EndKeepsOrders
     DEF Daemon
<1> QED
  BY <1>1, <1>2, <1>3 DEF Next

\* As long as open orders and balance are read without a partial fill of an
\* order listed between the two.
LEMMA OrderInvariance == ASSUME ~TornReads PROVE Spec => []OrderInv
<1>1. Init => OrderInv
  BY InitOrders
<1>2. IInv /\ OrderInv /\ [Next]_vars => OrderInv'
  BY StepKeepsOrders
<1> QED
  BY <1>1, <1>2, Invariance, PTL DEF Spec

\* No second sell goes out while one works, and a working sell never asks for
\* more than the account holds, whatever crashes, answers are lost, orders are
\* listed late, and reads or writes fail (intraday_buy_daemon.py l.831-839,
\* 1160-1206) - unless the two reads of a cycle are torn.
THEOREM NeverOversells == ~TornReads => (Spec => []NoOversell)
<1> SUFFICES ASSUME ~TornReads
             PROVE  Spec => []NoOversell
  OBVIOUS
<1>1. OrderInv => NoOversell
  BY DEF OrderInv, SymbolInv, SymbolOk, SellOk, NoOversell
<1> QED
  BY <1>1, OrderInvariance, PTL

\* Whatever the audit still has to book, the last row of the symbol is open
\* for it (intraday_buy_daemon.py l.624-785).
THEOREM SalesKeepARow == ~TornReads => (Spec => []SoldSharesHaveARow)
<1> SUFFICES ASSUME ~TornReads
             PROVE  Spec => []SoldSharesHaveARow
  OBVIOUS
<1>1. ASSUME IInv, OrderInv, NEW s \in Symbols, audited[s] > held[s]
      PROVE  \E i \in 1..Len(attempts[s]) :
               attempts[s][i].intent = "open" \/ attempts[s][i].ordered = "open"
  <2>1. attempts[s] # <<>> /\ RowOpen(LastOf(s))
    BY <1>1 DEF OrderInv, SymbolInv, SymbolOk, SellOk, RowOk, RowOpen, Protects
  <2>2. Len(attempts[s]) \in 1..Len(attempts[s])
    BY <1>1, <2>1, LastTyped DEF IInv
  <2> QED
    BY <2>1, <2>2 DEF RowOpen, LastOf
<1>2. IInv /\ OrderInv => SoldSharesHaveARow
  BY <1>1 DEF SoldSharesHaveARow
<1> QED
  BY <1>2, OrderInvariance, Invariance, PTL

(***************************************************************************)
(* Partial take-profits                                                    *)
(***************************************************************************)

\* A sell works, or has sold what the audit does not show yet.
Unbooked(s) == LiveSells(s) # {} \/ audited[s] > held[s]

\* Until it is booked, the ledger and the audit hold what the sell was sized by.
BookOk(s) ==
  Unbooked(s) =>
    /\ book[s] = audited[s]
    /\ LastOf(s).partial => LastOf(s).qty = 1 \/ LastOf(s).qty < audited[s]
    /\ ~LastOf(s).partial => LastOf(s).qty = audited[s]

\* A working sell has the kind of its row; nothing has been sold for a partial
\* take-profit before its first fill.
FillOk(s) ==
  \A o \in LiveSells(s) :
    /\ o.partial = LastOf(s).partial
    /\ ~o.touched => audited[s] <= held[s] /\ (o.partial => partialSells[s] = 0)
    /\ o.touched => o.listed /\ (o.partial => partialSells[s] = 1)

\* One partial take-profit at most has sold, and as long as something is held
\* the ledger, the audit or an open row knows.
CountOk(s) ==
  /\ partialSells[s] \in {0, 1}
  /\ partialAudited[s] => partialSells[s] = 1
  /\ partialDone[s] => partialSells[s] = 1
  /\ audited[s] > held[s] /\ LastOf(s).partial => partialSells[s] = 1
  /\ partialSells[s] = 1 /\ held[s] > 0 =>
       partialDone[s] \/ partialAudited[s] \/ (audited[s] > held[s] /\ LastOf(s).partial)
  /\ ~buyAudited[s] => partialSells[s] = 0
  /\ \A o \in LiveBuys(s) : ~o.partial

FlagsOk(s) == BookOk(s) /\ FillOk(s) /\ CountOk(s)

\* A cycle that has read the rows has booked all that its balance misses.
SeenOk(s) ==
  openKnown /\ s \notin pending /\ buyAudited[s] =>
    /\ pc = "confirm" => heldSnap[s] <= audited[s]
    /\ pc \in {"mark", "purge", "backfill", "reconcile"} /\ intentsKnown /\ book[s] > 0 =>
         audited[s] = heldSnap[s]

\* Then it has marked what was booked as partial, and agrees with the account.
MarkOk(s) ==
  /\ pc \in {"purge", "backfill", "reconcile", "decide"} /\ openKnown /\ intentsKnown
       /\ partialAudited[s] /\ book[s] > 0 => partialDone[s]
  /\ pc \in {"decide", "loop", "send", "await"} /\ Waiting(s) /\ held[s] > 0 => book[s] = held[s]

\* The symbols with a partial take-profit the loop has still to decide about.
PartialOffers ==
  {targets[i].sym : i \in {j \in 1..Len(targets) : (pc = "await" => j > 1) /\ targets[j].partial}}

OfferOk(s) ==
  pc \in {"loop", "send", "await"} /\ Waiting(s) /\ s \in PartialOffers => partialSells[s] = 0

CycleOk(s) == SeenOk(s) /\ MarkOk(s) /\ OfferOk(s)

\* Targets ask for what the balance and their kind say.
SizeInv ==
  /\ pc \in {"mark", "purge"} => intentsKnown
  /\ pc \in {"loop", "send", "await"} =>
       \A i \in 1..Len(targets) :
         targets[i].qty = IF targets[i].partial THEN PartialQty(heldSnap[targets[i].sym])
                                                ELSE heldSnap[targets[i].sym]
  /\ pc = "send" => LastOf(Head(targets).sym).partial = Head(targets).partial

PartialOk(s) == FlagsOk(s) /\ CycleOk(s)

PartialInv == SizeInv /\ \A s \in Symbols : PartialOk(s)

\* What the flags of a symbol depend on.
LEMMA FlagsFrame ==
  ASSUME NEW s \in Symbols, FlagsOk(s),
         LiveSells(s)' = LiveSells(s), LiveBuys(s)' = LiveBuys(s), held'[s] = held[s],
         audited'[s] = audited[s], buyAudited'[s] = buyAudited[s], book'[s] = book[s],
         partialAudited'[s] = partialAudited[s], partialDone'[s] = partialDone[s],
         partialSells'[s] = partialSells[s],
         Unbooked(s) => /\ LastOf(s)'.qty = LastOf(s).qty
                        /\ LastOf(s)'.partial = LastOf(s).partial
  PROVE  FlagsOk(s)'
<1>1. Unbooked(s)' = Unbooked(s)
  BY DEF Unbooked
<1>2. BookOk(s)'
  BY <1>1 DEF FlagsOk, BookOk
<1>3. FillOk(s)'
  BY DEF FlagsOk, FillOk, Unbooked
<1>4. CountOk(s)'
  BY DEF FlagsOk, CountOk, Unbooked
<1> QED
  BY <1>2, <1>3, <1>4 DEF FlagsOk

\* Steps of the broker and the clock leave what a cycle knows.
LEMMA CycleFrame ==
  ASSUME NEW s \in Symbols, CycleOk(s), UNCHANGED <<audit, ledger, pc, reads, targets>>,
         Waiting(s) => held'[s] = held[s] /\ partialSells'[s] = partialSells[s]
  PROVE  CycleOk(s)'
<1>1. Waiting(s)' = Waiting(s) /\ PartialOffers' = PartialOffers
  BY DEF Waiting, ToSell, PartialOffers, reads
<1>2. SeenOk(s)'
  BY DEF CycleOk, SeenOk, audit, ledger, reads
<1>3. MarkOk(s)'
  BY <1>1 DEF CycleOk, MarkOk, audit, ledger, reads
<1>4. OfferOk(s)'
  BY <1>1 DEF CycleOk, OfferOk
<1> QED
  BY <1>2, <1>3, <1>4 DEF CycleOk

LEMMA SizeFrame ==
  ASSUME SizeInv, UNCHANGED <<audit, pc, reads, targets>>
  PROVE  SizeInv'
  BY DEF SizeInv, LastOf, audit, reads

\* Listing and cancelling change no quantity.
LEMMA ListKeepsPartials ==
  ASSUME IInv, OrderInv, PartialInv, NEW o \in orders, ListOrder(o) \/ CancelOrder(o)
  PROVE  PartialInv'
<1> DEFINE n == [o EXCEPT !.listed = TRUE]
<1>1. /\ o \in Order /\ o.sym \in Symbols
      /\ n.sym = o.sym /\ n.side = o.side /\ n.partial = o.partial /\ n.touched = o.touched
      /\ n.listed
  BY DEF IInv, TypeOK, Order
<1>2. UNCHANGED <<held, audit, ledger, pc, reads, targets, partialSells>>
  BY DEF ListOrder, CancelOrder
<1>3. orders' = (orders \ {o}) \cup {n} \/ orders' = orders \ {o}
  BY DEF ListOrder, CancelOrder
<1> HIDE DEF n
<1>4. ASSUME NEW s \in Symbols
      PROVE  PartialOk(s)'
  <2>1. PartialOk(s)
    BY DEF PartialInv
  <2>2. CycleOk(s)'
    BY <1>2, <2>1, CycleFrame DEF PartialOk
  <2>3. /\ LiveSells(s)' \subseteq LiveSells(s) \cup {n}
        /\ n \in LiveSells(s)' /\ n \notin LiveSells(s) => o \in LiveSells(s)
        /\ LiveBuys(s)' \subseteq LiveBuys(s) \cup {n}
        /\ n \in LiveBuys(s)' /\ n \notin LiveBuys(s) => o \in LiveBuys(s)
    BY <1>1, <1>3 DEF LiveSells, LiveBuys
  <2>4. LastOf(s)' = LastOf(s)
    BY <1>2 DEF LastOf, audit
  <2>5. Unbooked(s)' => Unbooked(s)
    BY <1>2, <2>3 DEF Unbooked, audit
  <2>6. BookOk(s)'
    BY <1>2, <2>1, <2>4, <2>5 DEF PartialOk, FlagsOk, BookOk, audit, ledger
  <2>7. FillOk(s)'
    BY <1>1, <1>2, <2>1, <2>3, <2>4 DEF PartialOk, FlagsOk, FillOk, audit
  <2>8. CountOk(s)'
    BY <1>1, <1>2, <2>1, <2>3, <2>4 DEF PartialOk, FlagsOk, CountOk, audit, ledger
  <2> QED
    BY <2>2, <2>6, <2>7, <2>8 DEF PartialOk, FlagsOk
<1>5. SizeInv'
  BY <1>2, SizeFrame DEF PartialInv
<1> QED
  BY <1>4, <1>5 DEF PartialInv

\* A fill of a buy adds to a symbol of which nothing was sold.
LEMMA BuyFillKeepsPartials ==
  ASSUME IInv, OrderInv, PartialInv, NEW o \in orders, NEW q \in 1..MaxLot, FillOrder(o, q),
         o.side = "buy"
  PROVE  PartialOk(o.sym)'
<1> DEFINE n == [o EXCEPT !.left = o.left - q, !.touched = TRUE]
<1>0. o \in Order /\ o.sym \in Symbols /\ n.side = "buy" /\ n.partial = o.partial
  BY OrderTyped DEF IInv, Order
<1>s. PICK s \in Symbols : s = o.sym
  BY <1>0
<1>1. /\ PartialOk(s) /\ SymbolOk(s)
      /\ held[s] \in Nat /\ audited[s] \in Nat /\ q \in Nat /\ q > 0
  BY Typed, LotAssumption DEF IInv, OrderInv, SymbolInv, PartialInv
<1>2. o \in LiveBuys(s)
  BY <1>s DEF LiveBuys
<1>3. LiveSells(s) = {} /\ ~buyAudited[s] /\ ~o.partial /\ partialSells[s] = 0
  BY <1>1, <1>2 DEF SymbolOk, SellOk, IInv, AuditInv, PartialOk, FlagsOk, CountOk
<1>4. UNCHANGED <<audit, ledger, pc, reads, targets>>
  BY DEF FillOrder
<1>5. held'[s] = held[s] + q /\ partialSells'[s] = partialSells[s]
  <2>1. held \in [Symbols -> Shares] /\ partialSells \in [Symbols -> Nat]
    BY DEF IInv, TypeOK
  <2>2. held' = [held EXCEPT ![s] = held[s] + q]
    BY <1>s DEF FillOrder
  <2>3. partialSells' = [partialSells EXCEPT ![s] = partialSells[s] + 0]
    BY <1>s, <1>3 DEF FillOrder
  <2> QED
    BY <2>1, <2>2, <2>3
<1>6. orders' \subseteq orders \cup {n}
  BY DEF FillOrder, WithFill
<1> HIDE DEF n
<1>7. LiveSells(s)' = {} /\ \A p \in LiveBuys(s)' : ~p.partial
  BY <1>0, <1>1, <1>3, <1>6 DEF LiveSells, LiveBuys, PartialOk, FlagsOk, CountOk
<1>8. audited[s] = 0
  BY <1>1, <1>3 DEF SymbolOk, NewOk
<1>9. ~ (audited'[s] > held'[s]) /\ buyAudited'[s] = buyAudited[s]
  BY <1>1, <1>4, <1>5, <1>8 DEF audit
<1>10. BookOk(s)' /\ FillOk(s)'
  BY <1>7, <1>9 DEF BookOk, FillOk, Unbooked
<1>11. CountOk(s)'
  BY <1>1, <1>3, <1>4, <1>5, <1>7, <1>9 DEF PartialOk, FlagsOk, CountOk, audit, ledger
<1>12. ~Waiting(s)
  BY <1>1, <1>2 DEF SymbolOk, ClearOk, Clear
<1>13. CycleOk(s)'
  BY <1>1, <1>4, <1>12, CycleFrame DEF PartialOk
<1> QED
  BY <1>s, <1>10, <1>11, <1>13 DEF PartialOk, FlagsOk

\* A fill of a sell counts once for its partial take-profit.
LEMMA SellFillKeepsPartials ==
  ASSUME IInv, OrderInv, PartialInv, NEW o \in orders, NEW q \in 1..MaxLot, FillOrder(o, q),
         o.side = "sell"
  PROVE  PartialOk(o.sym)'
<1> DEFINE n == [o EXCEPT !.left = o.left - q, !.touched = TRUE]
<1>0. /\ o \in Order /\ o.sym \in Symbols /\ n.side = "sell" /\ n.partial = o.partial
      /\ n.touched /\ n.listed = o.listed /\ o.touched \in BOOLEAN /\ o.partial \in BOOLEAN
  BY OrderTyped DEF IInv, Order
<1>s. PICK s \in Symbols : s = o.sym
  BY <1>0
<1>1. /\ PartialOk(s) /\ SymbolOk(s)
      /\ held[s] \in Nat /\ audited[s] \in Nat /\ q \in Nat /\ q > 0
  BY Typed, LotAssumption DEF IInv, OrderInv, SymbolInv, PartialInv
<1>2. o \in LiveSells(s)
  BY <1>s DEF LiveSells
<1>3. /\ LiveSells(s) = {o} /\ LiveBuys(s) = {} /\ buyAudited[s] /\ audited[s] >= held[s]
      /\ o.partial = LastOf(s).partial /\ o.listed
  BY <1>1, <1>2 DEF SymbolOk, SellOk, IInv, AuditInv, AuditCoversHoldings, PartialOk, FlagsOk,
                    FillOk, FillOrder
<1>4. UNCHANGED <<audit, ledger, pc, reads, targets>>
  BY DEF FillOrder
<1>5. /\ held'[s] = held[s] - q
      /\ partialSells'[s] = partialSells[s] + (IF o.partial /\ ~o.touched THEN 1 ELSE 0)
  <2>1. held \in [Symbols -> Shares] /\ partialSells \in [Symbols -> Nat]
    BY DEF IInv, TypeOK
  <2>2. held' = [held EXCEPT ![s] = held[s] - q]
    BY <1>s DEF FillOrder
  <2>3. partialSells' = [partialSells EXCEPT ![s] =
                           partialSells[s] + (IF o.partial /\ ~o.touched THEN 1 ELSE 0)]
    BY <1>s DEF FillOrder
  <2> QED
    BY <2>1, <2>2, <2>3
<1>6. orders' \subseteq (orders \ {o}) \cup {n}
  BY DEF FillOrder, WithFill
<1> HIDE DEF n
<1>7. LiveSells(s)' \subseteq {n} /\ LiveBuys(s)' = {}
  BY <1>0, <1>3, <1>6 DEF LiveSells, LiveBuys
<1>8. LastOf(s)' = LastOf(s) /\ audited'[s] = audited[s] /\ buyAudited'[s] = buyAudited[s]
  BY <1>4 DEF LastOf, audit
<1>9. audited[s] > held'[s]
  BY <1>1, <1>3, <1>5
<1>10. /\ o.partial => partialSells'[s] = 1
       /\ ~o.partial => partialSells'[s] = partialSells[s]
       /\ partialSells[s] \in {0, 1}
       /\ o.partial /\ ~o.touched => partialSells[s] = 0
  BY <1>0, <1>1, <1>2, <1>5 DEF PartialOk, FlagsOk, FillOk, CountOk
<1>11. BookOk(s)'
  BY <1>1, <1>2, <1>4, <1>8 DEF PartialOk, FlagsOk, BookOk, Unbooked, ledger
<1>12. FillOk(s)'
  BY <1>0, <1>3, <1>7, <1>8, <1>10 DEF FillOk
<1>13. CountOk(s)'
  <2>1. /\ partialAudited'[s] = partialAudited[s] /\ partialDone'[s] = partialDone[s]
    BY <1>4 DEF audit, ledger
  <2>2. partialSells'[s] \in {0, 1} /\ (partialSells[s] = 1 => partialSells'[s] = 1)
    BY <1>10, <1>0, <1>5
  <2>3. partialSells'[s] = 1 => \/ partialDone[s] \/ partialAudited[s] \/ LastOf(s).partial
                                \/ ~ (held[s] > 0)
    BY <1>1, <1>3, <1>10 DEF PartialOk, FlagsOk, CountOk
  <2>4. held'[s] > 0 => held[s] > 0
    BY <1>1, <1>5
  <2>5. LastOf(s).partial => partialSells'[s] = 1
    BY <1>3, <1>10
  <2> QED
    BY <1>1, <1>3, <1>7, <1>8, <1>9, <2>1, <2>2, <2>3, <2>4, <2>5
       DEF PartialOk, FlagsOk, CountOk
<1>14. ~Waiting(s)
  BY <1>1, <1>2 DEF SymbolOk, ClearOk, Clear
<1>15. CycleOk(s)'
  BY <1>1, <1>4, <1>14, CycleFrame DEF PartialOk
<1> QED
  BY <1>s, <1>11, <1>12, <1>13, <1>15 DEF PartialOk, FlagsOk

LEMMA FillKeepsPartials ==
  ASSUME IInv, OrderInv, PartialInv, NEW o \in orders, NEW q \in 1..MaxLot, FillOrder(o, q)
  PROVE  PartialInv'
<1> DEFINE n == [o EXCEPT !.left = o.left - q, !.touched = TRUE]
<1>1. o \in Order /\ o.sym \in Symbols /\ n.sym = o.sym
  BY DEF IInv, TypeOK, Order
<1>2. UNCHANGED <<now, audit, ledger, pc, reads, targets>>
  BY DEF FillOrder
<1>3. orders \ {o} \subseteq orders' /\ orders' \subseteq (orders \ {o}) \cup {n}
  BY DEF FillOrder, WithFill
<1> HIDE DEF n
<1>4. ASSUME NEW s \in Symbols, s # o.sym
      PROVE  PartialOk(s)'
  <2>1. LiveSells(s)' = LiveSells(s) /\ LiveBuys(s)' = LiveBuys(s) /\ PartialOk(s)
    BY <1>1, <1>3, <1>4, OtherSymbols DEF IInv, PartialInv
  <2>2. held'[s] = held[s] /\ partialSells'[s] = partialSells[s]
    BY <1>4 DEF FillOrder, IInv, TypeOK
  <2>3. FlagsOk(s)'
    BY <1>2, <2>1, <2>2, FlagsFrame DEF PartialOk, LastOf, audit, ledger
  <2>4. CycleOk(s)'
    BY <1>2, <2>1, <2>2, CycleFrame DEF PartialOk
  <2> QED
    BY <2>3, <2>4 DEF PartialOk
<1>5. PartialOk(o.sym)'
  BY <1>1, BuyFillKeepsPartials, SellFillKeepsPartials DEF Order
<1>6. SizeInv'
  BY <1>2, SizeFrame DEF PartialInv
<1> QED
  BY <1>4, <1>5, <1>6 DEF PartialInv

\* The steps of the daemon that leave the broker, the files and the rows alone.
LEMMA QuietFlags ==
  ASSUME NEW s \in Symbols, FlagsOk(s), UNCHANGED <<broker, audit, ledger, partialSells>>
  PROVE  FlagsOk(s)'
  BY FlagsFrame DEF LiveSells, LiveBuys, LastOf, broker, audit, ledger

LEMMA TickKeepsPartials ==
  ASSUME PartialInv, Tick
  PROVE  PartialInv'
<1>1. UNCHANGED <<broker, audit, ledger, pc, reads, targets, partialSells>>
  BY DEF Tick
<1>2. ASSUME NEW s \in Symbols
      PROVE  PartialOk(s)'
  BY <1>1, QuietFlags, CycleFrame DEF PartialInv, PartialOk, broker
<1> QED
  BY <1>1, <1>2, SizeFrame DEF PartialInv

\* What the balance shows of a confirmed position is in the audit.
LEMMA ReadsKeepPartials ==
  ASSUME IInv, PartialInv, ReadOpenOrders \/ ReadBalance
  PROVE  PartialInv'
<1>1. /\ UNCHANGED <<broker, audit, ledger, partialSells>>
      /\ pc' \in {"idle", "balance"} \/ (pc' = "confirm" /\ heldSnap' = held)
  BY DEF ReadOpenOrders, ReadBalance
<1>2. ASSUME NEW s \in Symbols
      PROVE  PartialOk(s)'
  <2>1. FlagsOk(s)'
    BY <1>1, QuietFlags DEF PartialInv, PartialOk
  <2>2. buyAudited[s] => held[s] <= audited[s]
    BY Typed DEF IInv, AuditInv, AuditCoversHoldings
  <2>3. CycleOk(s)'
    BY <1>1, <2>2 DEF CycleOk, SeenOk, MarkOk, OfferOk, audit
  <2> QED
    BY <2>1, <2>3 DEF PartialOk
<1>3. SizeInv'
  BY <1>1 DEF SizeInv
<1> QED
  BY <1>2, <1>3 DEF PartialInv

\* A confirmation that books all that is missing on the last row flags a partial
\* take-profit as the row says.
LEMMA ConfirmFlags ==
  ASSUME TypeOK, PcInv, ConfirmSells, NEW s \in Symbols
  PROVE  /\ ~Confirmable(s) \/ audited[s] <= heldSnap[s] =>
              partialAudited'[s] = partialAudited[s]
         /\ Confirmable(s) /\ audited[s] > heldSnap[s] /\ attempts[s] # <<>>
              /\ RowOpen(LastOf(s)) /\ audited[s] - heldSnap[s] <= LastOf(s).qty =>
              partialAudited'[s] =
                (partialAudited[s] \/ IsPartialFill(s, LastOf(s), audited[s] - heldSnap[s]))
<1>1. PICK gap \in [Symbols -> [0..MaxAttempts -> 0..MaxLot]] :
        /\ \A x \in Symbols : Attribution(x, gap[x])
        /\ partialAudited' = [x \in Symbols |->
             partialAudited[x] \/ \E i \in 1..Len(attempts[x]) :
                                    IsPartialFill(x, attempts[x][i], gap[x][i])]
  BY DEF ConfirmSells
<1> DEFINE n == Len(attempts[s])
           g == gap[s]
<1>2. n \in Nat /\ n <= MaxAttempts /\ g \in [0..MaxAttempts -> 0..MaxLot]
  BY <1>1, LenProperties DEF TypeOK, PcInv
<1>3. Attribution(s, g)
  BY <1>1
<1>4. partialAudited'[s] =
        (partialAudited[s] \/ \E i \in 1..n : IsPartialFill(s, attempts[s][i], g[i]))
  BY <1>1
<1>5. g[n] = IF Confirmable(s) THEN Gap(s) ELSE 0
  BY <1>3 DEF Attribution
<1>6. /\ audited[s] \in Nat /\ heldSnap[s] \in Nat /\ attempts[s] \in Seq(Attempt)
      /\ partialAudited[s] \in BOOLEAN
  BY Typed DEF TypeOK
<1>7. n \in 0..n /\ MaxAttempts \in Nat
  BY <1>2, BoundAssumption
<1> HIDE DEF g, n
<1>8. \A i \in 1..n : ~IsPartialFill(s, attempts[s][i], 0)
  <2>1. ASSUME NEW i \in 1..n
        PROVE  attempts[s][i].qty \in Nat
    <3>1. attempts[s][i] \in Attempt
      BY <1>6, ElementOfSeq DEF n
    <3> QED
      BY <3>1, LotAssumption DEF Attempt
  <2> QED
    BY <2>1 DEF IsPartialFill, TakenByOrdered, TakenByIntent, LesserOf
<1>9. ASSUME ~Confirmable(s) \/ audited[s] <= heldSnap[s]
      PROVE  partialAudited'[s] = partialAudited[s]
  <2>1. g[n] = 0
    BY <1>5, <1>6, <1>9 DEF Gap
  <2>2. \A i \in 0..n : g[i] = 0
    BY <1>2, <1>3, <1>7, <2>1, AttributionEnds DEF n
  <2>3. ~ \E i \in 1..n : IsPartialFill(s, attempts[s][i], g[i])
    BY <1>2, <1>8, <2>2
  <2> QED
    BY <1>4, <1>6, <2>3
<1>10. ASSUME Confirmable(s), audited[s] > heldSnap[s], attempts[s] # <<>>,
              RowOpen(LastOf(s)), audited[s] - heldSnap[s] <= LastOf(s).qty
       PROVE  partialAudited'[s] =
                (partialAudited[s] \/ IsPartialFill(s, LastOf(s), audited[s] - heldSnap[s]))
  <2>1. g[n] = audited[s] - heldSnap[s]
    BY <1>5, <1>10 DEF Gap
  <2>2. n \in 1..n /\ n - 1 \in 0..n /\ LastOf(s) \in Attempt
    BY <1>10, LastTyped DEF n
  <2>3. g[n - 1] = g[n] - Taken(attempts[s][n], g[n])
    BY <1>3, <2>2 DEF Attribution, n
  <2>4. Taken(LastOf(s), g[n]) = g[n]
    BY <1>6, <1>10, <2>1, <2>2, OpenRowTakesAll
  <2>5. g[n - 1] = 0
    BY <1>6, <2>1, <2>3, <2>4 DEF LastOf, n
  <2>6. \A i \in 0..(n - 1) : g[i] = 0
    BY <1>2, <1>3, <2>2, <2>5, AttributionEnds DEF n
  <2>7. \A i \in 1..n : i # n => g[i] = 0
    BY <1>2, <2>6
  <2>8. (\E i \in 1..n : IsPartialFill(s, attempts[s][i], g[i]))
          <=> IsPartialFill(s, attempts[s][n], g[n])
    BY <1>8, <2>2, <2>7
  <2>9. attempts[s][n] = LastOf(s)
    BY DEF LastOf, n
  <2> QED
    BY <1>4, <2>1, <2>8, <2>9, Zenon
<1> QED
  BY <1>9, <1>10

\* The kind of the last row, and what it asked for, survive its confirmation.
LEMMA ConfirmedRow ==
  ASSUME TypeOK, PcInv, ConfirmSells, NEW s \in Symbols, attempts[s] # <<>>
  PROVE  LastOf(s)'.qty = LastOf(s).qty /\ LastOf(s)'.partial = LastOf(s).partial
<1>1. PICK gap \in [Symbols -> [0..MaxAttempts -> 0..MaxLot]] :
        attempts' = [x \in Symbols |->
                       [i \in 1..Len(attempts[x]) |-> MarkFilled(attempts[x][i], gap[x][i])]]
  BY DEF ConfirmSells
<1>2. Len(attempts'[s]) = Len(attempts[s])
  BY ConfirmKeepsTypes
<1>3. Len(attempts[s]) \in 1..Len(attempts[s]) /\ LastOf(s) \in Attempt
  BY LastTyped
<1>4. PICK g : LastOf(s)' = MarkFilled(LastOf(s), g)
  BY <1>1, <1>2, <1>3 DEF LastOf
<1>5. PICK a \in Attempt : a = LastOf(s)
  BY <1>3
<1> DEFINE b == [a EXCEPT !.ordered = IF TakenByOrdered(a, g) > 0 THEN "filled" ELSE @]
<1>6. b \in Attempt /\ b.qty = a.qty /\ b.partial = a.partial
  BY DEF Attempt
<1>7. MarkFilled(a, g) = [b EXCEPT !.intent = IF TakenByIntent(a, g) > 0 THEN "filled" ELSE @]
  BY DEF MarkFilled
<1> HIDE DEF b
<1>8. MarkFilled(a, g).qty = a.qty /\ MarkFilled(a, g).partial = a.partial
  BY <1>6, <1>7 DEF Attempt
<1> QED
  BY <1>4, <1>5, <1>8

LEMMA ConfirmKeepsPartials ==
  ASSUME IInv, OrderInv, PartialInv, ConfirmSells
  PROVE  PartialInv'
<1>1. /\ UNCHANGED <<broker, buyAudited, ledger, openKnown, pending, heldSnap, partialSells>>
      /\ pc = "confirm" /\ openKnown /\ pc' = "mark" /\ intentsKnown'
  BY DEF ConfirmSells
<1>2. ASSUME NEW s \in Symbols
      PROVE  PartialOk(s)'
  <2>1. /\ LiveSells(s)' = LiveSells(s) /\ LiveBuys(s)' = LiveBuys(s)
        /\ held'[s] = held[s] /\ heldSnap'[s] = heldSnap[s] /\ buyAudited'[s] = buyAudited[s]
        /\ book'[s] = book[s] /\ partialDone'[s] = partialDone[s]
        /\ partialSells'[s] = partialSells[s]
    BY <1>1 DEF LiveSells, LiveBuys, broker, ledger
  <2>2. /\ held[s] \in Nat /\ heldSnap[s] \in Nat /\ audited[s] \in Nat /\ book[s] \in Nat
        /\ SymbolOk(s) /\ PartialOk(s) /\ TypeOK /\ PcInv
    BY Typed, LotAssumption DEF IInv, OrderInv, SymbolInv, PartialInv, TypeOK, Shares
  <2>3. CASE ~Confirmable(s) \/ audited[s] <= heldSnap[s]
    <3>1. /\ attempts'[s] = attempts[s] /\ audited'[s] = audited[s]
          /\ partialAudited'[s] = partialAudited[s]
      BY <2>2, <2>3, ConfirmBooks, ConfirmFlags
    <3>2. FlagsOk(s)'
      BY <2>1, <2>2, <3>1, FlagsFrame DEF PartialOk, LastOf
    <3>3. s \notin pending /\ buyAudited[s] /\ book[s] > 0 => audited[s] = heldSnap[s]
      BY <1>1, <2>2, <2>3 DEF PartialOk, CycleOk, SeenOk, Confirmable, IsAiSwing
    <3>4. CycleOk(s)'
      BY <1>1, <2>1, <3>1, <3>3 DEF CycleOk, SeenOk, MarkOk, OfferOk
    <3> QED
      BY <3>2, <3>4 DEF PartialOk
  <2>4. CASE Confirmable(s) /\ audited[s] > heldSnap[s]
    <3>1. s \notin pending /\ buyAudited[s]
      BY <2>4 DEF Confirmable
    <3>2. LiveSells(s) = {} /\ heldSnap[s] = held[s]
      BY <1>1, <2>2, <2>4, <3>1 DEF SymbolOk, ReadOk
    <3>3. /\ attempts[s] # <<>> /\ RowOpen(LastOf(s))
          /\ audited[s] - heldSnap[s] <= LastOf(s).qty
      BY <2>2, <2>4, <3>2 DEF SymbolOk, RowOk
    <3>4. audited'[s] = heldSnap[s]
      BY <2>2, <2>4, <3>3, ConfirmBooks
    <3>5. partialAudited'[s] =
            (partialAudited[s] \/ IsPartialFill(s, LastOf(s), audited[s] - heldSnap[s]))
      BY <2>2, <2>4, <3>3, ConfirmFlags
    <3>6. /\ book[s] = audited[s]
          /\ LastOf(s).partial => LastOf(s).qty = 1 \/ LastOf(s).qty < audited[s]
          /\ ~LastOf(s).partial => LastOf(s).qty = audited[s]
      BY <2>2, <2>4, <3>2 DEF PartialOk, FlagsOk, BookOk, Unbooked
    <3>7. LastOf(s).qty \in Nat
      BY <2>2, <3>3, LastTyped, LotAssumption
    <3>8. ASSUME IsPartialFill(s, LastOf(s), audited[s] - heldSnap[s])
          PROVE  LastOf(s).partial
      BY <2>2, <3>6, <3>7, <3>8 DEF IsPartialFill
    <3>9. ASSUME LastOf(s).partial, held[s] > 0
          PROVE  IsPartialFill(s, LastOf(s), audited[s] - heldSnap[s])
      <4>1. LastOf(s).qty < book[s]
        BY <2>2, <2>4, <3>2, <3>6, <3>7, <3>9
      <4>2. TakenByOrdered(LastOf(s), audited[s] - heldSnap[s]) > 0
              \/ TakenByIntent(LastOf(s), audited[s] - heldSnap[s]) > 0
        <5>1. LastOf(s).qty > 0 /\ audited[s] - heldSnap[s] \in Nat /\ audited[s] - heldSnap[s] > 0
          BY <2>2, <2>4, <3>3, <3>7
        <5> QED
          BY <3>3, <3>7, <5>1 DEF RowOpen, TakenByOrdered, TakenByIntent, LesserOf
      <4> QED
        BY <4>1, <4>2 DEF IsPartialFill
    <3>10. ~ (audited'[s] > held'[s]) /\ LiveSells(s)' = {}
      BY <2>1, <2>2, <3>2, <3>4
    <3>11. BookOk(s)' /\ FillOk(s)'
      BY <3>10 DEF BookOk, FillOk, Unbooked
    <3>12. CountOk(s)'
      <4>1. partialAudited'[s] => partialSells[s] = 1
        BY <2>2, <2>4, <3>2, <3>5, <3>8 DEF PartialOk, FlagsOk, CountOk
      <4>2. partialSells[s] = 1 /\ held[s] > 0 => partialDone[s] \/ partialAudited'[s]
        BY <2>2, <3>5, <3>9 DEF PartialOk, FlagsOk, CountOk
      <4> QED
        BY <2>1, <2>2, <3>10, <4>1, <4>2 DEF PartialOk, FlagsOk, CountOk
    <3>13. CycleOk(s)'
      BY <1>1, <2>1, <3>4 DEF CycleOk, SeenOk, MarkOk, OfferOk
    <3> QED
      BY <3>11, <3>12, <3>13 DEF PartialOk, FlagsOk
  <2>5. audited[s] <= heldSnap[s] \/ audited[s] > heldSnap[s]
    BY <2>2
  <2> QED
    BY <2>3, <2>4, <2>5
<1>3. SizeInv'
  BY <1>1 DEF SizeInv
<1> QED
  BY <1>2, <1>3 DEF PartialInv

\* Giving up the confirmation sells nothing in this cycle.
LEMMA SkipConfirmKeepsPartials ==
  ASSUME PartialInv, SkipConfirm
  PROVE  PartialInv'
<1>1. /\ UNCHANGED <<broker, audit, ledger, partialSells>> /\ pc' = "backfill" /\ ~intentsKnown'
  BY DEF SkipConfirm
<1>2. ASSUME NEW s \in Symbols
      PROVE  PartialOk(s)'
  <2>1. FlagsOk(s)'
    BY <1>1, QuietFlags DEF PartialInv, PartialOk
  <2>2. CycleOk(s)'
    BY <1>1 DEF CycleOk, SeenOk, MarkOk, OfferOk
  <2> QED
    BY <2>1, <2>2 DEF PartialOk
<1>3. SizeInv'
  BY <1>1 DEF SizeInv
<1> QED
  BY <1>2, <1>3 DEF PartialInv

\* A partial take-profit is marked only when the audit has booked one.
LEMMA MarkKeepsPartials ==
  ASSUME IInv, PartialInv, MarkPartials
  PROVE  PartialInv'
<1>1. /\ UNCHANGED <<broker, audit, book, reads, partialSells>> /\ pc = "mark" /\ pc' = "purge"
  BY DEF MarkPartials
<1>2. ASSUME NEW s \in Symbols
      PROVE  PartialOk(s)'
  <2>1. /\ LiveSells(s)' = LiveSells(s) /\ LiveBuys(s)' = LiveBuys(s) /\ LastOf(s)' = LastOf(s)
        /\ FlagsOk(s) /\ CycleOk(s)
    BY <1>1 DEF LiveSells, LiveBuys, LastOf, broker, audit, PartialInv, PartialOk
  <2>2. /\ partialDone'[s] => partialDone[s] \/ partialAudited[s]
        /\ partialDone[s] => partialDone'[s]
        /\ partialAudited[s] /\ book[s] > 0 => partialDone'[s]
    BY DEF MarkPartials, IsAiSwing
  <2>3. BookOk(s)' /\ FillOk(s)'
    BY <1>1, <2>1 DEF FlagsOk, BookOk, FillOk, Unbooked, broker, audit
  <2>4. CountOk(s)'
    BY <1>1, <2>1, <2>2 DEF FlagsOk, CountOk, broker, audit
  <2>5. CycleOk(s)'
    BY <1>1, <2>1, <2>2 DEF CycleOk, SeenOk, MarkOk, OfferOk, audit, reads
  <2> QED
    BY <2>3, <2>4, <2>5 DEF PartialOk, FlagsOk
<1>3. SizeInv'
  BY <1>1 DEF PartialInv, SizeInv, reads
<1> QED
  BY <1>2, <1>3 DEF PartialInv

\* What is purged has been sold and booked.
LEMMA PurgeKeepsPartials ==
  ASSUME IInv, OrderInv, PartialInv, PurgeLedger
  PROVE  PartialInv'
<1>1. /\ UNCHANGED <<broker, audit, reads, partialSells>> /\ pc = "purge" /\ pc' = "backfill"
      /\ openKnown /\ intentsKnown
  BY DEF PurgeLedger, IInv, PcInv, PartialInv, SizeInv
<1>2. ASSUME NEW s \in Symbols
      PROVE  PartialOk(s)'
  <2>1. /\ LiveSells(s)' = LiveSells(s) /\ LiveBuys(s)' = LiveBuys(s) /\ LastOf(s)' = LastOf(s)
        /\ FlagsOk(s) /\ CycleOk(s) /\ SymbolOk(s)
    BY <1>1 DEF LiveSells, LiveBuys, LastOf, broker, audit, PartialInv, PartialOk,
                OrderInv, SymbolInv
  <2>2. /\ held[s] \in Nat /\ heldSnap[s] \in Nat /\ audited[s] \in Nat
    BY Typed DEF IInv
  <2>3. CASE ~Purgeable(s)
    <3>1. book'[s] = book[s] /\ partialDone'[s] = partialDone[s]
      BY <2>3 DEF PurgeLedger, IInv, TypeOK
    <3>2. FlagsOk(s)'
      BY <1>1, <2>1, <3>1, FlagsFrame DEF broker, audit
    <3>3. CycleOk(s)'
      BY <1>1, <2>1, <3>1 DEF CycleOk, SeenOk, MarkOk, OfferOk, audit, reads
    <3> QED
      BY <3>2, <3>3 DEF PartialOk
  <2>4. CASE Purgeable(s)
    <3>1. book'[s] = 0 /\ ~partialDone'[s]
      BY <2>4 DEF PurgeLedger
    <3>2. heldSnap[s] = 0 /\ s \notin pending
      BY <2>4 DEF Purgeable
    <3>3. held[s] = 0
      BY <1>1, <2>2, <3>2 DEF IInv, SnapInv
    <3>4. LiveSells(s) = {}
      <4> SUFFICES ASSUME NEW o \in LiveSells(s)
                   PROVE  FALSE
        OBVIOUS
      <4>1. o.left <= 0
        BY <2>1, <3>3 DEF SymbolOk, SellOk
      <4> QED
        BY <4>1, OrderTyped DEF LiveSells, IInv
    <3>5. ~ (audited[s] > held[s])
      <4> SUFFICES ASSUME audited[s] > 0
                   PROVE  FALSE
        BY <3>3
      <4>1. buyAudited[s]
        BY <2>1, <2>2 DEF SymbolOk, NewOk
      <4>2. book[s] > 0
        BY <2>1, <3>3 DEF FlagsOk, BookOk, Unbooked
      <4>3. audited[s] = heldSnap[s]
        BY <1>1, <2>1, <3>2, <4>1, <4>2 DEF CycleOk, SeenOk
      <4> QED
        BY <3>2, <4>3
    <3>6. BookOk(s)' /\ FillOk(s)'
      BY <1>1, <2>1, <3>4, <3>5 DEF BookOk, FillOk, Unbooked, broker, audit
    <3>7. CountOk(s)'
      BY <1>1, <2>1, <3>1, <3>3, <3>5 DEF FlagsOk, CountOk, broker, audit
    <3>8. CycleOk(s)'
      BY <1>1, <3>1 DEF CycleOk, SeenOk, MarkOk, OfferOk
    <3> QED
      BY <3>6, <3>7, <3>8 DEF PartialOk, FlagsOk
  <2> QED
    BY <2>3, <2>4
<1>3. SizeInv'
  BY <1>1 DEF SizeInv
<1> QED
  BY <1>2, <1>3 DEF PartialInv

\* A buy is confirmed with what is held, and nothing of it was sold before.
LEMMA BackfillKeepsPartials ==
  ASSUME IInv, OrderInv, PartialInv, BackfillBuys
  PROVE  PartialInv'
<1>1. /\ UNCHANGED <<broker, attempts, partialAudited, ledger, reads, partialSells>>
      /\ pc = "backfill" /\ pc' \in {"idle", "reconcile"}
  BY DEF BackfillBuys
<1>2. ASSUME NEW s \in Symbols
      PROVE  PartialOk(s)'
  <2>1. /\ LiveSells(s)' = LiveSells(s) /\ LiveBuys(s)' = LiveBuys(s) /\ LastOf(s)' = LastOf(s)
        /\ FlagsOk(s) /\ CycleOk(s) /\ SymbolOk(s)
    BY <1>1 DEF LiveSells, LiveBuys, LastOf, broker, PartialInv, PartialOk, OrderInv, SymbolInv
  <2>2. CASE buyAudited'[s] = buyAudited[s] /\ audited'[s] = audited[s]
    <3>1. FlagsOk(s)'
      BY <1>1, <2>1, <2>2, FlagsFrame DEF broker, ledger
    <3>2. CycleOk(s)'
      BY <1>1, <2>1, <2>2 DEF CycleOk, SeenOk, MarkOk, OfferOk, ledger, reads
    <3> QED
      BY <3>1, <3>2 DEF PartialOk
  <2>3. CASE /\ Settled(s) /\ openKnown /\ ~buyAudited[s] /\ buyAudited'[s]
             /\ audited'[s] = audited[s] + heldSnap[s]
    <3>1. audited[s] = 0 /\ heldSnap[s] <= held[s]
      BY <2>1, <2>3 DEF SymbolOk, NewOk
    <3>2. held[s] <= heldSnap[s]
      BY <1>1, <2>3 DEF Settled, IInv, SnapInv
    <3>3. held[s] \in Nat /\ heldSnap[s] \in Nat
      BY Typed DEF IInv
    <3>4. audited'[s] = heldSnap[s] /\ ~ (audited'[s] > held'[s])
      BY <1>1, <2>3, <3>1, <3>2, <3>3 DEF broker
    <3>5. LiveSells(s) = {}
      BY <2>1, <2>3 DEF SymbolOk, SellOk
    <3>6. BookOk(s)' /\ FillOk(s)'
      BY <2>1, <3>4, <3>5 DEF BookOk, FillOk, Unbooked
    <3>7. CountOk(s)'
      BY <1>1, <2>1, <2>3, <3>4 DEF FlagsOk, CountOk, ledger
    <3>8. CycleOk(s)'
      BY <1>1, <2>1, <3>4 DEF CycleOk, SeenOk, MarkOk, OfferOk, ledger, reads
    <3> QED
      BY <3>6, <3>7, <3>8 DEF PartialOk, FlagsOk
  <2>4. \/ buyAudited'[s] = buyAudited[s] /\ audited'[s] = audited[s]
        \/ /\ Settled(s) /\ openKnown /\ ~buyAudited[s] /\ buyAudited'[s]
           /\ audited'[s] = audited[s] + heldSnap[s]
    <3>1. buyAudited[s] \in BOOLEAN
      BY Typed DEF IInv
    <3> QED
      BY <3>1 DEF BackfillBuys
  <2> QED
    BY <2>2, <2>3, <2>4
<1>3. SizeInv'
  BY <1>1 DEF SizeInv
<1> QED
  BY <1>2, <1>3 DEF PartialInv

\* The ledger is brought to a balance that the audit agrees with.
LEMMA ReconcileKeepsPartials ==
  ASSUME IInv, OrderInv, PartialInv, ReconcileLedger
  PROVE  PartialInv'
<1>1. /\ UNCHANGED <<broker, audit, partialDone, reads, targets, partialSells>>
      /\ pc = "reconcile" /\ pc' = "decide"
  BY DEF ReconcileLedger
<1>2. ASSUME NEW s \in Symbols
      PROVE  PartialOk(s)'
  <2>1. /\ LiveSells(s)' = LiveSells(s) /\ LiveBuys(s)' = LiveBuys(s) /\ LastOf(s)' = LastOf(s)
        /\ FlagsOk(s) /\ CycleOk(s) /\ SymbolOk(s) /\ (Waiting(s)' => Waiting(s))
    BY <1>1 DEF LiveSells, LiveBuys, LastOf, broker, audit, PartialInv, PartialOk,
                OrderInv, SymbolInv, Waiting, reads
  <2>2. /\ held[s] \in Nat /\ heldSnap[s] \in Nat /\ audited[s] \in Nat
    BY Typed DEF IInv
  <2>3. book'[s] = IF openKnown /\ intentsKnown /\ Settled(s) THEN heldSnap[s] ELSE book[s]
    BY DEF ReconcileLedger
  <2>4. Unbooked(s) /\ openKnown /\ intentsKnown /\ Settled(s) => heldSnap[s] = audited[s]
    <3> SUFFICES ASSUME Unbooked(s), openKnown, intentsKnown, Settled(s)
                 PROVE  heldSnap[s] = audited[s]
      OBVIOUS
    <3>1. buyAudited[s]
      BY <2>1, <2>2 DEF Unbooked, SymbolOk, SellOk, NewOk
    <3> QED
      BY <1>1, <2>1, <3>1 DEF CycleOk, SeenOk, Settled, IsAiSwing
  <2>5. BookOk(s)'
    BY <1>1, <2>1, <2>3, <2>4 DEF FlagsOk, BookOk, Unbooked, broker, audit
  <2>6. FillOk(s)' /\ CountOk(s)'
    BY <1>1, <2>1 DEF FlagsOk, FillOk, CountOk, broker, audit
  <2>7. MarkOk(s)'
    <3>1. book'[s] > 0 => book[s] > 0
      BY <2>3 DEF Settled, IsAiSwing
    <3>2. Waiting(s)' /\ held'[s] > 0 => book'[s] = held'[s]
      <4> SUFFICES ASSUME Waiting(s)', held[s] > 0
                   PROVE  book'[s] = held[s]
        BY <1>1 DEF broker
      <4>1. heldSnap[s] = held[s]
        BY <2>1 DEF SymbolOk, ClearOk, Clear
      <4>2. openKnown /\ intentsKnown /\ s \notin pending
        BY <2>1 DEF Waiting
      <4>3. Settled(s)
        BY <4>1, <4>2 DEF Settled, IsAiSwing, IInv, LedgerInv, HeldStaysInLedger
      <4> QED
        BY <2>3, <4>1, <4>2, <4>3
    <3> QED
      BY <1>1, <2>1, <3>1, <3>2 DEF CycleOk, MarkOk, audit, reads
  <2>8. SeenOk(s)' /\ OfferOk(s)'
    BY <1>1 DEF SeenOk, OfferOk
  <2> QED
    BY <2>5, <2>6, <2>7, <2>8 DEF PartialOk, FlagsOk, CycleOk
<1>3. SizeInv'
  BY <1>1 DEF SizeInv
<1> QED
  BY <1>2, <1>3 DEF PartialInv

\* A partial take-profit is offered only for what none was sold of.
LEMMA DecideKeepsPartials ==
  ASSUME IInv, OrderInv, PartialInv, Decide
  PROVE  PartialInv'
<1>1. /\ UNCHANGED <<broker, audit, ledger, reads, partialSells>>
      /\ pc = "decide" /\ pc' \in {"idle", "loop"}
  BY DEF Decide
<1>2. /\ \A i \in 1..Len(targets') :
           LET t == targets'[i] IN
           /\ t.qty = IF t.partial THEN PartialQty(heldSnap[t.sym]) ELSE heldSnap[t.sym]
           /\ t.partial => ~partialDone[t.sym] /\ heldSnap[t.sym] > 0
  BY DecidedTargets DEF IInv
<1>3. ASSUME NEW s \in Symbols
      PROVE  PartialOk(s)'
  <2>1. FlagsOk(s) /\ CycleOk(s) /\ SymbolOk(s) /\ FlagsOk(s)'
    BY <1>1, QuietFlags DEF PartialInv, PartialOk, OrderInv, SymbolInv
  <2>2. Waiting(s)' => Waiting(s)
    BY <1>1 DEF Waiting, reads
  <2>3. MarkOk(s)' /\ SeenOk(s)'
    BY <1>1, <2>1, <2>2 DEF CycleOk, MarkOk, SeenOk, broker, ledger
  <2>4. OfferOk(s)'
    <3> SUFFICES ASSUME Waiting(s), s \in PartialOffers'
                 PROVE  partialSells[s] = 0
      BY <1>1, <2>2 DEF OfferOk
    <3>1. ~partialDone[s] /\ heldSnap[s] > 0
      BY <1>2 DEF PartialOffers
    <3>2. heldSnap[s] = held[s] /\ (held[s] > 0 => audited[s] <= held[s])
      BY <2>1 DEF SymbolOk, ClearOk, Clear
    <3>3. held[s] > 0 /\ ~ (audited[s] > held[s])
      BY <3>1, <3>2, Typed DEF IInv
    <3>4. book[s] > 0
      BY <3>3 DEF IInv, LedgerInv, HeldStaysInLedger
    <3>5. ~partialAudited[s]
      BY <1>1, <2>1, <3>1, <3>4 DEF CycleOk, MarkOk, Waiting
    <3> QED
      BY <2>1, <3>1, <3>3, <3>5 DEF FlagsOk, CountOk
  <2> QED
    BY <2>1, <2>3, <2>4 DEF PartialOk, CycleOk
<1>4. SizeInv'
  BY <1>1, <1>2 DEF SizeInv, reads
<1> QED
  BY <1>3, <1>4 DEF PartialInv

\* Going on to the next target keeps what the cycle knows.
LEMMA NextKeepsOffers ==
  ASSUME IInv, OrderInv, PartialInv, pc \in {"loop", "send", "await"}, NextTarget,
         UNCHANGED <<broker, ledger, partialAudited, reads, partialSells>>
  PROVE  SizeInv' /\ \A s \in Symbols : CycleOk(s)'
<1>1. /\ Len(targets) \in Nat /\ 1 \in 1..Len(targets)
      /\ \A i \in 1..Len(Tail(targets)) :
           Tail(targets)[i] = targets[i + 1] /\ i + 1 \in 1..Len(targets) /\ i + 1 > 1
  BY HeadIsFirst DEF IInv
<1>2. targets' = Tail(targets) /\ pc' \in {"idle", "loop"} /\ heldSnap' = heldSnap
  BY DEF NextTarget, reads
<1>3. SizeInv'
  BY <1>1, <1>2 DEF SizeInv, PartialInv
<1>4. pc' = "loop" => PartialOffers' \subseteq PartialOffers
  BY <1>1, <1>2 DEF PartialOffers
<1>5. pc' = "loop" => ToSell' \subseteq ToSell
  BY <1>2, NextKeepsTargets
<1>6. ASSUME NEW s \in Symbols
      PROVE  CycleOk(s)'
  <2>1. CycleOk(s)
    BY DEF PartialInv, PartialOk
  <2>2. Waiting(s)' => Waiting(s)
    BY <1>2, <1>5 DEF Waiting, reads
  <2>3. SeenOk(s)' /\ MarkOk(s)'
    BY <1>2, <2>1, <2>2 DEF CycleOk, SeenOk, MarkOk, broker, ledger
  <2>4. OfferOk(s)'
    BY <1>2, <1>4, <2>1, <2>2 DEF CycleOk, OfferOk
  <2> QED
    BY <2>3, <2>4 DEF CycleOk
<1> QED
  BY <1>3, <1>6

\* A row is added or closed only for a symbol with nothing to book.
LEMMA RowsKeepFlags ==
  ASSUME IInv, OrderInv, PartialInv,
         pc \in {"loop", "send"}, pc = "loop" => ~Skipped(Head(targets).sym),
         UNCHANGED <<broker, audited, buyAudited, partialAudited, ledger, partialSells>>,
         \A x \in Symbols : x # Head(targets).sym => attempts'[x] = attempts[x],
         NEW s \in Symbols
  PROVE  FlagsOk(s)'
<1>1. FlagsOk(s) /\ LiveSells(s)' = LiveSells(s) /\ LiveBuys(s)' = LiveBuys(s)
  BY DEF PartialInv, PartialOk, LiveSells, LiveBuys, broker
<1>2. CASE s # Head(targets).sym
  <2>1. LastOf(s)' = LastOf(s)
    BY <1>2 DEF LastOf
  <2> QED
    BY <1>1, <2>1, FlagsFrame DEF broker, ledger
<1>3. CASE s = Head(targets).sym
  <2>1. LiveSells(s) = {} /\ audited[s] <= held[s]
    BY <1>3, HeadIsClear
  <2>2. ~Unbooked(s)
    BY <2>1, Typed DEF Unbooked, IInv
  <2> QED
    BY <1>1, <2>2, FlagsFrame DEF broker, ledger
<1> QED
  BY <1>2, <1>3

\* Passing over a target, and losing an answer or the process, change no file.
LEMMA SkipOrEndKeepsPartials ==
  ASSUME IInv, OrderInv, PartialInv, SkipTarget \/ AnswerLost \/ Crash
  PROVE  PartialInv'
<1>1. UNCHANGED <<broker, audit, ledger, partialSells>>
  BY DEF SkipTarget, AnswerLost, Crash
<1>2. \A s \in Symbols : FlagsOk(s)'
  BY <1>1, QuietFlags DEF PartialInv, PartialOk
<1>3. CASE SkipTarget
  <2>1. pc = "loop" /\ NextTarget /\ UNCHANGED reads /\ partialAudited' = partialAudited
    BY <1>3 DEF SkipTarget, audit
  <2> QED
    BY <1>1, <1>2, <2>1, NextKeepsOffers DEF PartialInv, PartialOk
<1>4. CASE AnswerLost \/ Crash
  <2>1. pc' = "idle"
    BY <1>4 DEF AnswerLost, Crash
  <2>2. SizeInv' /\ \A s \in Symbols : CycleOk(s)'
    BY <2>1 DEF SizeInv, CycleOk, SeenOk, MarkOk, OfferOk
  <2> QED
    BY <1>2, <2>2 DEF PartialInv, PartialOk
<1> QED
  BY <1>3, <1>4

\* The INTENT row has the kind of its target.
LEMMA WriteIntentKeepsPartials ==
  ASSUME IInv, OrderInv, PartialInv, WriteIntent
  PROVE  PartialInv'
<1>1. /\ UNCHANGED <<broker, audited, buyAudited, partialAudited, ledger, reads, partialSells>>
      /\ pc = "loop" /\ ~Skipped(Head(targets).sym)
  BY DEF WriteIntent
<1>t. Head(targets) \in Target /\ Head(targets).sym \in Symbols
  BY <1>1, TargetInHand DEF IInv
<1>0. PICK t \in Target, s \in Symbols : t = Head(targets) /\ s = t.sym
  BY <1>t
<1>r. PICK row \in Attempt :
        row = [qty |-> t.qty, partial |-> t.partial, intentAt |-> now,
               intent |-> "open", orderedAt |-> Nothing, ordered |-> "none"]
  BY DEF Attempt, Target, IInv, TypeOK
<1>2. CASE NextTarget /\ UNCHANGED attempts
  <2>1. \A x \in Symbols : FlagsOk(x)'
    BY <1>1, <1>2, RowsKeepFlags
  <2> QED
    BY <1>1, <1>2, <2>1, NextKeepsOffers DEF PartialInv, PartialOk
<1>3. CASE pc' = "send" /\ UNCHANGED targets /\ attempts' = [attempts EXCEPT ![s] = Append(@, row)]
  <2>1. LastOf(s)' = row /\ \A x \in Symbols : x # s => attempts'[x] = attempts[x]
    <3>1. attempts[s] \in Seq(Attempt)
      BY Typed DEF IInv
    <3>2. /\ attempts'[s] = Append(attempts[s], row)
          /\ \A x \in Symbols : x # s => attempts'[x] = attempts[x]
      BY <1>3 DEF IInv, TypeOK
    <3>3. /\ Len(Append(attempts[s], row)) = Len(attempts[s]) + 1
          /\ Append(attempts[s], row)[Len(attempts[s]) + 1] = row
      BY <3>1, AppendProperties
    <3> QED
      BY <3>2, <3>3 DEF LastOf
  <2>2. \A x \in Symbols : FlagsOk(x)'
    BY <1>0, <1>1, <2>1, RowsKeepFlags
  <2>3. ToSell' = ToSell /\ PartialOffers' = PartialOffers
    BY <1>1, <1>3 DEF ToSell, PartialOffers
  <2>4. \A x \in Symbols : CycleOk(x)'
    BY <1>1, <1>3, <2>3
       DEF PartialInv, PartialOk, CycleOk, SeenOk, MarkOk, OfferOk, Waiting, broker, ledger, reads
  <2>5. SizeInv'
    BY <1>0, <1>1, <1>r, <1>3, <2>1 DEF PartialInv, SizeInv, reads
  <2> QED
    BY <2>2, <2>4, <2>5 DEF PartialInv, PartialOk
<1> QED
  BY <1>0, <1>r, <1>2, <1>3 DEF WriteIntent

LEMMA RefusalKeepsPartials ==
  ASSUME IInv, OrderInv, PartialInv, GateRefuses
  PROVE  PartialInv'
<1>1. /\ UNCHANGED <<broker, audited, buyAudited, partialAudited, ledger, reads, partialSells>>
      /\ pc = "send" /\ NextTarget
      /\ \A x \in Symbols : x # Head(targets).sym => attempts'[x] = attempts[x]
  BY DEF GateRefuses, IInv, TypeOK
<1>2. \A s \in Symbols : FlagsOk(s)'
  BY <1>1, RowsKeepFlags
<1> QED
  BY <1>1, <1>2, NextKeepsOffers DEF PartialInv, PartialOk

\* A partial take-profit of less than everything asks for one share or for less
\* than the position holds.
LEMMA PartialIsLess ==
  ASSUME PartialPct < 100, NEW q \in 1..MaxLot
  PROVE  PartialQty(q) = 1 \/ PartialQty(q) < q
<1>1. PartialPct \in 0..99 /\ MaxLot \in Nat
  BY LotAssumption
<1>2. q * PartialPct \in Nat /\ q * PartialPct < q * 100
  BY <1>1
<1>3. (q * PartialPct) \div 100 < q
  BY <1>2
<1> QED
  BY <1>3 DEF PartialQty

\* A sell goes out with the size of the position or, of one that none was sold
\* of, of its part.
LEMMA SendKeepsPartials ==
  ASSUME PartialPct < 100, IInv, OrderInv, PartialInv, SendSell
  PROVE  PartialInv'
<1>1. UNCHANGED <<held, audit, ledger, reads, targets, partialSells>> /\ pc = "send" /\ pc' = "await"
  BY DEF SendSell
<1>2. Head(targets) \in Target /\ Head(targets).sym \in Symbols
  BY <1>1, TargetInHand DEF IInv
<1>3. PICK t \in Target, s \in Symbols : t = Head(targets) /\ s = t.sym
  BY <1>2
<1>4. PICK o : o = [side |-> "sell", sym |-> t.sym, left |-> t.qty, sentAt |-> now,
                    listed |-> FALSE, partial |-> t.partial, touched |-> FALSE]
  OBVIOUS
<1>5. orders' = orders \cup {o} \/ orders' = orders
  BY <1>3, <1>4 DEF SendSell
<1>6. /\ t.qty \in Nat /\ t.qty > 0 /\ t.qty <= held[s]
      /\ LiveSells(s) = {} /\ heldSnap[s] = held[s]
      /\ buyAudited[s] /\ audited[s] <= held[s]
  BY <1>1, <1>3, HeadIsClear
<1>7. o.side = "sell" /\ o.sym = s /\ o.partial = t.partial /\ ~o.touched
  BY <1>3, <1>4
<1>8. 1 \in 1..Len(targets) /\ targets[1] = t
  BY <1>1, <1>3, HeadIsFirst DEF IInv
<1>9. /\ LastOf(s).qty = t.qty /\ LastOf(s).partial = t.partial
      /\ t.qty = IF t.partial THEN PartialQty(heldSnap[s]) ELSE heldSnap[s]
  BY <1>1, <1>3, <1>8 DEF OrderInv, HeadInv, PartialInv, SizeInv
<1>10. Waiting(s) /\ s \in ToSell
  <2>1. s \in ToSell
    BY <1>1, <1>3, <1>8 DEF ToSell
  <2> QED
    BY <1>1, <1>3, <2>1 DEF Waiting, OrderInv, HeadInv
<1>11. held[s] \in 1..MaxLot /\ audited[s] = held[s] /\ book[s] = held[s]
  <2>1. held[s] \in 0..MaxLot /\ audited[s] \in Nat /\ held[s] > 0
    BY <1>6, LotAssumption DEF IInv, TypeOK, Shares
  <2>2. audited[s] >= held[s]
    BY <1>6 DEF IInv, AuditInv, AuditCoversHoldings
  <2>3. book[s] = held[s]
    BY <1>1, <1>10, <2>1 DEF PartialInv, PartialOk, CycleOk, MarkOk
  <2> QED
    BY <1>6, <2>1, <2>2, <2>3, LotAssumption
<1>12. t.partial => partialSells[s] = 0
  <2>1. t.partial => s \in PartialOffers
    BY <1>1, <1>3, <1>8 DEF PartialOffers
  <2> QED
    BY <1>1, <1>10, <2>1 DEF PartialInv, PartialOk, CycleOk, OfferOk
<1>13. PartialOffers' \subseteq PartialOffers /\ ToSell' \subseteq ToSell
  BY <1>1 DEF PartialOffers, ToSell
<1>14. ASSUME NEW x \in Symbols
       PROVE  PartialOk(x)'
  <2>1. /\ LiveBuys(x)' = LiveBuys(x) /\ (x # s => LiveSells(x)' = LiveSells(x))
        /\ FlagsOk(x) /\ CycleOk(x) /\ LastOf(x)' = LastOf(x)
    BY <1>1, <1>5, <1>7 DEF LiveSells, LiveBuys, PartialInv, PartialOk, LastOf, audit
  <2>2. Waiting(x)' => Waiting(x)
    BY <1>1, <1>13 DEF Waiting, reads
  <2>3. CycleOk(x)'
    BY <1>1, <1>13, <2>1, <2>2 DEF CycleOk, SeenOk, MarkOk, OfferOk, ledger
  <2>4. CASE x # s
    <3>1. FlagsOk(x)'
      BY <1>1, <2>1, <2>4, FlagsFrame DEF audit, ledger
    <3> QED
      BY <2>3, <3>1 DEF PartialOk
  <2>5. CASE x = s
    <3>1. LiveSells(s)' \subseteq {o}
      BY <1>5, <1>6 DEF LiveSells
    <3>2. BookOk(s)'
      <4>1. t.partial => t.qty = 1 \/ t.qty < audited[s]
        BY <1>6, <1>9, <1>11, PartialIsLess
      <4>2. ~t.partial => t.qty = audited[s]
        BY <1>6, <1>9, <1>11
      <4> QED
        BY <1>1, <1>9, <1>11, <2>1, <2>5, <4>1, <4>2 DEF BookOk, audit, ledger
    <3>3. FillOk(s)'
      BY <1>1, <1>6, <1>7, <1>9, <1>12, <2>1, <2>5, <3>1 DEF FillOk, audit
    <3>4. CountOk(s)'
      BY <1>1, <2>1, <2>5 DEF FlagsOk, CountOk, audit, ledger
    <3> QED
      BY <2>3, <2>5, <3>2, <3>3, <3>4 DEF PartialOk, FlagsOk
  <2> QED
    BY <2>4, <2>5
<1>15. SizeInv'
  BY <1>1 DEF PartialInv, SizeInv, reads
<1> QED
  BY <1>14, <1>15 DEF PartialInv

\* The ORDERED row asks for what the INTENT row did.
LEMMA AnswerKeepsPartials ==
  ASSUME IInv, OrderInv, PartialInv, AnswerOk
  PROVE  PartialInv'
<1>1. /\ UNCHANGED <<broker, audited, buyAudited, partialAudited, ledger, reads, partialSells>>
      /\ pc = "await" /\ NextTarget
  BY DEF AnswerOk
<1>2. PICK s \in Symbols : s = Head(targets).sym
  BY <1>1, TargetInHand DEF IInv
<1>3. ASSUME NEW x \in Symbols
      PROVE  FlagsOk(x)'
  <2>1. /\ FlagsOk(x) /\ LiveSells(x)' = LiveSells(x) /\ LiveBuys(x)' = LiveBuys(x)
        /\ SymbolOk(x)
    BY <1>1 DEF PartialInv, PartialOk, LiveSells, LiveBuys, broker, OrderInv, SymbolInv
  <2>2. Unbooked(x) => attempts[x] # <<>>
    BY <2>1 DEF Unbooked, SymbolOk, SellOk, RowOk
  <2>3. attempts[x] # <<>> => LastOf(x)'.qty = LastOf(x).qty /\ LastOf(x)'.partial = LastOf(x).partial
    <3>1. CASE attempts' = attempts
      BY <3>1 DEF LastOf
    <3>2. CASE attempts' = [attempts EXCEPT ![s][Len(attempts[s])] =
                              [@ EXCEPT !.orderedAt = now, !.ordered = "open"]]
      <4>1. /\ \A y \in Symbols : y # s => attempts'[y] = attempts[y]
            /\ attempts[s] # <<>> => /\ LastOf(s)'.qty = LastOf(s).qty
                                     /\ LastOf(s)'.partial = LastOf(s).partial
        BY <3>2, OrderedRow DEF IInv
      <4> QED
        BY <4>1 DEF LastOf
    <3> QED
      BY <1>2, <3>1, <3>2 DEF AnswerOk
  <2> QED
    BY <1>1, <2>1, <2>2, <2>3, FlagsFrame DEF broker, ledger
<1> QED
  BY <1>1, <1>3, NextKeepsOffers DEF PartialInv, PartialOk

LEMMA InitPartials == Init => PartialInv
<1> SUFFICES ASSUME Init
             PROVE  PartialInv
  OBVIOUS
<1>1. ASSUME NEW s \in Symbols
      PROVE  PartialOk(s)
  <2>1. LiveSells(s) = {} /\ \A o \in LiveBuys(s) : ~o.partial
    BY DEF Init, LiveSells, LiveBuys
  <2>2. held[s] \in Nat /\ (audited[s] = held[s] \/ audited[s] = 0)
    BY LotAssumption DEF Init, Shares
  <2>3. ~ (audited[s] > held[s])
    BY <2>2
  <2>4. FlagsOk(s)
    BY <2>1, <2>3 DEF Init, FlagsOk, BookOk, FillOk, CountOk, Unbooked
  <2>5. CycleOk(s)
    BY DEF Init, CycleOk, SeenOk, MarkOk, OfferOk
  <2> QED
    BY <2>4, <2>5 DEF PartialOk
<1>2. SizeInv
  BY DEF Init, SizeInv
<1> QED
  BY <1>1, <1>2 DEF PartialInv

LEMMA StepKeepsPartials ==
  ASSUME PartialPct < 100, IInv, OrderInv, PartialInv, [Next]_vars
  PROVE  PartialInv'
<1>1. CASE UNCHANGED vars
  <2>1. UNCHANGED <<broker, audit, ledger, pc, reads, targets, partialSells>>
    BY <1>1 DEF vars
  <2>2. \A s \in Symbols : PartialOk(s)'
    BY <2>1, QuietFlags, CycleFrame DEF PartialInv, PartialOk, broker
  <2> QED
    BY <2>1, <2>2, SizeFrame DEF PartialInv
<1>2. CASE Broker
  BY <1>2, ListKeepsPartials, FillKeepsPartials DEF Broker
<1>3. CASE Tick \/ Daemon \/ Crash
  BY <1>3, TickKeepsPartials, ReadsKeepPartials, ConfirmKeepsPartials, SkipConfirmKeepsPartials,
     MarkKeepsPartials, PurgeKeepsPartials, BackfillKeepsPartials, ReconcileKeepsPartials,
     DecideKeepsPartials, SkipOrEndKeepsPartials, WriteIntentKeepsPartials, RefusalKeepsPartials,
     SendKeepsPartials, AnswerKeepsPartials
     DEF Daemon
<1> QED
  BY <1>1, <1>2, <1>3 DEF Next

LEMMA PartialInvariance ==
  ASSUME ~TornReads, PartialPct < 100
  PROVE  Spec => []PartialInv
<1>1. Init => PartialInv
  BY InitPartials
<1>2. IInv /\ OrderInv /\ PartialInv /\ [Next]_vars => PartialInv'
  BY StepKeepsPartials
<1> QED
  BY <1>1, <1>2, Invariance, OrderInvariance, PTL DEF Spec

\* A partial take-profit sells from a position at most once, however late its
\* fill is confirmed and whatever fails in between (intraday_buy_daemon.py
\* l.751-755, 876-881) - if it is to sell less than everything.
THEOREM PartialsSellOnce == ~TornReads /\ PartialPct < 100 => (Spec => []PartialOnce)
<1> SUFFICES ASSUME ~TornReads, PartialPct < 100
             PROVE  Spec => []PartialOnce
  OBVIOUS
<1>1. PartialInv => PartialOnce
  BY DEF PartialInv, PartialOk, FlagsOk, CountOk, PartialOnce
<1> QED
  BY <1>1, PartialInvariance, PTL

\* The ledger marks a partial take-profit as done only after it sold something,
\* under the same assumptions (intraday_buy_daemon.py l.876-881).
THEOREM FlagsAreHonest == ~TornReads /\ PartialPct < 100 => (Spec => []PartialFlagHonest)
<1> SUFFICES ASSUME ~TornReads, PartialPct < 100
             PROVE  Spec => []PartialFlagHonest
  OBVIOUS
<1>1. PartialInv => PartialFlagHonest
  BY DEF PartialInv, PartialOk, FlagsOk, CountOk, PartialFlagHonest
<1> QED
  BY <1>1, PartialInvariance, PTL

(***************************************************************************)
(* The cycle is a seller that keeps books: refinement of Position          *)
(***************************************************************************)

\* The state of Position as the refinement maps it.
View == <<held, [s \in Symbols |-> Selling(s)], audited, buyAudited, {s \in Symbols : IsAiSwing(s)}>>

\* What a cycle is about to take out of the ledger has been booked.
BookedInv ==
  pc \in {"mark", "purge"} /\ openKnown =>
    \A s \in Symbols \ pending : heldSnap[s] = 0 /\ IsAiSwing(s) => audited[s] = 0

LEMMA ViewSame ==
  ASSUME UNCHANGED <<held, audited, buyAudited>>,
         \A s \in Symbols : Selling(s)' = Selling(s) /\ (IsAiSwing(s)' <=> IsAiSwing(s))
  PROVE  View' = View
BY DEF View

LEMMA SellingKept ==
  ASSUME NEW s \in Symbols, LiveSells(s)' = LiveSells(s)
  PROVE  Selling(s)' = Selling(s)
BY DEF Selling

\* What the only working sell of a symbol asks for.
LEMMA SellingIs ==
  ASSUME NEW s \in Symbols, NEW o, LiveSells(s) = {o}
  PROVE  Selling(s) = o.left
BY DEF Selling

LEMMA SellingNext ==
  ASSUME NEW s \in Symbols, NEW o, LiveSells(s)' = {o}
  PROVE  Selling(s)' = o.left
BY DEF Selling

\* The working sells of a symbol: none, or one that fits the account.
LEMMA SellsOf ==
  ASSUME IInv, OrderInv, NEW s \in Symbols
  PROVE  /\ Selling(s) \in Nat
         /\ LiveSells(s) = {} => Selling(s) = 0
         /\ \A o \in LiveSells(s) : /\ LiveSells(s) = {o} /\ Selling(s) = o.left
                                    /\ o.left <= held[s] /\ o.left > 0 /\ o.left \in Nat
<1>1. LiveSells(s) = {} => Selling(s) = 0
  BY DEF Selling
<1>2. ASSUME NEW o \in LiveSells(s)
      PROVE  /\ LiveSells(s) = {o} /\ Selling(s) = o.left
             /\ o.left <= held[s] /\ o.left > 0 /\ o.left \in Nat
  <2>1. LiveSells(s) = {o} /\ o.left <= held[s]
    BY DEF OrderInv, SymbolInv, SymbolOk, SellOk
  <2>2. o.left \in Nat /\ o.left > 0
    BY OrderTyped DEF LiveSells, IInv
  <2> QED
    BY <2>1, <2>2, SellingIs
<1> QED
  BY <1>1, <1>2

\* Steps of the daemon that touch neither the account nor what is booked.
LEMMA StepsUnseen ==
  ASSUME IInv, \/ Tick \/ ReadOpenOrders \/ ReadBalance \/ SkipConfirm \/ MarkPartials
               \/ ReconcileLedger \/ Decide \/ SkipTarget \/ WriteIntent \/ GateRefuses
               \/ AnswerOk \/ AnswerLost \/ Crash \/ UNCHANGED vars
  PROVE  View' = View
<1>1. UNCHANGED <<held, orders, audited, buyAudited>>
  BY DEF Tick, ReadOpenOrders, ReadBalance, SkipConfirm, MarkPartials, ReconcileLedger, Decide,
         SkipTarget, WriteIntent, GateRefuses, AnswerOk, AnswerLost, Crash, vars, broker, audit
<1>2. \A s \in Symbols : IsAiSwing(s)' <=> IsAiSwing(s)
  <2>1. CASE ReconcileLedger
    BY <2>1 DEF ReconcileLedger, IsAiSwing, Settled
  <2>2. CASE ~ReconcileLedger
    <3>1. book' = book
      BY <2>2 DEF Tick, ReadOpenOrders, ReadBalance, SkipConfirm, MarkPartials, Decide,
         SkipTarget, WriteIntent, GateRefuses, AnswerOk, AnswerLost, Crash, vars, ledger
    <3> QED
      BY <3>1 DEF IsAiSwing
  <2> QED
    BY <2>1, <2>2
<1> QED
  BY <1>1, <1>2, ViewSame DEF Selling, LiveSells

LEMMA ListingUnseen ==
  ASSUME IInv, OrderInv, NEW o \in orders, ListOrder(o)
  PROVE  View' = View
<1> DEFINE n == [o EXCEPT !.listed = TRUE]
<1>1. /\ o \in Order /\ o.sym \in Symbols
      /\ n.sym = o.sym /\ n.side = o.side /\ n.left = o.left
  BY DEF IInv, TypeOK, Order
<1>2. UNCHANGED <<held, audited, buyAudited, book>> /\ orders' = (orders \ {o}) \cup {n} /\ ~o.listed
  BY DEF ListOrder, audit, ledger
<1> HIDE DEF n
<1>3. o.side = "sell"
  BY <1>1, <1>2 DEF IInv, BuyInv, LiveBuys, Order
<1>4. ASSUME NEW s \in Symbols
      PROVE  Selling(s)' = Selling(s)
  <2>1. CASE s # o.sym
    <3>1. LiveSells(s)' = LiveSells(s)
      BY <1>1, <1>2, <2>1 DEF LiveSells
    <3> QED
      BY <3>1, SellingKept
  <2>2. CASE s = o.sym
    <3>1. o \in LiveSells(s)
      BY <1>3, <2>2 DEF LiveSells
    <3>2. LiveSells(s) = {o} /\ Selling(s) = o.left
      BY <3>1, SellsOf
    <3>3. LiveSells(s)' = {n}
      BY <1>1, <1>2, <1>3, <2>2, <3>2 DEF LiveSells
    <3> QED
      BY <1>1, <3>2, <3>3, SellingNext
  <2> QED
    BY <2>1, <2>2
<1> QED
  BY <1>2, <1>4, ViewSame DEF IsAiSwing

\* Only what is left of the sell goes.
LEMMA CancelSeen ==
  ASSUME IInv, OrderInv, NEW o \in orders, CancelOrder(o)
  PROVE  [Promise!Next]_View
<1>1. o \in Order /\ o.sym \in Symbols
  BY DEF IInv, TypeOK, Order
<1>2. UNCHANGED <<held, audited, buyAudited, book>> /\ orders' = orders \ {o}
  BY DEF CancelOrder, audit, ledger
<1>3. \A s \in Symbols : IsAiSwing(s)' <=> IsAiSwing(s)
  BY <1>2 DEF IsAiSwing
<1>4. \A s \in Symbols \ {o.sym} : Selling(s)' = Selling(s)
  <2>1. \A s \in Symbols \ {o.sym} : LiveSells(s)' = LiveSells(s)
    BY <1>2 DEF LiveSells
  <2> QED
    BY <2>1, SellingKept
<1>5. CASE o.side = "buy"
  <2>1. \A s \in Symbols : LiveSells(s)' = LiveSells(s)
    BY <1>2, <1>5 DEF LiveSells
  <2>2. \A s \in Symbols : Selling(s)' = Selling(s)
    BY <2>1, SellingKept
  <2> QED
    BY <1>2, <1>3, <2>2, ViewSame
<1>6. CASE o.side = "sell"
  <2>1. o \in LiveSells(o.sym)
    BY <1>6 DEF LiveSells
  <2>2. LiveSells(o.sym) = {o}
    BY <1>1, <2>1, SellsOf
  <2>3. LiveSells(o.sym)' = {}
    BY <1>2, <2>2 DEF LiveSells
  <2>4. Selling(o.sym)' = 0
    BY <2>3 DEF Selling
  <2>5. [s \in Symbols |-> Selling(s)]' = [[s \in Symbols |-> Selling(s)] EXCEPT ![o.sym] = 0]
    BY <1>1, <1>4, <2>4
  <2>6. Promise!Cancelled(o.sym)
    BY <1>2, <1>3, <2>5 DEF Promise!Cancelled
  <2> QED
    BY <1>1, <2>6 DEF Promise!Next
<1> QED
  BY <1>1, <1>5, <1>6 DEF Order

\* A fill is a fill.
LEMMA FillSeen ==
  ASSUME IInv, OrderInv, NEW o \in orders, NEW q \in 1..MaxLot, FillOrder(o, q)
  PROVE  Promise!Next
<1> DEFINE n == [o EXCEPT !.left = o.left - q, !.touched = TRUE]
           s == o.sym
<1>1. /\ o \in Order /\ s \in Symbols /\ o.left \in Nat /\ q \in Nat /\ q <= o.left
      /\ n.sym = s /\ n.side = o.side /\ n.left = o.left - q
  BY OrderTyped, LotAssumption DEF IInv, FillOrder, Order
<1>2. UNCHANGED <<audited, buyAudited, book>>
      /\ orders' = (orders \ {o}) \cup (IF q = o.left THEN {} ELSE {n})
  BY DEF FillOrder, WithFill, audit, ledger
<1> HIDE DEF n
<1>3. \A x \in Symbols : IsAiSwing(x)' <=> IsAiSwing(x)
  BY <1>2 DEF IsAiSwing
<1>4. \A x \in Symbols \ {s} : Selling(x)' = Selling(x)
  <2>1. \A x \in Symbols \ {s} : LiveSells(x)' = LiveSells(x)
    BY <1>1, <1>2 DEF LiveSells
  <2> QED
    BY <2>1, SellingKept
<1>5. CASE o.side = "buy"
  <2>1. LiveSells(s)' = LiveSells(s)
    BY <1>1, <1>2, <1>5 DEF LiveSells
  <2>2. [x \in Symbols |-> Selling(x)]' = [x \in Symbols |-> Selling(x)]
    BY <1>1, <1>4, <2>1, SellingKept
  <2>3. o \in LiveBuys(s)
    BY <1>5 DEF LiveBuys
  <2>4. IsAiSwing(s) /\ ~buyAudited[s]
    BY <1>1, <2>3 DEF IInv, LedgerInv, AuditInv, IsAiSwing
  <2>5. held' = [held EXCEPT ![s] = held[s] + q]
    BY <1>5 DEF FillOrder
  <2>6. Promise!Bought(s, q)
    BY <1>1, <1>2, <1>3, <2>2, <2>4, <2>5 DEF Promise!Bought
  <2> QED
    BY <1>1, <2>6 DEF Promise!Next
<1>6. CASE o.side = "sell"
  <2>1. o \in LiveSells(s)
    BY <1>6 DEF LiveSells
  <2>2. LiveSells(s) = {o} /\ Selling(s) = o.left
    BY <1>1, <2>1, SellsOf
  <2>3. LiveSells(s)' = IF q = o.left THEN {} ELSE {n}
    BY <1>1, <1>2, <1>6, <2>2 DEF LiveSells
  <2>4. Selling(s)' = o.left - q
    <3>1. CASE q = o.left
      BY <1>1, <2>3, <3>1 DEF Selling
    <3>2. CASE q # o.left
      BY <1>1, <2>3, <3>2, SellingNext
    <3> QED
      BY <3>1, <3>2
  <2>5. [x \in Symbols |-> Selling(x)]' =
          [[x \in Symbols |-> Selling(x)] EXCEPT ![s] = [x \in Symbols |-> Selling(x)][s] - q]
    BY <1>1, <1>4, <2>2, <2>4
  <2>6. held' = [held EXCEPT ![s] = held[s] - q]
    BY <1>6 DEF FillOrder
  <2>7. Promise!Sold(s, q)
    BY <1>1, <1>2, <1>3, <2>2, <2>5, <2>6 DEF Promise!Sold
  <2> QED
    BY <1>1, <2>7 DEF Promise!Next
<1> QED
  BY <1>1, <1>5, <1>6 DEF Order

\* A confirmation books what the account misses, where nothing works.
LEMMA ConfirmSeen ==
  ASSUME IInv, OrderInv, ConfirmSells
  PROVE  Promise!Next
<1> DEFINE sales == {s \in Symbols : audited'[s] # audited[s]}
<1>1. UNCHANGED <<held, orders, buyAudited, book>>
  BY DEF ConfirmSells, broker, ledger
<1>2. [s \in Symbols |-> Selling(s)]' = [s \in Symbols |-> Selling(s)]
  BY <1>1 DEF Selling, LiveSells
<1>3. {s \in Symbols : IsAiSwing(s)}' = {s \in Symbols : IsAiSwing(s)}
  BY <1>1 DEF IsAiSwing
<1>4. \A s \in sales : LiveSells(s) = {} /\ buyAudited[s] /\ audited'[s] = held[s]
  BY ConfirmSymbol
<1>5. \A s \in sales : Selling(s) = 0
  BY <1>4, SellsOf
<1>6. audited' = [s \in Symbols |-> IF s \in sales THEN held[s] ELSE audited[s]]
  <2>1. audited' = [s \in Symbols |-> audited'[s]]
    BY DEF ConfirmSells
  <2> QED
    BY <1>4, <2>1
<1>7. Promise!Book(sales)
  BY <1>1, <1>2, <1>3, <1>4, <1>5, <1>6 DEF Promise!Book
<1> QED
  BY <1>7 DEF Promise!Next

\* Bought shares enter the books as they are held.
LEMMA BackfillSeen ==
  ASSUME IInv, OrderInv, BackfillBuys
  PROVE  Promise!Next
<1> DEFINE buys == {s \in Symbols : buyAudited'[s] # buyAudited[s]}
<1>1. UNCHANGED <<held, orders, book>> /\ pc = "backfill"
  BY DEF BackfillBuys, broker, ledger
<1>2. [s \in Symbols |-> Selling(s)]' = [s \in Symbols |-> Selling(s)]
  BY <1>1 DEF Selling, LiveSells
<1>3. {s \in Symbols : IsAiSwing(s)}' = {s \in Symbols : IsAiSwing(s)}
  BY <1>1 DEF IsAiSwing
<1>4. ASSUME NEW s \in Symbols
      PROVE  IF s \in buys THEN ~buyAudited[s] /\ buyAudited'[s] /\ audited'[s] = held[s]
                           ELSE buyAudited'[s] = buyAudited[s] /\ audited'[s] = audited[s]
  <2>1. /\ buyAudited[s] \in BOOLEAN /\ audited[s] \in Nat /\ held[s] \in Nat /\ heldSnap[s] \in Nat
        /\ NewOk(s)
    BY Typed DEF IInv, OrderInv, SymbolInv, SymbolOk
  <2>2. \/ buyAudited'[s] = buyAudited[s] /\ audited'[s] = audited[s]
        \/ /\ openKnown /\ s \notin pending /\ ~buyAudited[s] /\ buyAudited'[s]
           /\ audited'[s] = audited[s] + heldSnap[s]
    BY <2>1 DEF BackfillBuys, Settled
  <2>3. CASE /\ openKnown /\ s \notin pending /\ ~buyAudited[s] /\ buyAudited'[s]
             /\ audited'[s] = audited[s] + heldSnap[s]
    <3>1. held[s] <= heldSnap[s]
      BY <1>1, <2>3 DEF IInv, SnapInv
    <3>2. audited[s] = 0 /\ heldSnap[s] <= held[s]
      BY <2>1, <2>3 DEF NewOk
    <3>3. audited'[s] = held[s] /\ s \in buys
      BY <2>1, <2>3, <3>1, <3>2
    <3> QED
      BY <2>3, <3>3
  <2>4. CASE buyAudited'[s] = buyAudited[s] /\ audited'[s] = audited[s]
    BY <2>4
  <2> QED
    BY <2>2, <2>3, <2>4
<1>5. /\ buyAudited' = [s \in Symbols |-> buyAudited[s] \/ s \in buys]
      /\ audited' = [s \in Symbols |-> IF s \in buys THEN held[s] ELSE audited[s]]
  <2>1. /\ buyAudited' = [s \in Symbols |-> buyAudited'[s]] /\ audited' = [s \in Symbols |-> audited'[s]]
        /\ \A s \in Symbols : buyAudited[s] \in BOOLEAN /\ buyAudited'[s] \in BOOLEAN
    BY DEF BackfillBuys, IInv, TypeOK
  <2> QED
    BY <1>4, <2>1
<1>6. Promise!Confirm(buys)
  BY <1>1, <1>2, <1>3, <1>4, <1>5 DEF Promise!Confirm
<1> QED
  BY <1>6 DEF Promise!Next

\* What leaves the ledger is sold out and booked.
LEMMA PurgeSeen ==
  ASSUME IInv, OrderInv, BookedInv, PurgeLedger
  PROVE  Promise!Next
<1> DEFINE out == {s \in Symbols : IsAiSwing(s) /\ ~IsAiSwing(s)'}
<1>1. UNCHANGED <<held, orders, audited, buyAudited>> /\ pc = "purge" /\ openKnown
  BY DEF PurgeLedger, broker, audit, IInv, PcInv
<1>2. [s \in Symbols |-> Selling(s)]' = [s \in Symbols |-> Selling(s)]
  BY <1>1 DEF Selling, LiveSells
<1>3. \A s \in Symbols : book'[s] = IF Purgeable(s) THEN 0 ELSE book[s]
  BY DEF PurgeLedger
<1>4. {s \in Symbols : IsAiSwing(s)}' = {s \in Symbols : IsAiSwing(s)} \ out
  BY <1>3 DEF IsAiSwing
<1>5. ASSUME NEW s \in out
      PROVE  held[s] = 0 /\ Selling(s) = 0 /\ audited[s] = 0
  <2>1. s \notin pending /\ heldSnap[s] = 0 /\ IsAiSwing(s)
    BY <1>3 DEF IsAiSwing, Purgeable
  <2>2. held[s] = 0
    <3>1. held[s] <= heldSnap[s] /\ held[s] \in Nat
      BY <1>1, <2>1, Typed DEF IInv, SnapInv
    <3> QED
      BY <2>1, <3>1
  <2>3. audited[s] = 0
    BY <1>1, <2>1 DEF BookedInv
  <2>4. LiveSells(s) = {}
    <3>1. \A o \in LiveSells(s) : o.left <= held[s] /\ o.left > 0 /\ o.left \in Nat
      BY SellsOf
    <3> QED
      BY <2>2, <3>1
  <2> QED
    BY <2>2, <2>3, <2>4, SellsOf
<1>6. Promise!GiveUp(out)
  BY <1>1, <1>2, <1>4, <1>5 DEF Promise!GiveUp
<1> QED
  BY <1>6 DEF Promise!Next

\* A sell that goes out is the next one in the books.
LEMMA SendSeen ==
  ASSUME IInv, OrderInv, SendSell
  PROVE  [Promise!Next]_View
<1>1. UNCHANGED <<held, audited, buyAudited, book>> /\ pc = "send"
  BY DEF SendSell, audit, ledger
<1>2. {s \in Symbols : IsAiSwing(s)}' = {s \in Symbols : IsAiSwing(s)}
  BY <1>1 DEF IsAiSwing
<1>3. PICK t \in Target, s \in Symbols : t = Head(targets) /\ s = t.sym
  BY <1>1, TargetInHand DEF IInv
<1>4. PICK o : o = [side |-> "sell", sym |-> t.sym, left |-> t.qty, sentAt |-> now,
                    listed |-> FALSE, partial |-> t.partial, touched |-> FALSE]
  OBVIOUS
<1>5. CASE orders' = orders
  BY <1>1, <1>5, ViewSame DEF Selling, LiveSells, IsAiSwing
<1>6. CASE orders' = orders \cup {o}
  <2>1. /\ t.qty \in Nat /\ t.qty > 0 /\ t.qty <= held[s] /\ LiveSells(s) = {}
        /\ buyAudited[s] /\ audited[s] <= held[s]
    BY <1>1, <1>3, HeadIsClear
  <2>2. o.side = "sell" /\ o.sym = s /\ o.left = t.qty
    BY <1>3, <1>4
  <2>3. \A x \in Symbols \ {s} : Selling(x)' = Selling(x)
    <3>1. \A x \in Symbols \ {s} : LiveSells(x)' = LiveSells(x)
      BY <1>6, <2>2 DEF LiveSells
    <3> QED
      BY <3>1, SellingKept
  <2>4. Selling(s) = 0
    BY <2>1, SellsOf
  <2>5. Selling(s)' = t.qty
    <3>1. LiveSells(s)' = {o}
      BY <1>6, <2>1, <2>2 DEF LiveSells
    <3> QED
      BY <2>2, <3>1, SellingNext
  <2>6. held[s] \in Nat /\ audited[s] \in Nat /\ audited[s] >= held[s]
    BY <2>1, Typed DEF IInv, AuditInv, AuditCoversHoldings
  <2>7. audited[s] = held[s] /\ held[s] > 0
    BY <2>1, <2>6
  <2>8. IsAiSwing(s)
    BY <2>7 DEF IInv, LedgerInv, HeldStaysInLedger, IsAiSwing
  <2>9. [x \in Symbols |-> Selling(x)]' = [[x \in Symbols |-> Selling(x)] EXCEPT ![s] = t.qty]
    BY <2>3, <2>5
  <2>10. Promise!Order(s, t.qty)
    BY <1>1, <1>2, <2>1, <2>4, <2>7, <2>8, <2>9 DEF Promise!Order
  <2>11. t.qty \in 1..MaxLot
    BY DEF Target
  <2> QED
    BY <2>10, <2>11 DEF Promise!Next
<1> QED
  BY <1>3, <1>4, <1>5, <1>6 DEF SendSell

\* After a confirmation nothing that is sold out is left to book.
LEMMA BookedStep ==
  ASSUME IInv, OrderInv, BookedInv, [Next]_vars
  PROVE  BookedInv'
<1>1. CASE ConfirmSells
  <2>1. UNCHANGED <<held, pending, heldSnap, openKnown, book>> /\ openKnown /\ pc = "confirm"
    BY <1>1 DEF ConfirmSells, broker, ledger
  <2>2. ASSUME NEW s \in Symbols \ pending, heldSnap[s] = 0, IsAiSwing(s)
        PROVE  audited'[s] = 0
    <3>1. /\ SymbolOk(s) /\ TypeOK /\ PcInv
          /\ held[s] \in Nat /\ heldSnap[s] \in Nat /\ audited[s] \in Nat
      BY Typed DEF IInv, OrderInv, SymbolInv
    <3>2. CASE ~buyAudited[s]
      BY <3>1, <3>2, <1>1, ConfirmBooks DEF SymbolOk, NewOk, Confirmable
    <3>3. CASE buyAudited[s] /\ audited[s] <= heldSnap[s]
      BY <1>1, <2>2, <3>1, <3>3, ConfirmBooks
    <3>4. CASE buyAudited[s] /\ audited[s] > heldSnap[s]
      <4>1. LiveSells(s) = {} /\ heldSnap[s] = held[s]
        BY <2>1, <3>1, <3>4 DEF SymbolOk, ReadOk
      <4>2. attempts[s] # <<>> /\ RowOpen(LastOf(s)) /\ audited[s] - heldSnap[s] <= LastOf(s).qty
        BY <3>1, <3>4, <4>1 DEF SymbolOk, RowOk
      <4>3. Confirmable(s)
        BY <2>2, <3>4 DEF Confirmable
      <4>4. audited'[s] = heldSnap[s]
        BY <1>1, <3>1, <3>4, <4>2, <4>3, ConfirmBooks
      <4> QED
        BY <2>2, <4>4
    <3> QED
      BY <3>1, <3>2, <3>3, <3>4
  <2> QED
    BY <2>1, <2>2 DEF BookedInv, IsAiSwing
<1>2. CASE MarkPartials
  BY <1>2 DEF MarkPartials, BookedInv, IsAiSwing, audit, reads
<1>3. CASE Tick \/ Broker \/ UNCHANGED vars
  <2>1. UNCHANGED <<pc, openKnown, pending, heldSnap, book, audited>>
    BY <1>3 DEF Tick, Broker, ListOrder, FillOrder, CancelOrder, vars, audit, ledger, reads
  <2> QED
    BY <2>1 DEF BookedInv, IsAiSwing
<1>4. CASE Crash \/ (Daemon /\ ~ConfirmSells /\ ~MarkPartials)
  <2>1. pc' \notin {"mark", "purge"}
    BY <1>4 DEF Crash, Daemon, ReadOpenOrders, ReadBalance, SkipConfirm, PurgeLedger, BackfillBuys,
       ReconcileLedger, Decide, SkipTarget, WriteIntent, GateRefuses, SendSell, AnswerOk, AnswerLost,
       NextTarget
  <2> QED
    BY <2>1 DEF BookedInv
<1> QED
  BY <1>1, <1>2, <1>3, <1>4 DEF Next

LEMMA InitSeen ==
  ASSUME Init
  PROVE  BookedInv /\ Promise!Init
<1>1. BookedInv
  BY DEF Init, BookedInv
<1>2. \A s \in Symbols : Selling(s) = 0 /\ IsAiSwing(s)
  <2>1. \A s \in Symbols : LiveSells(s) = {}
    BY DEF Init, LiveSells
  <2>2. \A s \in Symbols : book[s] > 0
    BY LotAssumption DEF Init
  <2> QED
    BY <2>1, <2>2 DEF Selling, IsAiSwing
<1>3. held \in [Symbols -> 0..MaxLot] /\ buyAudited \in [Symbols -> BOOLEAN]
      /\ audited = [s \in Symbols |-> IF buyAudited[s] THEN held[s] ELSE 0]
  BY DEF Init, Shares
<1> QED
  BY <1>1, <1>2, <1>3 DEF Promise!Init

LEMMA EveryStepSeen ==
  ASSUME IInv, OrderInv, BookedInv, [Next]_vars
  PROVE  [Promise!Next]_View
<1>1. CASE Broker
  <2>1. PICK o \in orders : ListOrder(o) \/ CancelOrder(o) \/ \E q \in 1..MaxLot : FillOrder(o, q)
    BY <1>1 DEF Broker
  <2> QED
    BY <2>1, ListingUnseen, CancelSeen, FillSeen
<1>2. CASE ConfirmSells \/ BackfillBuys \/ PurgeLedger \/ SendSell
  BY <1>2, ConfirmSeen, BackfillSeen, PurgeSeen, SendSeen
<1>3. CASE UNCHANGED vars \/ Tick \/ Crash
  BY <1>3, StepsUnseen
<1>4. CASE Daemon /\ ~(ConfirmSells \/ BackfillBuys \/ PurgeLedger \/ SendSell)
  BY <1>4, StepsUnseen DEF Daemon
<1> QED
  BY <1>1, <1>2, <1>3, <1>4 DEF Next

\* Seen from the account, the cycle only ever sells what is held, one sell at a
\* time, and only once everything sold before is in the audit; the audit
\* follows the account and never falls below it, and what leaves the ledger is
\* sold out and booked (intraday_buy_daemon.py l.624-785, 831-839, 1160-1206),
\* whatever crashes, answers are lost and reads or writes fail.
THEOREM ImplementsPosition == ~TornReads => (Spec => SellsByTheBooks)
<1> SUFFICES ASSUME ~TornReads
             PROVE  Spec => SellsByTheBooks
  OBVIOUS
<1>1. Init => BookedInv /\ Promise!Init
  BY InitSeen
<1>2. IInv /\ OrderInv /\ BookedInv /\ [Next]_vars => BookedInv' /\ [Promise!Next]_View
  BY BookedStep, EveryStepSeen
<1> QED
  BY <1>1, <1>2, Invariance, OrderInvariance, PTL DEF Spec, SellsByTheBooks, Promise!Spec, View
=============================================================================
