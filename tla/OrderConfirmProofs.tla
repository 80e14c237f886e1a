------------------------- MODULE OrderConfirmProofs -------------------------
(***************************************************************************)
(* Theorems about OrderConfirm, for every set of chats and symbols, every  *)
(* time to live and every bound that satisfies the assumptions of the      *)
(* module.                                                                 *)
(***************************************************************************)
EXTENDS OrderConfirm, SequenceTheorems, TLAPS

(***************************************************************************)
(* Types                                                                   *)
(***************************************************************************)

\* A handler works on a fetched command, and places the orders of a batch that
\* was issued; an answer is that to the last order accepted.
WorkInv ==
  /\ pc # "poll" => at \in 1..upto
  /\ pc \in {"place", "answer"} => hand.token \in Tokens
  /\ pc = "answer" => orders # <<>>

Command == [chat : Chats,
            cmd : DOMAIN IssueSide \cup DOMAIN ConfirmSide \cup {"cancel"},
            token : Nat]
Batch == [side : Sides, symbols : (SUBSET Symbols) \ {{}}, partials : SUBSET Symbols]
Entry == [token : Tokens, expires : Nat]
Placing == [token : 0..Len(issued), side : Sides, todo : SUBSET Symbols,
            partials : SUBSET Symbols]
Order == [token : Tokens, symbol : Symbols, side : Sides]

\* Each command that issues or confirms has a side.
LEMMA CommandsHaveSides ==
  /\ \A k \in DOMAIN IssueSide : IssueSide[k] \in Sides
  /\ \A k \in DOMAIN ConfirmSide : ConfirmSide[k] \in Sides
BY DEF IssueSide, ConfirmSide, Sides

\* A command in hand is one that was sent.
LEMMA CommandInHand ==
  ASSUME TypeOK, WorkInv, pc # "poll"
  PROVE  /\ at \in Nat /\ at >= 1 /\ at <= Len(sent)
         /\ sent[at] \in Command /\ Chat \in Chats
<1>1. sent \in Seq(Command) /\ Len(sent) \in Nat
  BY LenProperties DEF TypeOK, Command
<1>2. at \in Nat /\ at >= 1 /\ at <= Len(sent)
  BY <1>1 DEF TypeOK, WorkInv
<1>3. sent[at] \in Command
  BY <1>1, <1>2, ElementOfSeq
<1> QED
  BY <1>2, <1>3 DEF Chat, Command

\* A handler that ends leaves the cursor within the commands sent.
LEMMA HandledKeepsTypes ==
  ASSUME TypeOK, WorkInv, pc # "poll", Handled
  PROVE  /\ at' \in 0..Len(sent) + 1
         /\ pc' \in {"poll", "dispatch"}
         /\ pc' = "dispatch" => at' \in 1..upto
         /\ handled' \subseteq DOMAIN sent
<1>1. sent \in Seq(Command) /\ Len(sent) \in Nat /\ DOMAIN sent = 1..Len(sent)
  BY LenProperties DEF TypeOK, Command
<1>2. upto \in Nat /\ upto <= Len(sent) /\ at \in 1..upto
  BY <1>1 DEF TypeOK, WorkInv
<1> QED
  BY <1>1, <1>2 DEF TypeOK, Handled

\* The offset a dispatch moves to is that of a command sent.
LEMMA DispatchKeepsTypes ==
  ASSUME TypeOK, WorkInv, NEW k, Dispatch(k)
  PROVE  offset' \in 0..Len(sent) /\ upto' = upto /\ pc = "dispatch"
<1>1. sent \in Seq(Command) /\ Len(sent) \in Nat
  BY LenProperties DEF TypeOK, Command
<1>2. pc = "dispatch" /\ at \in 0..Len(sent) /\ offset \in 0..Len(sent)
  BY CommandInHand, <1>1 DEF Dispatch, TypeOK
<1> QED
  BY <1>1, <1>2 DEF Dispatch, Larger

\* A batch that is issued has the next token.
LEMMA IssueBatchKeepsTypes ==
  ASSUME TypeOK, NEW c \in Chats, NEW b \in Batch, IssueBatch(c, b)
  PROVE  /\ issued' \in Seq(Batch) /\ Len(issued) \in Nat
         /\ Len(issued') = Len(issued) + 1 /\ Tokens \subseteq Tokens'
         /\ store' \in [Chats -> {None} \cup Entry'] /\ void' \subseteq Tokens'
<1>1. issued \in Seq(Batch) /\ Len(issued) \in Nat
  BY LenProperties DEF TypeOK, Batch
<1>2. issued' \in Seq(Batch) /\ Len(issued') = Len(issued) + 1
  BY <1>1, AppendProperties DEF IssueBatch
<1>3. Tokens \subseteq Tokens' /\ Len(issued) + 1 \in Tokens'
  BY <1>1, <1>2 DEF Tokens
<1>4. now + Ttl \in Nat
  BY TtlAssumption, BoundAssumption DEF TypeOK
<1>5. store \in [Chats -> {None} \cup Entry] /\ Entry \subseteq Entry'
  BY <1>3 DEF TypeOK, Entry
<1>6. [token |-> Len(issued) + 1, expires |-> now + Ttl] \in Entry'
  BY <1>3, <1>4 DEF Entry
<1>7. store' \in [Chats -> {None} \cup Entry']
  BY <1>5, <1>6 DEF IssueBatch
<1>8. store[c] # None => store[c].token \in Tokens
  BY <1>5 DEF Entry
<1>9. void' \subseteq Tokens'
  BY <1>3, <1>8 DEF IssueBatch, TypeOK
<1> QED
  BY <1>1, <1>2, <1>3, <1>7, <1>9

\* What consume leaves in the store has the type of a store.
LEMMA ConsumedKeepsTypes ==
  ASSUME TypeOK, NEW c \in Chats, NEW t
  PROVE  Consumed(c, t) \in [Chats -> {None} \cup Entry]
BY DEF TypeOK, Consumed, Entry

\* Proposals keep the types.
LEMMA ProposeKeepsTypes ==
  ASSUME TypeOK, WorkInv, NEW k \in DOMAIN IssueSide, Propose(k)
  PROVE  TypeOK' /\ WorkInv'
<1>1. /\ offset' \in 0..Len(sent) /\ upto' = upto /\ pc = "dispatch"
      /\ Chat \in Chats
  BY DispatchKeepsTypes, CommandInHand DEF Propose
<1>2. /\ at' \in 0..Len(sent) + 1 /\ pc' \in {"poll", "dispatch"}
      /\ pc' = "dispatch" => at' \in 1..upto
      /\ handled' \subseteq DOMAIN sent
  BY <1>1, HandledKeepsTypes DEF Propose
<1>3. WorkInv'
  BY <1>1, <1>2 DEF WorkInv
<1>4. CASE UNCHANGED <<issued, store, void>>
  BY <1>1, <1>2, <1>3, <1>4 DEF Propose, TypeOK, telegram, files, Tokens
<1>5. ASSUME NEW s \in (SUBSET Symbols) \ {{}},
             NEW p \in IF IssueSide[k] = "sell" THEN SUBSET s ELSE {{}},
             IssueBatch(Chat, [side |-> IssueSide[k], symbols |-> s, partials |-> p])
      PROVE  TypeOK'
  <2>1. p \subseteq Symbols
    BY <1>5
  <2>2. [side |-> IssueSide[k], symbols |-> s, partials |-> p] \in Batch
    BY <2>1, CommandsHaveSides DEF Batch
  <2>3. /\ issued' \in Seq(Batch) /\ Len(issued) \in Nat
        /\ Len(issued') = Len(issued) + 1 /\ Tokens \subseteq Tokens'
        /\ store' \in [Chats -> {None} \cup Entry'] /\ void' \subseteq Tokens'
    BY <1>1, <1>5, <2>2, IssueBatchKeepsTypes
  <2>4. hand' \in Placing'
    <3>1. hand \in Placing /\ hand' = hand
      BY DEF TypeOK, Placing, Propose
    <3>2. 0..Len(issued) \subseteq 0..Len(issued')
      BY <2>3
    <3> QED
      BY <3>1, <3>2 DEF Placing
  <2>5. orders' \in Seq(Order')
    <3>1. orders \in Seq(Order) /\ orders' = orders
      BY DEF TypeOK, Order, Propose
    <3>2. Order \subseteq Order'
      BY <2>3 DEF Order
    <3> QED
      BY <3>1, <3>2, SeqMonotonic
  <2> QED
    BY <1>1, <1>2, <2>3, <2>4, <2>5
    DEF Propose, TypeOK, telegram, files, Batch, Entry, Placing, Order
<1> QED
  BY <1>3, <1>4, <1>5 DEF Propose

\* Confirmations keep the types.
LEMMA ConfirmKeepsTypes ==
  ASSUME TypeOK, WorkInv, NEW k \in DOMAIN ConfirmSide, Confirm(k)
  PROVE  TypeOK' /\ WorkInv'
<1> DEFINE t == sent[at].token
           b == issued[store[Chat].token]
<1>1. /\ offset' \in 0..Len(sent) /\ upto' = upto /\ pc = "dispatch"
      /\ at \in 1..upto /\ at \in 0..Len(sent) + 1 /\ Chat \in Chats
  BY DispatchKeepsTypes, CommandInHand DEF Confirm, WorkInv, TypeOK
<1>2. store' \in [Chats -> {None} \cup Entry]
  BY <1>1, ConsumedKeepsTypes DEF Confirm
<1>3. CASE Matches(Chat, t) /\ (k = "confirm" \/ b.side = "sell")
  <2>1. t \in Tokens /\ t = store[Chat].token
    BY <1>1, <1>3 DEF Matches, TypeOK
  <2>2. issued \in Seq(Batch) /\ Len(issued) \in Nat
    BY LenProperties DEF TypeOK, Batch
  <2>3. b \in Batch
    BY <2>1, <2>2, ElementOfSeq DEF Tokens
  <2>4. hand' = [token |-> t, side |-> ConfirmSide[k], todo |-> b.symbols,
                 partials |-> b.partials]
    BY <1>3 DEF Confirm
  <2>5. hand' \in Placing
    BY <2>1, <2>2, <2>3, <2>4, CommandsHaveSides DEF Placing, Tokens, Batch
  <2>6. pc' = "place" /\ UNCHANGED <<at, handled>>
    BY <1>3 DEF Confirm
  <2>7. hand'.token \in Tokens
    BY <2>1, <2>4
  <2>8. WorkInv'
    BY <1>1, <2>6, <2>7 DEF WorkInv, Confirm, Tokens
  <2> QED
    BY <1>1, <1>2, <2>5, <2>6, <2>8
    DEF Confirm, TypeOK, telegram, files, Placing, Entry, Tokens
<1>4. CASE Handled /\ UNCHANGED hand
  <2>1. /\ at' \in 0..Len(sent) + 1 /\ pc' \in {"poll", "dispatch"}
        /\ pc' = "dispatch" => at' \in 1..upto
        /\ handled' \subseteq DOMAIN sent
    BY <1>1, <1>4, HandledKeepsTypes
  <2> QED
    BY <1>1, <1>2, <1>4, <2>1
    DEF Confirm, TypeOK, WorkInv, telegram, files, Entry, Tokens
<1> QED
  BY <1>3, <1>4 DEF Confirm

\* Accepted orders keep the types.
LEMMA AcceptedKeepsTypes ==
  ASSUME TypeOK, WorkInv, NEW s \in Symbols, Accepted(s)
  PROVE  /\ TypeOK' /\ WorkInv'
         /\ Len(orders) \in Nat /\ Len(orders') = Len(orders) + 1
         /\ \A i \in 1..Len(orders) : orders'[i] = orders[i]
         /\ orders'[Len(orders')].token = hand.token
         /\ orders'[Len(orders')].symbol = s
<1> DEFINE o == [token |-> hand.token, symbol |-> s, side |-> hand.side]
<1>1. orders \in Seq(Order) /\ o \in Order
  BY DEF TypeOK, WorkInv, Accepted, Order, Placing
<1>2. orders' = Append(orders, o)
  BY DEF Accepted
<1> HIDE DEF o
<1>3. /\ orders' \in Seq(Order) /\ Len(orders) \in Nat /\ Len(orders') = Len(orders) + 1
      /\ \A i \in 1..Len(orders) : orders'[i] = orders[i]
      /\ orders'[Len(orders')] = o
  BY <1>1, <1>2, AppendProperties, LenProperties
<1>4. orders' # <<>>
  BY <1>3, LenProperties, EmptySeq
<1>5. orders'[Len(orders')].token = hand.token /\ orders'[Len(orders')].symbol = s
  BY <1>3 DEF o
<1> QED
  BY <1>1, <1>3, <1>4, <1>5 DEF Accepted, TypeOK, WorkInv, telegram, files, Order, Tokens

\* Every step keeps the types.
LEMMA TypeStep ==
  ASSUME TypeOK, WorkInv, [Next]_vars
  PROVE  TypeOK' /\ WorkInv'
<1> USE TtlAssumption, BoundAssumption
<1>1. CASE Poll
  <2>1. sent \in Seq(Command) /\ Len(sent) \in Nat
    BY LenProperties DEF TypeOK, Command
  <2>2. Larger(acked, offset) \in 0..Len(sent)
    BY <2>1 DEF TypeOK, Larger
  <2>3. /\ acked' \in 0..Len(sent) /\ at' \in 1..upto' /\ upto' \in 0..Len(sent)
        /\ at' \in 0..Len(sent) + 1
    BY <1>1, <2>1, <2>2 DEF Poll
  <2>4. /\ pc' = "dispatch" /\ sent' = sent /\ offset' = offset /\ now' = now
        /\ faults' = faults /\ store' = store /\ hand' = hand /\ ledger' = ledger
        /\ flagged' = flagged /\ issued' = issued /\ void' = void
        /\ handled' = handled /\ orders' = orders
    BY <1>1 DEF Poll, files
  <2> QED
    BY <2>3, <2>4 DEF TypeOK, WorkInv, Tokens
<1>2. CASE \E k \in DOMAIN IssueSide : Propose(k)
  BY <1>2, ProposeKeepsTypes
<1>3. CASE Cancel
  <2>1. /\ offset' \in 0..Len(sent) /\ upto' = upto /\ pc = "dispatch"
        /\ Chat \in Chats
    BY <1>3, DispatchKeepsTypes, CommandInHand DEF Cancel
  <2>2. /\ at' \in 0..Len(sent) + 1 /\ pc' \in {"poll", "dispatch"}
        /\ pc' = "dispatch" => at' \in 1..upto
        /\ handled' \subseteq DOMAIN sent
    BY <1>3, <2>1, HandledKeepsTypes DEF Cancel
  <2> QED
    BY <1>3, <2>1, <2>2 DEF Cancel, TypeOK, WorkInv, telegram, files, Tokens
<1>4. CASE \E k \in DOMAIN ConfirmSide : Confirm(k)
  BY <1>4, ConfirmKeepsTypes
<1>5. ASSUME NEW s \in Symbols, Refused(s) PROVE TypeOK' /\ WorkInv'
  BY <1>5 DEF Refused, TypeOK, WorkInv, telegram, polling, files, Tokens
<1>6. ASSUME NEW s \in Symbols, Accepted(s) PROVE TypeOK' /\ WorkInv'
  BY <1>6, AcceptedKeepsTypes
<1>7. CASE AnswerOk
  <2>1. ledger' \subseteq Symbols /\ flagged' \subseteq ledger'
    BY <1>7 DEF AnswerOk, TypeOK, files
  <2> QED
    BY <1>7, <2>1 DEF AnswerOk, NextOrder, TypeOK, WorkInv, telegram, Tokens
<1>8. CASE AnswerLost
  <2>1. faults' \in 0..MaxFaults
    BY <1>8 DEF AnswerLost, Fail, TypeOK
  <2>2. hand' \in Placing /\ hand'.token = hand.token
    BY <1>8 DEF AnswerLost, NextOrder, TypeOK, Placing
  <2> QED
    BY <1>8, <2>1, <2>2
    DEF AnswerLost, NextOrder, TypeOK, WorkInv, telegram, files, Tokens, Placing
<1>9. CASE Placed
  <2>1. /\ at' \in 0..Len(sent) + 1 /\ pc' \in {"poll", "dispatch"}
        /\ pc' = "dispatch" => at' \in 1..upto
        /\ handled' \subseteq DOMAIN sent
    BY <1>9, HandledKeepsTypes DEF Placed
  <2>2. hand' \in Placing
    BY <1>9, LenProperties DEF Placed, Nothing, Placing, Sides, TypeOK, Batch
  <2> QED
    BY <1>9, <2>1, <2>2 DEF Placed, TypeOK, WorkInv, telegram, files, Tokens, Placing
<1>10. CASE PollFails
  BY <1>10 DEF PollFails, Fail, TypeOK, WorkInv, polling, files, Tokens
<1>11. CASE Crash
  <2>1. Len(sent) \in Nat /\ Len(issued) \in Nat
    BY LenProperties DEF TypeOK
  <2>2. hand' \in Placing
    BY <1>11, <2>1 DEF Crash, Nothing, Placing, Sides
  <2>3. Pending \subseteq Tokens
    BY DEF TypeOK, Pending
  <2> QED
    BY <1>11, <2>1, <2>2, <2>3 DEF Crash, Fail, TypeOK, WorkInv, telegram, files, Tokens, Placing
<1>12. CASE Tick
  <2>1. void' \subseteq Tokens
    BY <1>12 DEF Tick, TypeOK
  <2> QED
    BY <1>12, <2>1 DEF Tick, TypeOK, WorkInv, telegram, polling, files, Tokens
<1>13. ASSUME NEW c \in Chats, Type(c) PROVE TypeOK' /\ WorkInv'
  <2>1. \A k \in DOMAIN IssueSide \cup {"cancel"} :
          [chat |-> c, cmd |-> k, token |-> 0] \in Command
    BY <1>13 DEF Command
  <2>2. \A k \in DOMAIN ConfirmSide, t \in Tokens :
          [chat |-> c, cmd |-> k, token |-> t] \in Command
    BY <1>13, LenProperties DEF Command, Tokens, TypeOK
  <2>3. PICK m \in Command : sent' = Append(sent, m)
    BY <1>13, <2>1, <2>2 DEF Type
  <2>4. /\ sent \in Seq(Command) /\ sent' \in Seq(Command) /\ Len(sent) \in Nat
        /\ Len(sent') = Len(sent) + 1 /\ DOMAIN sent \subseteq DOMAIN sent'
    BY <2>3, AppendProperties, LenProperties DEF TypeOK, Command
  <2>5. /\ acked' \in 0..Len(sent') /\ offset' \in 0..Len(sent')
        /\ at' \in 0..Len(sent') + 1 /\ upto' \in 0..Len(sent')
    BY <1>13, <2>4 DEF Type, TypeOK, polling
  <2>6. handled' \subseteq DOMAIN sent'
    BY <1>13, <2>4 DEF Type, TypeOK
  <2>7. /\ now' = now /\ faults' = faults /\ store' = store /\ hand' = hand
        /\ ledger' = ledger /\ flagged' = flagged /\ issued' = issued
        /\ void' = void /\ orders' = orders /\ pc' = pc
    BY <1>13 DEF Type, polling, files
  <2>8. WorkInv'
    BY <1>13, <2>7 DEF Type, WorkInv, polling, Tokens
  <2> QED
    BY <2>4, <2>5, <2>6, <2>7, <2>8 DEF TypeOK, Command, Tokens
<1>14. CASE UNCHANGED vars
  BY <1>14 DEF vars, TypeOK, WorkInv, telegram, polling, files, Tokens
<1> QED
  BY <1>1, <1>2, <1>3, <1>4, <1>5, <1>6, <1>7, <1>8, <1>9, <1>10, <1>11, <1>12, <1>13, <1>14
  DEF Next, Bot

\* The bot's memory, its place among the commands and the ledger keep their
\* types through every command, failure and restart.
THEOREM TypesHold == Spec => []TypeOK
<1>1. Init => TypeOK /\ WorkInv
  BY TtlAssumption, BoundAssumption, EmptySeq
  DEF Init, TypeOK, WorkInv, Nothing, Sides, Tokens
<1>2. TypeOK /\ WorkInv /\ [Next]_vars => TypeOK' /\ WorkInv'
  BY TypeStep
<1> QED
  BY <1>1, <1>2, PTL DEF Spec

(***************************************************************************)
(* The polling loop                                                        *)
(***************************************************************************)

\* What the bot has asked Telegram to forget, and what it is about to, has been
\* handled: all before the command in hand, which the offset may have reached.
CursorInv ==
  /\ 1..acked \subseteq handled
  /\ pc = "poll" => 1..offset \subseteq handled
  /\ pc # "poll" => 1..(at - 1) \subseteq handled
  /\ pc = "dispatch" => offset < at
  /\ pc \in {"place", "answer"} => offset <= at

\* Where the bot is among the commands is a number.
LEMMA CursorTypes ==
  ASSUME TypeOK
  PROVE  acked \in Nat /\ offset \in Nat /\ at \in Nat
BY LenProperties DEF TypeOK

\* A handler that ends leaves the bot at the next command or at the next poll.
LEMMA HandledKeepsCursor ==
  ASSUME TypeOK, CursorInv, pc # "poll", Handled,
         offset' = offset \/ offset' = Larger(offset, at), acked' = acked
  PROVE  CursorInv'
<1>1. at \in Nat /\ offset' \in Nat /\ offset' <= at /\ at' = at + 1
  BY CursorTypes DEF TypeOK, CursorInv, Handled, Larger
<1>2. 1..at \subseteq handled'
  BY <1>1 DEF CursorInv, Handled
<1>3. 1..acked' \subseteq handled'
  BY DEF CursorInv, Handled
<1>4. 1..offset' \subseteq handled' /\ 1..(at' - 1) \subseteq handled'
  BY <1>1, <1>2
<1> QED
  BY <1>1, <1>3, <1>4 DEF CursorInv, Handled

\* Every step keeps the polling invariant.
LEMMA CursorStep ==
  ASSUME TypeOK, CursorInv, [Next]_vars
  PROVE  CursorInv'
<1>0. acked \in Nat /\ offset \in Nat /\ at \in Nat
  BY CursorTypes
<1>1. CASE UNCHANGED <<acked, handled, polling>>
  BY <1>1 DEF CursorInv, polling
<1>2. CASE Poll
  <2>1. 1..acked' \subseteq handled
    BY <1>2 DEF Poll, CursorInv, Larger
  <2>2. at' = acked' + 1 /\ pc' = "dispatch" /\ handled' = handled /\ offset' = offset
    BY <1>2 DEF Poll
  <2>3. (acked' + 1) - 1 = acked' /\ offset < acked' + 1
    BY <1>0, <1>2 DEF Poll, Larger
  <2> QED
    BY <2>1, <2>2, <2>3 DEF CursorInv
<1>3. ASSUME NEW k \in DOMAIN IssueSide, Propose(k) PROVE CursorInv'
  BY <1>3, HandledKeepsCursor DEF Propose, Dispatch, telegram
<1>4. CASE Cancel
  BY <1>4, HandledKeepsCursor DEF Cancel, Dispatch, telegram
<1>5. ASSUME NEW k \in DOMAIN ConfirmSide, Confirm(k) PROVE CursorInv'
  <2>1. CASE Handled
    BY <1>5, <2>1, HandledKeepsCursor DEF Confirm, Dispatch, telegram
  <2>2. CASE pc' = "place" /\ UNCHANGED <<at, handled>>
    BY <1>0, <1>5, <2>2 DEF Confirm, Dispatch, telegram, CursorInv, Larger
  <2> QED
    BY <1>5, <2>1, <2>2 DEF Confirm
<1>6. CASE Placed
  BY <1>6, HandledKeepsCursor DEF Placed, telegram
<1>7. ASSUME NEW s \in Symbols, Accepted(s) PROVE CursorInv'
  BY <1>7 DEF Accepted, telegram, CursorInv
<1>8. CASE AnswerOk \/ AnswerLost
  BY <1>8 DEF AnswerOk, AnswerLost, NextOrder, telegram, CursorInv
<1>9. CASE PollFails
  BY <1>9 DEF PollFails, polling, CursorInv
<1>10. CASE Crash
  BY <1>10 DEF Crash, telegram, CursorInv
<1>11. CASE Tick \/ (\E s \in Symbols : Refused(s)) \/ UNCHANGED vars
  BY <1>1, <1>11 DEF Tick, Refused, vars, telegram
<1>12. ASSUME NEW c \in Chats, Type(c) PROVE CursorInv'
  BY <1>1, <1>12 DEF Type
<1> QED
  BY <1>2, <1>3, <1>4, <1>5, <1>6, <1>7, <1>8, <1>9, <1>10, <1>11, <1>12 DEF Next, Bot

\* Telegram never forgets a command that no bot has handled to its end,
\* wherever the bot dies and whichever polls fail.
THEOREM CommandsSurvive == Spec => []NoCommandIsLost
<1>1. Init => CursorInv
  BY DEF Init, CursorInv
<1>2. TypeOK /\ CursorInv /\ [Next]_vars => CursorInv'
  BY CursorStep
<1>3. CursorInv => NoCommandIsLost
  BY DEF CursorInv, NoCommandIsLost
<1> QED
  BY <1>1, <1>2, <1>3, TypesHold, PTL DEF Spec

(***************************************************************************)
(* Tokens                                                                  *)
(***************************************************************************)

\* Tokens for which the broker has accepted an order.
Used == {orders[i].token : i \in DOMAIN orders}

\* A token in the store has brought no order about and is void only if it has
\* expired; no two chats hold the same one.
StoreInv ==
  /\ \A c \in Chats : store[c] # None =>
       /\ store[c].token \notin Used
       /\ store[c].token \in void => now > store[c].expires
  /\ \A c, d \in Chats :
       store[c] # None /\ store[d] # None /\ store[c].token = store[d].token => c = d

\* The token whose orders are being placed has left the store for good; what is
\* left of its batch, but for an order awaiting its answer, is not ordered.
HandInv ==
  pc \in {"place", "answer"} =>
    /\ hand.token \notin void \cup Pending
    /\ \A i \in DOMAIN orders :
         orders[i].token = hand.token /\ orders[i].symbol \in hand.todo
           => pc = "answer" /\ i = Len(orders)

TokenInv == StoreInv /\ HandInv /\ VoidTokensOrderNothing /\ OrderedOnce

\* All tokens in use are tokens that were shown.
LEMMA TokensAreIssued ==
  ASSUME TypeOK
  PROVE  /\ Used \subseteq Tokens /\ Pending \subseteq Tokens /\ void \subseteq Tokens
         /\ Len(issued) \in Nat /\ Len(issued) + 1 \notin Tokens
<1>1. orders \in Seq(Order) /\ Len(issued) \in Nat
  BY LenProperties DEF TypeOK, Order
<1>2. \A i \in DOMAIN orders : orders[i] \in Order
  BY <1>1, ElementOfSeq, LenProperties
<1> QED
  BY <1>1, <1>2 DEF TypeOK, Used, Pending, Tokens, Order

\* A proposal that issues a batch puts a fresh token in the place of another,
\* which becomes void.
LEMMA ProposeKeepsTokens ==
  ASSUME TypeOK, WorkInv, TokenInv, NEW k \in DOMAIN IssueSide, Propose(k)
  PROVE  TokenInv'
<1> DEFINE n == Len(issued) + 1
<1>1. /\ Chat \in Chats /\ orders' = orders /\ now' = now /\ hand' = hand
      /\ pc' \notin {"place", "answer"}
  BY CommandInHand DEF Propose, Dispatch, Handled
<1>2. CASE UNCHANGED <<issued, store, void>>
  BY <1>1, <1>2 DEF TokenInv, StoreInv, HandInv, VoidTokensOrderNothing, OrderedOnce, Used
<1>3. ASSUME NEW b, IssueBatch(Chat, b)
      PROVE  TokenInv'
  <2>1. n \notin Used /\ n \notin void /\ n \notin Pending
    BY TokensAreIssued
  <2>2. store' = [store EXCEPT ![Chat] = [token |-> n, expires |-> now + Ttl]]
    BY <1>3 DEF IssueBatch
  <2>3. \A c \in Chats : c # Chat => store'[c] = store[c]
    BY <1>1, <2>2 DEF TypeOK
  <2>4. store'[Chat].token = n
    BY <1>1, <2>2 DEF TypeOK
  <2>5. void' = IF store[Chat] = None THEN void ELSE void \cup {store[Chat].token}
    BY <1>3 DEF IssueBatch
  <2>6. store[Chat] # None => store[Chat].token \notin Used /\ store[Chat].token # n
    BY <1>1, <2>1 DEF TokenInv, StoreInv, Pending
  <2>7. VoidTokensOrderNothing'
    BY <1>1, <2>5, <2>6 DEF TokenInv, VoidTokensOrderNothing, Used
  <2>8. ASSUME NEW c \in Chats, store'[c] # None
        PROVE  store'[c].token \notin Used' /\ (store'[c].token \in void' => now' > store'[c].expires)
    <3>1. CASE c = Chat
      BY <1>1, <2>1, <2>4, <2>5, <2>6, <3>1 DEF Used
    <3>2. CASE c # Chat
      <4>1. store[c] # None /\ store'[c] = store[c]
        BY <2>3, <2>8, <3>2
      <4>2. store[Chat] # None => store[c].token # store[Chat].token
        BY <1>1, <3>2, <4>1 DEF TokenInv, StoreInv
      <4> QED
        BY <1>1, <2>5, <4>1, <4>2 DEF TokenInv, StoreInv, Used
    <3> QED
      BY <3>1, <3>2
  <2>9. ASSUME NEW c \in Chats, NEW d \in Chats, store'[c] # None, store'[d] # None,
               store'[c].token = store'[d].token
        PROVE  c = d
    <3>1. \A e \in Chats : store'[e] # None /\ e # Chat => store'[e].token # n
      BY <2>1, <2>3 DEF Pending
    <3> QED
      BY <2>3, <2>4, <2>9, <3>1 DEF TokenInv, StoreInv
  <2> QED
    BY <1>1, <2>7, <2>8, <2>9 DEF TokenInv, StoreInv, HandInv, OrderedOnce
<1> QED
  BY <1>2, <1>3 DEF Propose

\* A store that only loses tokens, while the clock and the orders stay, keeps
\* what is known of it, if the tokens that become void are among the lost.
LEMMA SmallerStore ==
  ASSUME StoreInv, now' = now, orders' = orders,
         \A c \in Chats : store'[c] \in {store[c], None},
         \A c \in Chats : store'[c] # None => (store'[c].token \in void' => store'[c].token \in void)
  PROVE  StoreInv'
BY DEF StoreInv, Used

\* A confirmation takes a token that is in the store, and so has brought no
\* order about, and that has not expired, and so is not void.
LEMMA ConfirmKeepsTokens ==
  ASSUME TypeOK, WorkInv, TokenInv, NEW k \in DOMAIN ConfirmSide, Confirm(k)
  PROVE  TokenInv'
<1> DEFINE t == sent[at].token
<1>1. Chat \in Chats
  BY CommandInHand DEF Confirm, Dispatch
<1>2. \A c \in Chats : store'[c] \in {store[c], None}
  BY DEF Confirm, Consumed, TypeOK
<1>3. now' = now /\ orders' = orders /\ void' = void
  BY DEF Confirm
<1>4. StoreInv'
  BY <1>2, <1>3, SmallerStore DEF TokenInv
<1>5. HandInv'
  <2>1. CASE Matches(Chat, t) /\ pc' = "place" /\ hand'.token = t
    <3>1. t \notin Used /\ t \notin void
      BY <1>1, <2>1, BoundAssumption DEF TokenInv, StoreInv, Matches, TypeOK
    <3>2. store' = [store EXCEPT ![Chat] = None]
      BY <2>1 DEF Confirm, Consumed, Matches
    <3>3. t \notin Pending'
      BY <1>1, <2>1, <3>2 DEF TokenInv, StoreInv, Matches, Pending, TypeOK
    <3> QED
      BY <1>3, <2>1, <3>1, <3>3 DEF HandInv, Used
  <2>2. CASE Handled
    BY <2>2 DEF HandInv, Handled
  <2> QED
    BY <2>1, <2>2 DEF Confirm
<1> QED
  BY <1>3, <1>4, <1>5 DEF TokenInv, VoidTokensOrderNothing, OrderedOnce

\* A cancelled token leaves the store.
LEMMA CancelKeepsTokens ==
  ASSUME TypeOK, WorkInv, TokenInv, Cancel
  PROVE  TokenInv'
<1>1. Chat \in Chats
  BY CommandInHand DEF Cancel, Dispatch
<1>2. /\ now' = now /\ orders' = orders /\ pc' \notin {"place", "answer"}
      /\ void' = IF store[Chat] = None THEN void ELSE void \cup {store[Chat].token}
      /\ store' = [store EXCEPT ![Chat] = None]
  BY DEF Cancel, Handled
<1>3. \A c \in Chats : store'[c] # None => c # Chat /\ store'[c] = store[c]
  BY <1>1, <1>2 DEF TypeOK
<1>4. \A c \in Chats : store'[c] \in {store[c], None}
  BY <1>1, <1>2 DEF TypeOK
<1>5. StoreInv'
  BY <1>1, <1>2, <1>3, <1>4, SmallerStore DEF TokenInv, StoreInv
<1>6. VoidTokensOrderNothing'
  BY <1>1, <1>2 DEF TokenInv, StoreInv, VoidTokensOrderNothing, Used
<1> QED
  BY <1>2, <1>5, <1>6 DEF TokenInv, HandInv, OrderedOnce

\* The order that is accepted was still to be placed.
LEMMA AcceptedKeepsTokens ==
  ASSUME TypeOK, WorkInv, TokenInv, NEW s \in Symbols, Accepted(s)
  PROVE  TokenInv'
<1> DEFINE n == Len(orders)
<1>1. /\ n \in Nat /\ Len(orders') = n + 1
      /\ \A i \in 1..n : orders'[i] = orders[i]
      /\ orders'[n + 1].token = hand.token /\ orders'[n + 1].symbol = s
  BY AcceptedKeepsTypes
<1>2. DOMAIN orders = 1..n /\ DOMAIN orders' = 1..(n + 1)
  BY <1>1, AcceptedKeepsTypes, LenProperties DEF TypeOK
<1>3. /\ pc = "place" /\ pc' = "answer" /\ hand' = hand /\ s \in hand.todo
      /\ now' = now /\ store' = store /\ void' = void
  BY DEF Accepted
<1>4. hand.token \notin void /\ hand.token \notin Pending
  BY <1>3 DEF TokenInv, HandInv
<1>5. \A i \in 1..n : ~(orders[i].token = hand.token /\ orders[i].symbol \in hand.todo)
  BY <1>2, <1>3 DEF TokenInv, HandInv
<1>6. Used' = Used \cup {hand.token}
  BY <1>1, <1>2 DEF Used
<1>7. StoreInv'
  BY <1>3, <1>4, <1>6 DEF TokenInv, StoreInv, Pending
<1>8. VoidTokensOrderNothing'
  BY <1>1, <1>2, <1>3, <1>4 DEF TokenInv, VoidTokensOrderNothing
<1>9. HandInv'
  BY <1>1, <1>2, <1>3, <1>4, <1>5 DEF HandInv, Pending
<1>10. ASSUME NEW i \in DOMAIN orders', NEW j \in DOMAIN orders',
              orders'[i].token = orders'[j].token, orders'[i].symbol = orders'[j].symbol
       PROVE  i = j
  <2>1. CASE i \in 1..n /\ j \in 1..n
    BY <1>1, <1>2, <1>10, <2>1 DEF TokenInv, OrderedOnce
  <2>2. CASE i = n + 1 /\ j \in 1..n
    BY <1>1, <1>3, <1>5, <1>10, <2>2
  <2>3. CASE j = n + 1 /\ i \in 1..n
    BY <1>1, <1>3, <1>5, <1>10, <2>3
  <2> QED
    BY <1>1, <1>2, <2>1, <2>2, <2>3
<1> QED
  BY <1>7, <1>8, <1>9, <1>10 DEF TokenInv, OrderedOnce

\* Every step keeps the token invariant.
LEMMA TokenStep ==
  ASSUME TypeOK, WorkInv, TokenInv, [Next]_vars
  PROVE  TokenInv'
<1>1. CASE UNCHANGED <<now, store, void, orders, hand, pc>>
  BY <1>1 DEF TokenInv, StoreInv, HandInv, VoidTokensOrderNothing, OrderedOnce, Used, Pending
<1>2. CASE Poll
  BY <1>2 DEF Poll, TokenInv, StoreInv, HandInv, VoidTokensOrderNothing, OrderedOnce, Used
<1>3. CASE \E k \in DOMAIN IssueSide : Propose(k)
  BY <1>3, ProposeKeepsTokens
<1>4. CASE Cancel
  BY <1>4, CancelKeepsTokens
<1>5. CASE \E k \in DOMAIN ConfirmSide : Confirm(k)
  BY <1>5, ConfirmKeepsTokens
<1>6. CASE \E s \in Symbols : Accepted(s)
  BY <1>6, AcceptedKeepsTokens
<1>7. ASSUME NEW s \in Symbols, Refused(s) PROVE TokenInv'
  <2>1. hand'.token = hand.token /\ hand'.todo \subseteq hand.todo
    BY <1>7 DEF Refused, TypeOK
  <2>2. pc' = pc /\ now' = now /\ store' = store /\ void' = void /\ orders' = orders
    BY <1>7 DEF Refused, polling
  <2> QED
    BY <2>1, <2>2
    DEF TokenInv, StoreInv, HandInv, VoidTokensOrderNothing, OrderedOnce, Used, Pending
<1>8. CASE AnswerOk \/ AnswerLost
  <2>1. /\ pc = "answer" /\ pc' = "place" /\ now' = now /\ store' = store
        /\ void' = void /\ orders' = orders
        /\ hand' = [hand EXCEPT !.todo = hand.todo \ {Ordered}]
    BY <1>8 DEF AnswerOk, AnswerLost, NextOrder
  <2>2. hand'.token = hand.token /\ hand'.todo = hand.todo \ {Ordered}
    BY <2>1 DEF TypeOK
  <2>3. \A i \in DOMAIN orders :
          ~(orders[i].token = hand.token /\ orders[i].symbol \in hand'.todo)
    BY <2>1, <2>2 DEF TokenInv, HandInv, Ordered
  <2>4. HandInv'
    BY <2>1, <2>2, <2>3 DEF TokenInv, HandInv, Pending
  <2> QED
    BY <2>1, <2>4 DEF TokenInv, StoreInv, VoidTokensOrderNothing, OrderedOnce, Used
<1>9. CASE Placed
  <2>1. /\ pc' \notin {"place", "answer"} /\ now' = now /\ store' = store
        /\ void' = void /\ orders' = orders
    BY <1>9 DEF Placed, Handled
  <2> QED
    BY <2>1 DEF TokenInv, StoreInv, HandInv, VoidTokensOrderNothing, OrderedOnce, Used
<1>10. CASE Crash
  <2>1. /\ pc' = "poll" /\ orders' = orders /\ void' = void \cup Pending
        /\ \A c \in Chats : store'[c] = None
    BY <1>10 DEF Crash
  <2>2. VoidTokensOrderNothing'
    BY <2>1 DEF TokenInv, StoreInv, VoidTokensOrderNothing, Used, Pending
  <2> QED
    BY <2>1, <2>2 DEF TokenInv, StoreInv, HandInv, OrderedOnce
<1>11. CASE Tick
  <2> DEFINE late == {c \in Chats : store[c] # None /\ now' > store[c].expires}
  <2>1. /\ now' = now + 1 /\ void' = void \cup {store[c].token : c \in late}
        /\ store' = store /\ orders' = orders /\ hand' = hand /\ pc' = pc
    BY <1>11 DEF Tick, polling
  <2>2. VoidTokensOrderNothing'
    BY <2>1 DEF TokenInv, StoreInv, VoidTokensOrderNothing, Used
  <2>3. HandInv'
    BY <2>1 DEF TokenInv, HandInv, Pending
  <2>4. ASSUME NEW c \in Chats, store[c] # None, store[c].token \in void'
        PROVE  now' > store[c].expires
    <3>1. CASE store[c].token \in void
      <4>1. now \in Nat /\ store[c].expires \in Nat /\ now > store[c].expires
        BY <2>4, <3>1, BoundAssumption DEF TokenInv, StoreInv, TypeOK
      <4> QED
        BY <2>1, <4>1
    <3>2. CASE \E d \in late : store[d].token = store[c].token
      BY <2>4, <3>2 DEF TokenInv, StoreInv
    <3> QED
      BY <2>1, <2>4, <3>1, <3>2
  <2>5. StoreInv'
    BY <2>1, <2>4 DEF TokenInv, StoreInv, Used
  <2> QED
    BY <2>1, <2>2, <2>3, <2>5 DEF TokenInv, OrderedOnce
<1>12. CASE PollFails \/ (\E c \in Chats : Type(c)) \/ UNCHANGED vars
  BY <1>1, <1>12 DEF PollFails, Type, vars, polling
<1> QED
  BY <1>2, <1>3, <1>4, <1>5, <1>6, <1>7, <1>8, <1>9, <1>10, <1>11, <1>12 DEF Next, Bot

\* The token invariant holds in every state.
LEMMA TokensHold == Spec => []TokenInv
<1>1. Init => TypeOK /\ WorkInv /\ TokenInv
  <2>1. Init => TokenInv
    BY EmptySeq DEF Init, TokenInv, StoreInv, HandInv, VoidTokensOrderNothing, OrderedOnce
  <2> QED
    BY <2>1, TtlAssumption, BoundAssumption, EmptySeq
    DEF Init, TypeOK, WorkInv, Nothing, Sides, Tokens
<1>2. TypeOK /\ WorkInv /\ TokenInv /\ [Next]_vars => TypeOK' /\ WorkInv' /\ TokenInv'
  BY TypeStep, TokenStep
<1> QED
  BY <1>1, <1>2, PTL DEF Spec

\* No order that was shown is accepted twice, however often its confirmation is
\* typed by the users or delivered by Telegram.
THEOREM NoDoubleOrder == Spec => []OrderedOnce
BY TokensHold, PTL DEF TokenInv

\* A token that was cancelled, replaced, left to expire or lost in a restart
\* never brings an order about.
THEOREM VoidTokensAreDead == Spec => []VoidTokensOrderNothing
BY TokensHold, PTL DEF TokenInv

(***************************************************************************)
(* The ledger                                                              *)
(***************************************************************************)

\* An order of the broker that sells s, in part or in full.
SoldBy(i, s, partial) ==
  /\ orders[i].side = "sell" /\ orders[i].symbol = s
  /\ s \in issued[orders[i].token].partials <=> partial

\* What the handler knows of its batch is what was issued, and the answer it
\* waits for is that to an order of the batch.
BatchInv ==
  /\ pc \in {"place", "answer"} => hand.partials = issued[hand.token].partials
  /\ pc = "answer" => /\ orders[Len(orders)].token = hand.token
                      /\ orders[Len(orders)].side = hand.side

\* Orders and batches are never taken back, so a sale remains a sale.
LEMMA SalesLast ==
  ASSUME TypeOK, DOMAIN orders \subseteq DOMAIN orders',
         \A i \in DOMAIN orders : orders'[i] = orders[i],
         \A t \in Tokens : issued'[t] = issued[t],
         NEW s \in Symbols, NEW partial \in BOOLEAN,
         NEW i \in DOMAIN orders, SoldBy(i, s, partial)
  PROVE  i \in DOMAIN orders' /\ SoldBy(i, s, partial)'
<1>1. orders[i].token \in Tokens
  BY TokensAreIssued DEF Used
<1> QED
  BY <1>1 DEF SoldBy

\* Every step keeps the orders and the batches there are.
LEMMA HistoryStep ==
  ASSUME TypeOK, WorkInv, [Next]_vars
  PROVE  /\ DOMAIN orders \subseteq DOMAIN orders'
         /\ \A i \in DOMAIN orders : orders'[i] = orders[i]
         /\ \A t \in Tokens : issued'[t] = issued[t]
<1>1. CASE UNCHANGED <<orders, issued>>
  BY <1>1
<1>2. CASE \E s \in Symbols : Accepted(s)
  <2>1. PICK s \in Symbols : Accepted(s)
    BY <1>2
  <2>2. /\ TypeOK' /\ Len(orders) \in Nat /\ Len(orders') = Len(orders) + 1
        /\ \A i \in 1..Len(orders) : orders'[i] = orders[i]
    BY <2>1, AcceptedKeepsTypes
  <2>3. DOMAIN orders = 1..Len(orders) /\ DOMAIN orders' = 1..Len(orders')
    BY <2>2, LenProperties DEF TypeOK
  <2>4. issued' = issued
    BY <2>1 DEF Accepted
  <2> QED
    BY <2>2, <2>3, <2>4
<1>3. ASSUME NEW c, NEW b, IssueBatch(c, b), orders' = orders
      PROVE  \A t \in Tokens : issued'[t] = issued[t]
  <2>1. issued \in Seq(Batch) /\ Len(issued) \in Nat
    BY LenProperties DEF TypeOK, Batch
  <2>2. \A t \in 1..Len(issued) : Append(issued, b)[t] = issued[t]
    BY <2>1
  <2> QED
    BY <1>3, <2>2 DEF IssueBatch, Tokens
<1>4. CASE \E k \in DOMAIN IssueSide : Propose(k)
  <2>1. orders' = orders
    BY <1>4 DEF Propose
  <2>2. issued' = issued \/ (\E c, b : IssueBatch(c, b))
    BY <1>4 DEF Propose
  <2> QED
    BY <1>3, <2>1, <2>2
<1>5. CASE Poll \/ Cancel \/ (\E k \in DOMAIN ConfirmSide : Confirm(k))
           \/ (\E s \in Symbols : Refused(s)) \/ AnswerOk \/ Placed
  BY <1>1, <1>5 DEF Poll, Cancel, Confirm, Refused, AnswerOk, NextOrder, Placed
<1>6. CASE PollFails \/ AnswerLost \/ Crash \/ Tick \/ (\E c \in Chats : Type(c))
           \/ UNCHANGED vars
  BY <1>1, <1>6 DEF PollFails, AnswerLost, NextOrder, Crash, Tick, Type, vars
<1> QED
  BY <1>2, <1>4, <1>5, <1>6 DEF Next, Bot

\* Every step keeps what the handler knows of its batch.
LEMMA BatchStep ==
  ASSUME TypeOK, WorkInv, BatchInv, [Next]_vars
  PROVE  BatchInv'
<1>1. CASE UNCHANGED <<orders, issued, hand, pc>>
  BY <1>1 DEF BatchInv
<1>2. CASE pc' \notin {"place", "answer"}
  BY <1>2 DEF BatchInv
<1>3. ASSUME NEW k \in DOMAIN ConfirmSide, Confirm(k), pc' = "place" PROVE BatchInv'
  <2>1. issued' = issued /\ pc = "dispatch"
    BY <1>3 DEF Confirm, Dispatch
  <2>2. ~Handled
    BY <1>3 DEF Handled
  <2>3. hand'.token = store[Chat].token
        /\ hand'.partials = issued[store[Chat].token].partials
    BY <1>3, <2>2 DEF Confirm, Matches
  <2> QED
    BY <1>3, <2>1, <2>3 DEF BatchInv
<1>4. ASSUME NEW s \in Symbols, Refused(s) PROVE BatchInv'
  BY <1>4 DEF Refused, BatchInv, TypeOK, polling
<1>5. ASSUME NEW s \in Symbols, Accepted(s) PROVE BatchInv'
  <2> DEFINE o == [token |-> hand.token, symbol |-> s, side |-> hand.side]
  <2>1. orders \in Seq(Order) /\ o \in Order /\ orders' = Append(orders, o)
    BY <1>5 DEF TypeOK, WorkInv, Accepted, Order, Placing
  <2>2. orders'[Len(orders')] = o
    <3> HIDE DEF o
    <3> QED
      BY <2>1, AppendProperties, LenProperties
  <2>3. orders'[Len(orders')].token = hand.token /\ orders'[Len(orders')].side = hand.side
    BY <2>2
  <2> QED
    BY <1>5, <2>3 DEF Accepted, BatchInv
<1>6. CASE AnswerOk \/ AnswerLost
  <2>1. pc = "answer" /\ pc' = "place" /\ issued' = issued
        /\ hand' = [hand EXCEPT !.todo = hand.todo \ {Ordered}]
    BY <1>6 DEF AnswerOk, AnswerLost, NextOrder
  <2>2. hand'.token = hand.token /\ hand'.partials = hand.partials
    BY <2>1 DEF TypeOK
  <2> QED
    BY <2>1, <2>2 DEF BatchInv
<1>7. CASE Poll \/ (\E k \in DOMAIN IssueSide : Propose(k)) \/ Cancel \/ Placed \/ Crash
  BY <1>2, <1>7 DEF Poll, Propose, Cancel, Placed, Crash, Handled
<1>8. CASE PollFails \/ Tick \/ (\E c \in Chats : Type(c)) \/ UNCHANGED vars
  BY <1>1, <1>8 DEF PollFails, Tick, Type, vars, polling
<1>9. ASSUME NEW k \in DOMAIN ConfirmSide, Confirm(k) PROVE BatchInv'
  BY <1>2, <1>3, <1>9 DEF Confirm, Handled
<1> QED
  BY <1>4, <1>5, <1>6, <1>7, <1>8, <1>9 DEF Next, Bot

\* Only the answer to a sale touches the ledger.
LEMMA LedgerStep ==
  ASSUME TypeOK, [Next]_vars
  PROVE  AnswerOk \/ UNCHANGED files
<1>1. CASE \E k \in DOMAIN IssueSide : Propose(k)
  BY <1>1 DEF Propose
<1>2. CASE \E k \in DOMAIN ConfirmSide : Confirm(k)
  BY <1>2 DEF Confirm
<1>3. CASE Poll \/ Cancel \/ (\E s \in Symbols : Refused(s) \/ Accepted(s)) \/ AnswerOk \/ Placed
  BY <1>3 DEF Poll, Cancel, Refused, Accepted, Placed
<1>4. CASE PollFails \/ AnswerLost \/ Crash \/ Tick \/ (\E c \in Chats : Type(c))
           \/ UNCHANGED vars
  BY <1>4 DEF PollFails, AnswerLost, Crash, Tick, Type, vars
<1> QED
  BY <1>1, <1>2, <1>3, <1>4 DEF Next, Bot

\* Every step keeps the entries of what is not sold.
LEMMA UnsoldStep ==
  ASSUME TypeOK, WorkInv, BatchInv, UnsoldKeepsItsEntry, [Next]_vars
  PROVE  UnsoldKeepsItsEntry'
<1> SUFFICES ASSUME NEW s \in Symbols, NEW partial \in BOOLEAN,
                    IF partial THEN s \in flagged' ELSE s \notin ledger'
             PROVE  \E i \in DOMAIN orders' : SoldBy(i, s, partial)'
  BY DEF UnsoldKeepsItsEntry, SoldBy
<1>1. CASE IF partial THEN s \in flagged ELSE s \notin ledger
  <2>1. PICK i \in DOMAIN orders : SoldBy(i, s, partial)
    BY <1>1 DEF UnsoldKeepsItsEntry, SoldBy
  <2> QED
    BY <2>1, HistoryStep, SalesLast
<1>2. CASE ~(IF partial THEN s \in flagged ELSE s \notin ledger)
  <2>1. AnswerOk
    BY <1>2, LedgerStep DEF files
  <2>2. /\ pc = "answer" /\ orders' = orders /\ issued' = issued
        /\ hand.side # "buy" /\ s = Ordered /\ (Ordered \in hand.partials <=> partial)
    BY <1>2, <2>1 DEF AnswerOk, NextOrder, files
  <2>3. Len(orders) \in DOMAIN orders
    BY <2>2, LenProperties, EmptySeq DEF TypeOK, WorkInv
  <2>4. SoldBy(Len(orders), s, partial)
    BY <2>2 DEF BatchInv, SoldBy, Ordered, TypeOK, Sides
  <2>5. SoldBy(Len(orders), s, partial)'
    BY <2>2, <2>4 DEF SoldBy
  <2> QED
    BY <2>2, <2>3, <2>5 DEF SoldBy
<1> QED
  BY <1>1, <1>2

\* No symbol leaves the ledger, or is flagged as sold in part, before the broker
\* has accepted an order that sells it so.
THEOREM LedgerFollowsSales == Spec => []UnsoldKeepsItsEntry
<1>1. Init => TypeOK /\ WorkInv /\ BatchInv /\ UnsoldKeepsItsEntry
  BY TtlAssumption, BoundAssumption, EmptySeq
  DEF Init, TypeOK, WorkInv, BatchInv, UnsoldKeepsItsEntry, Nothing, Sides, Tokens
<1>2. TypeOK /\ WorkInv /\ BatchInv /\ UnsoldKeepsItsEntry /\ [Next]_vars
      => TypeOK' /\ WorkInv' /\ BatchInv' /\ UnsoldKeepsItsEntry'
  BY TypeStep, BatchStep, UnsoldStep
<1> QED
  BY <1>1, <1>2, PTL DEF Spec

=============================================================================
