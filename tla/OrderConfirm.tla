---------------------------- MODULE OrderConfirm ----------------------------
(***************************************************************************)
(* The Telegram bot's two-step orders: the polling loop of                 *)
(* backend/core/notify/telegram_bot.py, the token store of                 *)
(* backend/core/notify/order_confirm.py and the handlers of                *)
(* scripts/run_telegram_bot.py.                                            *)
(*                                                                         *)
(* /sim_execute and /sell_execute show a batch of orders and a token,      *)
(* /confirm and /confirm_sell place the batch the token names, /cancel     *)
(* drops it.  Telegram delivers a command again until the bot has asked    *)
(* for later ones; the store lives in the memory of the bot, which handles *)
(* one command at a time.                                                  *)
(*                                                                         *)
(* A token is the number of its batch: the code draws it at random.  The   *)
(* order of the updates that one request returns is theirs, without a      *)
(* limit on their number.  LIVE_TRADING_ENABLED is set.                    *)
(***************************************************************************)
EXTENDS Naturals, Sequences

CONSTANTS
  Chats,       \* the whitelist
  Symbols,
  None,        \* no batch
  Ttl,         \* ttl_seconds
  MaxTime,     \* bound on the clock
  MaxSent,     \* bound on commands
  MaxFaults    \* bound on failures

ASSUME TtlAssumption == Ttl \in Nat
ASSUME BoundAssumption == MaxTime \in Nat /\ MaxSent \in Nat /\ MaxFaults \in Nat

VARIABLES
  now,
  faults,
  \* Telegram
  sent,     \* the commands, in the order of their update_id
  acked,    \* the commands up to this one are never delivered again
  \* the bot's memory
  offset,   \* the last command the bot has taken
  at,       \* the command being handled
  upto,     \* the last command of those fetched
  pc,
  store,    \* [Chats -> pending token and its expiry, or None]
  hand,     \* what the handler is placing
  \* the ledger file
  ledger,   \* symbols with an entry
  flagged,  \* symbols whose entry has partial_tp_done
  \* history
  issued,   \* the batches shown; a token is an index of it
  void,     \* tokens cancelled, replaced, expired or lost before any use
  handled,  \* commands whose handler has ended
  orders    \* orders the broker accepted, with the token that asked for them

telegram == <<sent, acked>>
polling == <<offset, at, upto, pc>>
files == <<ledger, flagged>>
vars == <<now, faults, telegram, polling, store, hand, files, issued, void,
          handled, orders>>

Sides == {"buy", "sell"}
IssueSide == [sim_execute |-> "buy", sell_execute |-> "sell"]
ConfirmSide == [confirm |-> "buy", confirm_sell |-> "sell"]
Tokens == 1..Len(issued)

Larger(i, j) == IF i > j THEN i ELSE j
Fail == faults < MaxFaults /\ faults' = faults + 1

Chat == sent[at].chat
Nothing == [token |-> 0, side |-> "buy", todo |-> {}, partials |-> {}]

(***************************************************************************)
(* The clock and the user                                                  *)
(***************************************************************************)

\* Tokens a chat may still use.
Pending == {store[c].token : c \in {d \in Chats : store[d] # None}}

Tick ==
  /\ now < MaxTime
  /\ now' = now + 1
  /\ void' = void \cup {store[c].token : c \in {d \in Chats : store[d] # None /\ now' > store[d].expires}}
  /\ UNCHANGED <<faults, telegram, polling, store, hand, files, issued, handled, orders>>

\* A user types a command, with any token that was ever shown.
Type(c) ==
  /\ Len(sent) < MaxSent
  /\ \/ \E k \in DOMAIN IssueSide \cup {"cancel"} :
          sent' = Append(sent, [chat |-> c, cmd |-> k, token |-> 0])
     \/ \E k \in DOMAIN ConfirmSide, t \in Tokens :
          sent' = Append(sent, [chat |-> c, cmd |-> k, token |-> t])
  /\ UNCHANGED <<now, faults, acked, polling, store, hand, files, issued, void,
                 handled, orders>>

(***************************************************************************)
(* The polling loop                                                        *)
(***************************************************************************)

\* Faulty variant: the request asks for what follows the commands it returns.
PollAhead ==
  /\ pc = "poll" /\ Len(sent) > Larger(acked, offset)
  /\ acked' = Len(sent) /\ at' = Larger(acked, offset) + 1 /\ upto' = Len(sent)
  /\ pc' = "dispatch"
  /\ UNCHANGED <<now, faults, sent, offset, store, hand, files, issued, void,
                 handled, orders>>

\* get_updates: the offset tells Telegram what need not be delivered again.
Poll ==
  /\ pc = "poll" /\ Len(sent) > Larger(acked, offset)
  /\ acked' = Larger(acked, offset)
  /\ at' = acked' + 1 /\ upto' = Len(sent)
  /\ pc' = "dispatch"
  /\ UNCHANGED <<now, faults, sent, offset, store, hand, files, issued, void,
                 handled, orders>>

\* The answer is lost, after Telegram has read the offset.
PollFails ==
  /\ pc = "poll" /\ acked < offset /\ Fail
  /\ acked' = offset
  /\ UNCHANGED <<now, sent, polling, store, hand, files, issued, void, handled,
                 orders>>

\* The handler has ended; poll_once goes on to the next update.
Handled ==
  /\ handled' = handled \cup {at}
  /\ at' = at + 1
  /\ pc' = IF at = upto THEN "poll" ELSE "dispatch"

\* Faulty variant: the next request skips a command.
DispatchSkips(k) ==
  /\ pc = "dispatch" /\ sent[at].cmd = k
  /\ offset' = Larger(offset, at + 1)
  /\ UNCHANGED upto

\* The loop body of poll_once: the offset moves before the handler runs.
Dispatch(k) ==
  /\ pc = "dispatch" /\ sent[at].cmd = k
  /\ offset' = Larger(offset, at)
  /\ UNCHANGED upto

(***************************************************************************)
(* The handlers                                                            *)
(***************************************************************************)

\* OrderConfirmStore.issue: the batch replaces the chat's earlier one.
IssueBatch(c, b) ==
  /\ issued' = Append(issued, b)
  /\ store' = [store EXCEPT ![c] = [token |-> Len(issued) + 1, expires |-> now + Ttl]]
  /\ void' = IF store[c] = None THEN void ELSE void \cup {store[c].token}

\* _cmd_sim_execute, _cmd_sell_execute: no batch when there is nothing to
\* propose or a request fails.
Propose(k) ==
  /\ Dispatch(k)
  /\ \/ UNCHANGED <<issued, store, void>>
     \/ \E s \in (SUBSET Symbols) \ {{}} :
        \E p \in IF IssueSide[k] = "sell" THEN SUBSET s ELSE {{}} :
          IssueBatch(Chat, [side |-> IssueSide[k], symbols |-> s, partials |-> p])
  /\ Handled
  /\ UNCHANGED <<now, faults, telegram, hand, files, orders>>

Cancel ==
  /\ Dispatch("cancel")
  /\ store' = [store EXCEPT ![Chat] = None]
  /\ void' = IF store[Chat] = None THEN void ELSE void \cup {store[Chat].token}
  /\ Handled
  /\ UNCHANGED <<now, faults, telegram, hand, files, issued, orders>>

\* Faulty variant: the token is not compared.
MatchesAny(c, t) == store[c] # None /\ now <= store[c].expires

\* OrderConfirmStore.consume returns the batch.
Matches(c, t) == store[c] # None /\ store[c].token = t /\ now <= store[c].expires

\* Faulty variant: the batch stays in the store until it is replaced.
Kept(c, t) == IF store[c] # None /\ store[c].token = t /\ now > store[c].expires
              THEN [store EXCEPT ![c] = None]
              ELSE store

\* The store after consume: an expired batch is dropped like a used one.
Consumed(c, t) == IF store[c] # None /\ store[c].token = t
                  THEN [store EXCEPT ![c] = None]
                  ELSE store

\* _cmd_confirm, _cmd_confirm_sell: only the second asks for the side of the
\* batch, after it has consumed the token.
Confirm(k) ==
  /\ Dispatch(k)
  /\ store' = Consumed(Chat, sent[at].token)
  /\ LET b == issued[store[Chat].token]
     IN  IF Matches(Chat, sent[at].token) /\ (k = "confirm" \/ b.side = "sell")
         THEN /\ hand' = [token |-> sent[at].token, side |-> ConfirmSide[k],
                          todo |-> b.symbols, partials |-> b.partials]
              /\ pc' = "place"
              /\ UNCHANGED <<at, handled>>
         ELSE Handled /\ UNCHANGED hand
  /\ UNCHANGED <<now, faults, telegram, files, issued, void, orders>>

\* The gate or the broker refuses the order, or it never gets there.
Refused(s) ==
  /\ pc = "place" /\ s \in hand.todo
  /\ hand' = [hand EXCEPT !.todo = @ \ {s}]
  /\ UNCHANGED <<now, faults, telegram, polling, store, files, issued, void,
                 handled, orders>>

Accepted(s) ==
  /\ pc = "place" /\ s \in hand.todo
  /\ orders' = Append(orders, [token |-> hand.token, symbol |-> s, side |-> hand.side])
  /\ pc' = "answer"
  /\ UNCHANGED <<now, faults, telegram, offset, at, upto, store, hand, files,
                 issued, void, handled>>

Ordered == orders[Len(orders)].symbol

\* The order leaves the batch, whatever became of it.
NextOrder ==
  /\ hand' = [hand EXCEPT !.todo = @ \ {Ordered}]
  /\ pc' = "place"
  /\ UNCHANGED <<now, telegram, offset, at, upto, store, issued, void, handled, orders>>

\* A partial sale is noted in the entry, any other removes it.
AnswerOk ==
  /\ pc = "answer"
  /\ NextOrder
  /\ IF hand.side = "buy" THEN UNCHANGED files
     ELSE IF Ordered \in hand.partials
     THEN flagged' = flagged \cup ({Ordered} \cap ledger) /\ UNCHANGED ledger
     ELSE ledger' = ledger \ {Ordered} /\ flagged' = flagged \ {Ordered}
  /\ UNCHANGED faults

\* Faulty variant: a sale in doubt is taken for a sale.
AnswerLostRemoves ==
  /\ pc = "answer" /\ Fail
  /\ NextOrder
  /\ ledger' = ledger \ {Ordered} /\ flagged' = flagged \ {Ordered}

\* The answer is lost, or the ledger cannot be written.
AnswerLost ==
  /\ pc = "answer" /\ Fail
  /\ NextOrder
  /\ UNCHANGED files

Placed ==
  /\ pc = "place" /\ hand.todo = {}
  /\ hand' = Nothing
  /\ Handled
  /\ UNCHANGED <<now, faults, telegram, offset, upto, store, files, issued,
                 void, orders>>

\* The bot dies; the next one starts with an empty memory.
Crash ==
  /\ Fail
  /\ offset' = 0 /\ at' = 0 /\ upto' = 0 /\ pc' = "poll"
  /\ store' = [c \in Chats |-> None] /\ hand' = Nothing
  /\ void' = void \cup Pending
  /\ UNCHANGED <<now, telegram, files, issued, handled, orders>>

(***************************************************************************)
(* The specification                                                       *)
(***************************************************************************)

Init ==
  /\ now = 0 /\ faults = 0
  /\ sent = <<>> /\ acked = 0
  /\ offset = 0 /\ at = 0 /\ upto = 0 /\ pc = "poll"
  /\ store = [c \in Chats |-> None] /\ hand = Nothing
  /\ ledger = Symbols /\ flagged = {}
  /\ issued = <<>> /\ void = {} /\ handled = {} /\ orders = <<>>

Bot ==
  \/ Poll
  \/ \E k \in DOMAIN IssueSide : Propose(k)
  \/ Cancel
  \/ \E k \in DOMAIN ConfirmSide : Confirm(k)
  \/ \E s \in Symbols : Refused(s) \/ Accepted(s)
  \/ AnswerOk
  \/ Placed

Next == Bot \/ PollFails \/ AnswerLost \/ Crash \/ Tick \/ \E c \in Chats : Type(c)

Spec == Init /\ [][Next]_vars

(***************************************************************************)
(* Properties                                                              *)
(***************************************************************************)

\* The variables have their types.
TypeOK ==
  /\ now \in 0..MaxTime /\ faults \in 0..MaxFaults
  /\ sent \in Seq([chat : Chats,
                   cmd : DOMAIN IssueSide \cup DOMAIN ConfirmSide \cup {"cancel"},
                   token : Nat])
  /\ acked \in 0..Len(sent) /\ offset \in 0..Len(sent)
  /\ at \in 0..Len(sent) + 1 /\ upto \in 0..Len(sent)
  /\ pc \in {"poll", "dispatch", "place", "answer"}
  /\ store \in [Chats -> {None} \cup [token : Tokens, expires : Nat]]
  /\ hand \in [token : 0..Len(issued), side : Sides, todo : SUBSET Symbols,
               partials : SUBSET Symbols]
  /\ ledger \subseteq Symbols /\ flagged \subseteq ledger
  /\ issued \in Seq([side : Sides, symbols : (SUBSET Symbols) \ {{}}, partials : SUBSET Symbols])
  /\ void \subseteq Tokens /\ handled \subseteq DOMAIN sent
  /\ orders \in Seq([token : Tokens, symbol : Symbols, side : Sides])

\* Telegram forgets a command only when its handler has ended: a command that
\* the bot dies on is delivered to the next bot (telegram_bot.py l.103-107).
NoCommandIsLost == 1..acked \subseteq handled

\* Although commands are delivered again after a crash and typed again by
\* users, no order that was shown is accepted twice (order_confirm.py l.64-75).
OrderedOnce ==
  \A i, j \in DOMAIN orders :
    orders[i].token = orders[j].token /\ orders[i].symbol = orders[j].symbol => i = j

\* A token that was cancelled, replaced by a newer one, left to expire or lost
\* with the bot's memory never brings an order about, in whatever order the
\* commands arrive (order_confirm.py l.9-11, 40).
VoidTokensOrderNothing == \A i \in DOMAIN orders : orders[i].token \notin void

\* What the broker buys or sells for a token is what the token was issued for
\* (order_confirm.py l.6-9).
SideAsIssued == \A i \in DOMAIN orders : orders[i].side = issued[orders[i].token].side

\* An entry leaves the ledger, or is flagged, only after the broker accepted
\* the sale that does so (run_telegram_bot.py l.325-335).
UnsoldKeepsItsEntry ==
  \A s \in Symbols :
    LET Sold(partial) == \E i \in DOMAIN orders :
          /\ orders[i].side = "sell" /\ orders[i].symbol = s
          /\ s \in issued[orders[i].token].partials <=> partial
    IN  (s \notin ledger => Sold(FALSE)) /\ (s \in flagged => Sold(TRUE))

=============================================================================
