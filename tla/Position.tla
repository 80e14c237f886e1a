------------------------------ MODULE Position ------------------------------
(***************************************************************************)
(* What _evaluate_and_sell of scripts/intraday_buy_daemon.py promises      *)
(* about the positions of ai_swing, whatever fails on the way.             *)
(*                                                                         *)
(* The account changes only by fills.  A sell goes out only for shares     *)
(* that are there, one at a time, and only once everything sold before is  *)
(* in the books.  The books come down to what the account holds and never  *)
(* below.  A position is given up only when it is sold out and booked.     *)
(***************************************************************************)
EXTENDS Integers

CONSTANTS
  Symbols,
  MaxLot      \* largest position, in shares

VARIABLES
  shares,     \* [Symbols -> Nat] shares in the account
  selling,    \* [Symbols -> Nat] what the working sell still asks for, 0: none
  books,      \* [Symbols -> Nat] confirmed buys less confirmed sells
  confirmed,  \* [Symbols -> BOOLEAN] the buy is in the books
  tracked     \* the symbols with a ledger entry

Init ==
  /\ shares \in [Symbols -> 0..MaxLot]
  /\ selling = [s \in Symbols |-> 0]
  /\ confirmed \in [Symbols -> BOOLEAN]
  /\ books = [s \in Symbols |-> IF confirmed[s] THEN shares[s] ELSE 0]
  /\ tracked = Symbols

\* A buy is filled, at once or in parts, before it is confirmed.
Bought(s, q) ==
  /\ s \in tracked /\ ~confirmed[s]
  /\ shares' = [shares EXCEPT ![s] = @ + q]
  /\ UNCHANGED <<selling, books, confirmed, tracked>>

\* Buys enter the books with what the account holds.
Confirm(buys) ==
  /\ \A s \in buys : ~confirmed[s]
  /\ confirmed' = [s \in Symbols |-> confirmed[s] \/ s \in buys]
  /\ books' = [s \in Symbols |-> IF s \in buys THEN shares[s] ELSE books[s]]
  /\ UNCHANGED <<shares, selling, tracked>>

\* A sell goes out when none works and nothing sold is missing in the books.
Order(s, q) ==
  /\ s \in tracked /\ confirmed[s]
  /\ selling[s] = 0 /\ books[s] = shares[s]
  /\ q <= shares[s]
  /\ selling' = [selling EXCEPT ![s] = q]
  /\ UNCHANGED <<shares, books, confirmed, tracked>>

Sold(s, q) ==
  /\ q <= selling[s]
  /\ selling' = [selling EXCEPT ![s] = @ - q]
  /\ shares' = [shares EXCEPT ![s] = @ - q]
  /\ UNCHANGED <<books, confirmed, tracked>>

\* What is left of a sell is cancelled.
Cancelled(s) ==
  /\ selling' = [selling EXCEPT ![s] = 0]
  /\ UNCHANGED <<shares, books, confirmed, tracked>>

\* Sales enter the books once nothing of them works any more.
Book(sales) ==
  /\ \A s \in sales : confirmed[s] /\ selling[s] = 0
  /\ books' = [s \in Symbols |-> IF s \in sales THEN shares[s] ELSE books[s]]
  /\ UNCHANGED <<shares, selling, confirmed, tracked>>

GiveUp(out) ==
  /\ \A s \in out : shares[s] = 0 /\ selling[s] = 0 /\ books[s] = 0
  /\ tracked' = tracked \ out
  /\ UNCHANGED <<shares, selling, books, confirmed>>

Next ==
  \/ \E s \in Symbols, q \in 1..MaxLot : Bought(s, q) \/ Order(s, q) \/ Sold(s, q)
  \/ \E s \in Symbols : Cancelled(s)
  \/ \E S \in SUBSET Symbols : Confirm(S) \/ Book(S) \/ GiveUp(S)

Spec == Init /\ [][Next]_<<shares, selling, books, confirmed, tracked>>

=============================================================================
