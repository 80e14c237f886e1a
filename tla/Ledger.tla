------------------------------- MODULE Ledger -------------------------------
(***************************************************************************)
(* What backend/core/journal/active_positions.py promises to the trading   *)
(* code: a map from symbols to position entries that changes one entry at  *)
(* a time, and that damage to its file sets back by one save at most.      *)
(***************************************************************************)

CONSTANTS
  Symbols,
  Entries,   \* what an entry may hold
  NoEntry    \* the symbol has no entry

VARIABLES
  ledger,    \* the entries a reader sees
  previous   \* the latest map that had entries and was replaced by a save

Empty == [s \in Symbols |-> NoEntry]
Maps == [Symbols -> Entries \cup {NoEntry}]

Init == ledger = Empty /\ previous = Empty

\* upsert writes an entry, remove writes NoEntry.
Save(s, entry) ==
  /\ ledger' = [ledger EXCEPT ![s] = entry]
  /\ previous' = IF ledger = Empty THEN previous ELSE ledger

\* Damage is repaired from a backup.
SetBack == ledger' = previous /\ UNCHANGED previous

Next ==
  \/ \E s \in Symbols, entry \in Entries \cup {NoEntry} : Save(s, entry)
  \/ SetBack

Spec == Init /\ [][Next]_<<ledger, previous>>

=============================================================================
