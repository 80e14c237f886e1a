-------------------------- MODULE MCPositionStore ---------------------------
(* Small instances of PositionStore: which processes run together, and which  *)
(* failures they may meet.                                                    *)
EXTENDS PositionStore, FiniteSets

CONSTANTS daemon, bot, api

Lone == {daemon}
Pair == {daemon, bot}

\* Alone, the daemon meets everything but a failing backup and a failing
\* recovery; beside others the file is never damaged and always readable.
Ordinary ==
  [g \in Settings |-> IF g = Lone THEN {"damage", "read", "write", "crash"}
                     ELSE {"backup", "write", "crash"}]
Bounds == [g \in Settings |-> IF g = Lone THEN 3 ELSE IF g = Pair THEN 1 ELSE 2]

\* A reader recovers a damaged file beside the daemon.
Damaged == [g \in Settings |-> {"damage"}]
Once == [g \in Settings |-> 1]

=============================================================================
