--------------------------- MODULE MCTraderCycle ----------------------------
(* Small instances of TraderCycle: two symbols compete for one position       *)
(* where the trader runs inside the daemon, one is enough for the races.      *)
EXTENDS TraderCycle, TLC

CONSTANTS a, b

UniverseBound == [m \in Modes |-> IF m = "inside" THEN {a, b} ELSE {a}]
BuysBound == [m \in Modes |-> CASE m = "chaser" -> 1 [] m = "zone" -> 5 [] OTHER -> 2]
FaultsBound == [m \in Modes |-> CASE m = "inside" -> 1 [] m = "zone" -> 1 [] OTHER -> 0]
=============================================================================
