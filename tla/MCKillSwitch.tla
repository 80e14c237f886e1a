---------------------------- MODULE MCKillSwitch ----------------------------
(* A small instance of KillSwitch: a window of two ticks, a cooldown longer  *)
(* than the window, an outage limit between the two.                         *)
EXTENDS KillSwitch

MCBalances == {0, 97, 98, 100}
=============================================================================
