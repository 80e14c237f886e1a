---------------------------- MODULE MCSellCycle -----------------------------
(* Small instances of SellCycle.  Grace is exactly the listing delay plus    *)
(* the reading span, the tightest the assumption allows.                     *)
EXTENDS SellCycle, TLC
=============================================================================
