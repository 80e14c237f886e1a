----------------------------- MODULE MCBuyScan ------------------------------
(* A small instance of BuyScan.                                              *)
EXTENDS BuyScan
=============================================================================
