------------------------------ MODULE MCWatchdog ------------------------------
(* The Watchdog with the numbers of the code.                              *)
EXTENDS Watchdog
=============================================================================
