----------------------------- MODULE MCIngester -----------------------------
(* Instances of Ingester for TLC: configurations only name the actions.    *)
EXTENDS Ingester
=============================================================================
