----------------------------- MODULE MCIntruder -----------------------------
(* Instances of Intruder for TLC. *)
EXTENDS Intruder
=============================================================================
