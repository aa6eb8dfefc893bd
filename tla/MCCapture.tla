----------------------------- MODULE MCCapture -----------------------------
(* Model checking of Capture.  The pushers are interchangeable. *)
EXTENDS Capture, TLC

Symmetry == Permutations(Pushers)
=============================================================================
