----------------------------- MODULE MCProject -----------------------------
(* Instances of Project for TLC; the pushers are interchangeable. *)
EXTENDS Project, TLC

Symmetry == Permutations(Pushers)
=============================================================================
