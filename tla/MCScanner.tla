----------------------------- MODULE MCScanner -----------------------------
(* An instance of Scanner for TLC. *)
EXTENDS Scanner

\* A scan that waits for its permits, then one that comes beside it after a stop.
FewTargets == <<{2}, {0, 1}>>
=============================================================================
