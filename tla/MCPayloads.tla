----------------------------- MODULE MCPayloads -----------------------------
(* An instance of Payloads for TLC. *)
EXTENDS Payloads

\* The request that the attacks are made from: every marker, and text between them.
OneTemplate ==
    LET l == CHOOSE t \in Literals : TRUE
    IN  FlattenSeq([n \in 1..Cardinality(Names) |-> <<SetToSeq(Names)[n], l>>])
=============================================================================
