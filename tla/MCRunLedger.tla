---------------------------- MODULE MCRunLedger ----------------------------
(* Instances of RunLedger for TLC. *)
EXTENDS RunLedger, TLC

CONSTANTS p1, p2

TwoProcs == {p1, p2}
StallOnly == {"stall"}
Interchangeable == Permutations(TwoProcs)
=============================================================================
