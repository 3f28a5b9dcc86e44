-------------------------- MODULE MCRunKernelOutbox --------------------------
(* Instances of RunKernelOutbox for TLC. *)
EXTENDS RunKernelOutbox, MCRunKernel

AThenB == [pr \in Project |-> IF pr = A THEN 1 ELSE 2]
=============================================================================
