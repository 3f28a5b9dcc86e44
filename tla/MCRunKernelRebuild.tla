-------------------------- MODULE MCRunKernelRebuild --------------------------
(* Instances of RunKernelRebuild for TLC. *)
EXTENDS RunKernelRebuild, MCRunKernel
=============================================================================
