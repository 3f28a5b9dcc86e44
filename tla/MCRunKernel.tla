----------------------------- MODULE MCRunKernel -----------------------------
(* Instances of RunKernel for TLC. *)
EXTENDS RunKernel, TLC

CONSTANTS p1, p2, r1, r2, k1, A, B

OneProc == {p1}
TwoProcs == {p1, p2}
TwoRuns == {r1, r2}
OneKey == {k1}
NoKeys == {}
OneProject == {A}
TwoProjects == {A, B}

\* Both runs in one project; one run in each of two.
Together == [r \in Run |-> A]
Apart == [r \in Run |-> IF r = r1 THEN A ELSE B]

\* A first step of the table, and a last one.
StartAndFail == {"running", "failed"}
NoTargets == {}

Interchangeable == Permutations(TwoProcs) \cup Permutations(TwoRuns)

=============================================================================
