----------------------------- MODULE MCFileLock -----------------------------
(* Instances of FileLock for TLC: a few interchangeable processes, of which  *)
(* none or some are sweeps that call with timeoutMs = 0.                      *)
EXTENDS FileLock, TLC

CONSTANTS p1, p2, p3

ThreeProcs == {p1, p2, p3}

\* The supervisor's sweep is a try-lock.
OneSweep == {p1}

NoFaults == {}
CrashOnly == {"crash"}
CrashAndRecycle == {"crash", "recycle"}

=============================================================================
