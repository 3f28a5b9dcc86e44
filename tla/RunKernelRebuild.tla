-------------------------- MODULE RunKernelRebuild --------------------------
(***************************************************************************)
(* rebuildProjections while commands run: one BEGIN IMMEDIATE transaction  *)
(* deletes a project's projections and applies its journal again.          *)
(***************************************************************************)
EXTENDS RunKernel

\* DELETE FROM run_projections WHERE project_id = ?
Cleared(pr) == [r \in Run |-> IF ProjectOf[r] = pr THEN NoProjection ELSE proj[r]]

\* Mutant: listEvents returns the rows after the first.
ReplayedAfterFirst(pr) ==
    LET view[n \in 0..Len(journal[pr])] ==
            IF n = 0 THEN [ok |-> TRUE, rows |-> Cleared(pr)]
            ELSE LET prev == view[n - 1]  e == journal[pr][n] IN
                 IF n = 1 \/ ~prev.ok THEN prev
                 ELSE IF Applies(prev.rows, e)
                 THEN [ok |-> TRUE, rows |-> Projected(prev.rows, e, n)]
                 ELSE [ok |-> FALSE, rows |-> prev.rows]
    IN view[Len(journal[pr])]

\* The journal applied in sequence order on top of that; ok is FALSE from the
\* first event applyEventToProjection refuses.
Replayed(pr) ==
    LET view[n \in 0..Len(journal[pr])] ==
            IF n = 0 THEN [ok |-> TRUE, rows |-> Cleared(pr)]
            ELSE LET prev == view[n - 1]  e == journal[pr][n] IN
                 IF prev.ok /\ Applies(prev.rows, e)
                 THEN [ok |-> TRUE, rows |-> Projected(prev.rows, e, n)]
                 ELSE [ok |-> FALSE, rows |-> prev.rows]
    IN view[Len(journal[pr])]

\* A refused event rolls the whole rebuild back.
Rebuild(pr) ==
    /\ proj' = IF Replayed(pr).ok THEN Replayed(pr).rows ELSE proj
    /\ UNCHANGED <<journal, pending, procVars>>

RebuildNext == Next \/ \E pr \in Project : Rebuild(pr)

RebuildSpec == Init /\ [][RebuildNext]_vars

-----------------------------------------------------------------------------
\* The whole journal can be replayed, and doing so at any moment reproduces the
\* projections the live appends left, versions and sequences included.
ReplayReproduces ==
    \A pr \in Project : Replayed(pr) = [ok |-> TRUE, rows |-> proj]
=============================================================================
