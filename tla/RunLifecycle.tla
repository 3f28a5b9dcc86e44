---------------------------- MODULE RunLifecycle ----------------------------
(***************************************************************************)
(* The canonical lifecycle of a Run, as run-kernel/lifecycle.ts states it, *)
(* and the abstract machine the Run Kernel promises its readers: a Run     *)
(* appears once, in prepared, and then walks the transition table until it *)
(* reaches a terminal state, where it stays.                               *)
(***************************************************************************)

CONSTANT Run    \* the run ids

TerminalStates == {"rolled_back", "completed", "withheld",
                   "delivered_with_reservations", "cancelled", "failed", "abandoned"}

LiveStates == {"prepared", "running", "waiting", "verifying", "revising", "cancelling"}

States == LiveStates \cup TerminalStates

\* TRANSITIONS; a terminal state has no successor.
Successors ==
    [prepared   |-> {"running", "rolled_back"},
     running    |-> {"waiting", "verifying", "cancelling", "failed", "abandoned"},
     waiting    |-> {"running", "cancelling", "failed", "abandoned"},
     verifying  |-> {"revising", "completed", "withheld",
                     "delivered_with_reservations", "failed", "abandoned"},
     revising   |-> {"running", "cancelling", "failed", "abandoned"},
     cancelling |-> {"cancelled", "failed"}]

CanTransition(from, to) == from \in LiveStates /\ to \in Successors[from]

\* A run no store has heard of.
Unknown == "unknown"

VARIABLE state

Init == state = [r \in Run |-> Unknown]

Prepare(r) ==
    /\ state[r] = Unknown
    /\ state' = [state EXCEPT ![r] = "prepared"]

Transition(r, to) ==
    /\ CanTransition(state[r], to)
    /\ state' = [state EXCEPT ![r] = to]

Next == \E r \in Run : Prepare(r) \/ \E to \in States : Transition(r, to)

Spec == Init /\ [][Next]_state
=============================================================================
