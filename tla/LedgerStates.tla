---------------------------- MODULE LedgerStates ----------------------------
(***************************************************************************)
(* The states of a dispatch ledger row and the transitions markState       *)
(* accepts (run-ledger.ts).                                                *)
(***************************************************************************)

TerminalStates == {"delivered", "withheld", "abandoned"}

ActiveStates == {"dispatched", "running", "verifying", "gated", "failed", "stalled"}

States == ActiveStates \cup TerminalStates

\* LEGAL; no list holds "abandoned", which only abandon() reaches, and no
\* terminal state has a successor.
Legal ==
    [dispatched |-> {"running", "failed", "stalled"},
     running    |-> {"verifying", "gated", "delivered", "withheld", "failed", "stalled"},
     verifying  |-> {"gated", "delivered", "withheld", "failed", "stalled"},
     gated      |-> {"delivered", "withheld", "failed", "stalled"},
     failed     |-> {"dispatched", "running", "verifying", "stalled"},
     stalled    |-> {"dispatched", "running", "verifying", "failed"}]

CanTransition(from, to) == from \in ActiveStates /\ to \in Legal[from]
=============================================================================
