----------------------------- MODULE RunLedger -----------------------------
(***************************************************************************)
(* One row of the dispatch ledger (run-ledger.ts) and the processes that   *)
(* write it: the dispatcher, its heartbeat sidecar, a sweep, `nrv revise`, *)
(* run-track.  A mutation reads the row, tests what it read, and updates   *)
(* the row; nothing holds the row in between.  Each SELECT, each UPDATE    *)
(* and the rename of the done-sentinel are one step.  A writer that dies   *)
(* takes no further step.                                                  *)
(*                                                                         *)
(* Of the meta column, a JSON document every writer replaces as a whole,   *)
(* the model keeps the stamps other code decides by.  renewLease and       *)
(* recordSession write columns of their own and are left to the modules    *)
(* that read those.                                                        *)
(***************************************************************************)
EXTENDS Naturals, LedgerStates

CONSTANTS Proc,       \* the processes writing the row
          Stamp,      \* meta keys: "stall", and bookkeeping of the writers
          MaxRetried  \* bound: no incrementRetries starts after so many were made

ASSUME LedgerAssumption == MaxRetried \in Nat

VARIABLES row,       \* the row
          signal,    \* the state in run-signals/<run_id>.json, or "none"
          pc,        \* where each writer is in its call
          op,        \* the call
          read,      \* the row its SELECT returned
          retried    \* how many incrementRetries updates were made

vars == <<row, signal, pc, op, read, retried>>

Row == [state : States, retries : Nat, stamps : SUBSET Stamp]

\* The calls: markState (patch is its metaPatch), patchMeta, incrementRetries,
\* abandon. recordChildPid is a patchMeta of the worker's fingerprint: the child_pid
\* column it sets beside is not kept.
Op == [call : {"markState"}, to : States \ {"abandoned"}, patch : SUBSET Stamp]
      \cup [call : {"patchMeta"}, patch : SUBSET Stamp]
      \cup [call : {"incrementRetries", "abandon", "none"}]

NoOp == [call |-> "none"]

Opened == [state |-> "dispatched", retries |-> 0, stamps |-> {}]

TypeOK ==
    /\ row \in Row
    /\ signal \in States \cup {"none"}
    /\ pc \in [Proc -> {"idle", "update", "reread", "signal"}]
    /\ op \in [Proc -> Op]
    /\ read \in [Proc -> Row]
    /\ retried \in Nat

\* openRun
Init ==
    /\ row = Opened
    /\ signal = "none"
    /\ pc = [p \in Proc |-> "idle"]
    /\ op = [p \in Proc |-> NoOp]
    /\ read = [p \in Proc |-> Opened]
    /\ retried = 0

-----------------------------------------------------------------------------
\* markState's tests: a state of LEGAL reached by a transition of LEGAL.
AcceptsState(from, to) == CanTransition(from, to)

\* The tests a call makes on the row it read; where they fail it throws.
Accepts(o, r) ==
    CASE o.call = "markState" -> AcceptsState(r.state, o.to)
      [] o.call \in {"incrementRetries", "abandon"} -> r.state \notin TerminalStates
      [] o.call = "patchMeta" -> TRUE
      [] OTHER -> FALSE

Select(p, o) ==
    /\ pc[p] = "idle"
    /\ Accepts(o, row)
    /\ o.call = "incrementRetries" => retried < MaxRetried
    /\ pc' = [pc EXCEPT ![p] = "update"]
    /\ op' = [op EXCEPT ![p] = o]
    /\ read' = [read EXCEPT ![p] = row]
    /\ UNCHANGED <<row, signal, retried>>

\* Mutant: the count that was read is written back plus one.
RetriesFromRead(r, now) == r.retries + 1

\* retries = retries + 1, computed by the UPDATE.
RetriesPlusOne(r, now) == now.retries + 1

\* {...row.meta, ...patch}, computed from the row that was read.
Merged(r, patch) == r.stamps \cup patch

\* The row after the call's UPDATE. It names no state it expects; it replaces the
\* columns the call sets and, where meta is one of them, all of meta.
Written(o, r, now) ==
    CASE o.call = "markState" ->
            [now EXCEPT !.state = o.to, !.stamps = Merged(r, o.patch)]
      [] o.call = "patchMeta" -> [now EXCEPT !.stamps = Merged(r, o.patch)]
      [] o.call = "incrementRetries" -> [now EXCEPT !.retries = RetriesPlusOne(r, now)]
      [] OTHER -> [now EXCEPT !.state = "abandoned"]

Finish(p) ==
    /\ pc' = [pc EXCEPT ![p] = "idle"]
    /\ op' = [op EXCEPT ![p] = NoOp]
    /\ read' = [read EXCEPT ![p] = Opened]

Update(p) ==
    LET o == op[p] IN
    /\ pc[p] = "update"
    /\ row' = Written(o, read[p], row)
    /\ retried' = IF o.call = "incrementRetries" THEN retried + 1 ELSE retried
    /\ IF o.call = "markState"
       THEN pc' = [pc EXCEPT ![p] = "reread"] /\ UNCHANGED <<op, read>>
       ELSE Finish(p)
    /\ UNCHANGED signal

\* Mutant: a failed run leaves no sentinel.
SignalsFinal(to, r) ==
    \/ to \in {"delivered", "withheld", "abandoned"}
    \/ to = "stalled" /\ "stall" \in r.stamps

\* SENTINEL_STATES, and a stall the run's own guard confirmed.
Signals(to, r) ==
    \/ to \in {"delivered", "withheld", "abandoned", "failed"}
    \/ to = "stalled" /\ "stall" \in r.stamps

\* markState reads the row again, and mirrors what it finds.
Reread(p) ==
    /\ pc[p] = "reread"
    /\ IF Signals(op[p].to, row)
       THEN /\ pc' = [pc EXCEPT ![p] = "signal"]
            /\ read' = [read EXCEPT ![p] = row]
            /\ UNCHANGED op
       ELSE Finish(p)
    /\ UNCHANGED <<row, signal, retried>>

\* writeRunSignal: the rename puts the file in place as a whole.
WriteSignal(p) ==
    /\ pc[p] = "signal"
    /\ signal' = read[p].state
    /\ Finish(p)
    /\ UNCHANGED <<row, retried>>

Next ==
    \E p \in Proc :
        \/ \E o \in Op : Select(p, o)
        \/ Update(p) \/ Reread(p) \/ WriteSignal(p)

Spec == Init /\ [][Next]_vars

-----------------------------------------------------------------------------
(* Properties *)

AllIdle == \A p \in Proc : pc[p] = "idle"

\* The retry budget the supervisor spends: whatever else is written to the row
\* meanwhile, it holds one retry for every attempt that was counted.
RetriesCounted == row.retries = retried

\* A decided run can be waited for: once the writers are through, a run that was
\* delivered, withheld or failed has its done-sentinel on disk, whichever of the
\* calls that raced for the row came last.
DecidedIsSignalled ==
    AllIdle /\ row.state \in {"delivered", "withheld", "failed"} => signal # "none"

\* "Terminal states are final": no writer moves a row that was delivered,
\* withheld or abandoned.
TerminalIsFinal == [][row.state \in TerminalStates => row'.state = row.state]_vars
=============================================================================
