----------------------------- MODULE RunKernel -----------------------------
(***************************************************************************)
(* The Run Kernel's store (run-kernel/store.ts): an append-only journal    *)
(* with one sequence per project, the projection of each Run, and the      *)
(* outbox, in one SQLite file that several processes open (the Glance      *)
(* server, its dispatch children, the command line).                       *)
(*                                                                         *)
(* A command first reads outside any transaction (the row of its           *)
(* idempotency key, the Run's current state) and then commits in one       *)
(* BEGIN IMMEDIATE transaction.  Each read and each commit is one step.    *)
(*                                                                         *)
(* The row a project's sequence counter gives number n is journal[pr][n]:  *)
(* the counter, the insert and the projection are one transaction.         *)
(***************************************************************************)
EXTENDS Naturals, Sequences

CONSTANTS Proc,        \* the processes that issue commands
          Project,     \* the projects sharing the file
          Run,         \* the run ids
          ProjectOf,   \* the project of each run
          Key,         \* the idempotency keys
          NoKey,       \* a command without one
          Target,      \* the states transitions are asked for
          MaxEvents    \* bound: events per project

ASSUME RunKernelAssumption ==
    /\ ProjectOf \in [Run -> Project]
    /\ Run # {}
    /\ NoKey \notin Key
    /\ MaxEvents \in Nat

VARIABLES journal,   \* run_events, per project, in sequence order
          proj,      \* run_projections
          pending,   \* kernel_outbox rows with published_at NULL
          pc,        \* where each command is
          cmd,       \* the command each process last issued
          from,      \* the state transitionRun read
          seen,      \* the row of its key a command read before its transaction
          outcome    \* how each process's last command ended

storeVars == <<journal, proj, pending>>
procVars == <<pc, cmd, from, seen, outcome>>
vars == <<storeVars, procVars>>

-----------------------------------------------------------------------------
(* Data *)

LifecycleState == [r \in Run |-> proj[r].state]

Lifecycle == INSTANCE RunLifecycle WITH state <- LifecycleState

States == Lifecycle!States
Unknown == Lifecycle!Unknown

Types == {"run.prepared", "run.transitioned", "x_run_route_resolved", "other"}

\* An event; from and to are "prepared" where its payload has no such fields.
Event == [type : Types, run : Run, from : States, to : States, key : Key \cup {NoKey}]

\* A command is the event it asks for, without the state it will be read from.
Command == [type : Types, run : Run, to : States, key : Key \cup {NoKey}]

\* The commands callers issue.
Commands == {c \in Command : c.to \in (IF c.type = "run.transitioned"
                                       THEN Target ELSE {"prepared"})}

\* The command of a process that has none worth remembering.
NoCommand == [type |-> "other", run |-> CHOOSE r \in Run : TRUE,
              to |-> "prepared", key |-> NoKey]

\* A projection; version 0 means that the table has no row.
Projection == [state : States \cup {Unknown}, version : Nat, last : Nat]

NoProjection == [state |-> Unknown, version |-> 0, last |-> 0]

Rows(pr) == 1..Len(journal[pr])

\* UNIQUE(project_id, idempotency_key): the row a key names, or 0.
RowOf(pr, key) ==
    IF key # NoKey /\ \E i \in Rows(pr) : journal[pr][i].key = key
    THEN CHOOSE i \in Rows(pr) : journal[pr][i].key = key
    ELSE 0

Outcomes == {"none", "returned", "conflict", "rejected"}

Steps == {"idle", "replay", "current", "prior", "commit"}

TypeOK ==
    /\ journal \in [Project -> Seq(Event)]
    /\ proj \in [Run -> Projection]
    /\ pending \subseteq Project \X Nat
    /\ pc \in [Proc -> Steps]
    /\ cmd \in [Proc -> Commands]
    /\ from \in [Proc -> States]
    /\ seen \in [Proc -> Nat]
    /\ outcome \in [Proc -> Outcomes]

Init ==
    /\ journal = [pr \in Project |-> <<>>]
    /\ proj = [r \in Run |-> NoProjection]
    /\ pending = {}
    /\ pc = [p \in Proc |-> "idle"]
    /\ cmd = [p \in Proc |-> NoCommand]
    /\ from = [p \in Proc |-> "prepared"]
    /\ seen = [p \in Proc |-> 0]
    /\ outcome = [p \in Proc |-> "none"]

-----------------------------------------------------------------------------
(* A command's reads *)

\* The command ends: it returned the Run or the event, or it threw.
End(p, result) ==
    /\ pc' = [pc EXCEPT ![p] = "idle"]
    /\ from' = [from EXCEPT ![p] = "prepared"]
    /\ seen' = [seen EXCEPT ![p] = 0]
    /\ outcome' = [outcome EXCEPT ![p] = result]
    /\ cmd' = IF result \in {"returned", "conflict"} THEN cmd
              ELSE [cmd EXCEPT ![p] = NoCommand]

\* createRun, transitionRun or appendEvent is called.
Begin(p, c) ==
    /\ pc[p] = "idle"
    /\ cmd' = [cmd EXCEPT ![p] = c]
    /\ outcome' = [outcome EXCEPT ![p] = "none"]
    /\ pc' = [pc EXCEPT ![p] = IF c.type # "run.transitioned" THEN "prior"
                               ELSE IF c.key = NoKey THEN "current" ELSE "replay"]
    /\ UNCHANGED <<storeVars, from, seen>>

\* Mutant: the key answers for a transition of whichever run.
ReplayAnyRun(p) ==
    LET c == cmd[p]  pr == ProjectOf[c.run]  row == RowOf(pr, c.key)  e == journal[pr][row] IN
    /\ pc[p] = "replay"
    /\ IF row = 0
       THEN pc' = [pc EXCEPT ![p] = "current"] /\ UNCHANGED <<cmd, from, seen, outcome>>
       ELSE End(p, IF e.type = c.type /\ e.to = c.to THEN "returned" ELSE "conflict")
    /\ UNCHANGED storeVars

\* transitionRun: a key already in the journal answers for the command, if it
\* recorded the same transition of the same run.
Replay(p) ==
    LET c == cmd[p]  pr == ProjectOf[c.run]  row == RowOf(pr, c.key)  e == journal[pr][row] IN
    /\ pc[p] = "replay"
    /\ IF row = 0
       THEN pc' = [pc EXCEPT ![p] = "current"] /\ UNCHANGED <<cmd, from, seen, outcome>>
       ELSE End(p, IF e.run = c.run /\ e.type = c.type /\ e.to = c.to
                   THEN "returned" ELSE "conflict")
    /\ UNCHANGED storeVars

\* transitionRun: the state the transition will claim to leave.
ReadCurrent(p) ==
    LET c == cmd[p] IN
    /\ pc[p] = "current"
    /\ IF Lifecycle!CanTransition(proj[c.run].state, c.to)
       THEN /\ pc' = [pc EXCEPT ![p] = "prior"]
            /\ from' = [from EXCEPT ![p] = proj[c.run].state]
            /\ UNCHANGED <<cmd, seen, outcome>>
       ELSE End(p, "rejected")
    /\ UNCHANGED storeVars

\* createRun and appendEvent: the row of the key, whose event id and timestamps
\* a retry takes over. createRun's own read decides: the timestamp it passes on
\* is the row's only if it saw the row.
ReadPrior(p) ==
    /\ pc[p] = "prior"
    /\ seen' = [seen EXCEPT ![p] = RowOf(ProjectOf[cmd[p].run], cmd[p].key)]
    /\ pc' = [pc EXCEPT ![p] = "commit"]
    /\ UNCHANGED <<storeVars, cmd, from, outcome>>

-----------------------------------------------------------------------------
(* The transaction of appendEvent *)

Candidate(p) ==
    [type |-> cmd[p].type, run |-> cmd[p].run, from |-> from[p],
     to |-> cmd[p].to, key |-> cmd[p].key]

\* Mutants: a transition lands on whatever state it finds; run.prepared replaces
\* the row of a run that exists.
AppliesStale(view, e) ==
    /\ e.type = "run.prepared" => view[e.run] = NoProjection
    /\ e.type = "run.transitioned" => Lifecycle!CanTransition(e.from, e.to)
    /\ e.type = "x_run_route_resolved" => view[e.run].state = "prepared"

AppliesReplacing(view, e) ==
    /\ e.type = "run.transitioned" =>
          view[e.run].state = e.from /\ Lifecycle!CanTransition(e.from, e.to)
    /\ e.type = "x_run_route_resolved" => view[e.run].state = "prepared"

\* applyEventToProjection takes event e on top of the projections in view.
Applies(view, e) ==
    /\ e.type = "run.prepared" => view[e.run] = NoProjection
    /\ e.type = "run.transitioned" =>
          view[e.run].state = e.from /\ Lifecycle!CanTransition(e.from, e.to)
    /\ e.type = "x_run_route_resolved" => view[e.run].state = "prepared"

\* Mutant: a resolved route does not move lastSequence.
ProjectedRouteOnly(view, e, n) ==
    IF e.type = "other" THEN view
    ELSE [view EXCEPT ![e.run] =
            [state |-> IF e.type = "x_run_route_resolved" THEN @.state ELSE e.to,
             version |-> @.version + 1,
             last |-> IF e.type = "x_run_route_resolved" THEN @.last ELSE n]]

\* The projections after event e, which has sequence number n.
Projected(view, e, n) ==
    IF e.type = "other" THEN view
    ELSE [view EXCEPT ![e.run] =
            [state |-> IF e.type = "x_run_route_resolved" THEN @.state ELSE e.to,
             version |-> @.version + 1,
             last |-> n]]

\* The key is in the journal: the same event is returned, any other is a conflict.
\* Event ids and timestamps are fresh unless the row was seen before.
AnswerDuplicate(p) ==
    LET pr == ProjectOf[cmd[p].run]  row == RowOf(pr, cmd[p].key) IN
    /\ pc[p] = "commit"
    /\ row # 0
    /\ End(p, IF seen[p] = row /\ journal[pr][row] = Candidate(p)
              THEN "returned" ELSE "conflict")
    /\ UNCHANGED storeVars

\* Mutant: the key is looked up before the transaction only.
AppendEventUnlocked(p) ==
    LET e == Candidate(p)  pr == ProjectOf[e.run]  n == Len(journal[pr]) + 1 IN
    /\ pc[p] = "commit"
    /\ seen[p] = 0
    /\ Applies(proj, e)
    /\ n <= MaxEvents
    /\ journal' = [journal EXCEPT ![pr] = Append(@, e)]
    /\ pending' = pending \cup {<<pr, n>>}
    /\ proj' = Projected(proj, e, n)
    /\ End(p, "returned")

\* A new event: sequence, journal row, outbox row and projection, all or nothing.
AppendEvent(p) ==
    LET e == Candidate(p)  pr == ProjectOf[e.run]  n == Len(journal[pr]) + 1 IN
    /\ pc[p] = "commit"
    /\ RowOf(pr, e.key) = 0
    /\ Applies(proj, e)
    /\ n <= MaxEvents
    /\ journal' = [journal EXCEPT ![pr] = Append(@, e)]
    /\ pending' = pending \cup {<<pr, n>>}
    /\ proj' = Projected(proj, e, n)
    /\ End(p, "returned")

\* The transaction throws and rolls back: the projection refuses the event, or
\* (an event of another type) its cause or its message is not the run's.
Refuse(p) ==
    LET e == Candidate(p) IN
    /\ pc[p] = "commit"
    /\ RowOf(ProjectOf[e.run], e.key) = 0
    /\ ~Applies(proj, e) \/ e.type = "other"
    /\ End(p, "rejected")
    /\ UNCHANGED storeVars

\* The process dies between two steps; the file keeps what was committed.
Crash(p) ==
    /\ pc[p] # "idle"
    /\ End(p, "none")
    /\ UNCHANGED storeVars

Next ==
    \E p \in Proc :
        \/ \E c \in Commands : Begin(p, c)
        \/ Replay(p) \/ ReadCurrent(p) \/ ReadPrior(p)
        \/ AnswerDuplicate(p) \/ AppendEvent(p) \/ Refuse(p) \/ Crash(p)

Spec == Init /\ [][Next]_vars

-----------------------------------------------------------------------------
(* Properties *)

\* The rows that moved run r, and all the rows its projection was built from.
StateRows(r) ==
    {i \in Rows(ProjectOf[r]) : LET e == journal[ProjectOf[r]][i] IN
        e.run = r /\ e.type \in {"run.prepared", "run.transitioned"}}

ProjectedRows(r) ==
    {i \in Rows(ProjectOf[r]) : LET e == journal[ProjectOf[r]][i] IN
        e.run = r /\ e.type # "other"}

\* The event command c asks for is in the journal.
Recorded(c) ==
    \E i \in Rows(ProjectOf[c.run]) :
        LET e == journal[ProjectOf[c.run]][i] IN
        [type |-> e.type, run |-> e.run, to |-> e.to, key |-> e.key] = c

IsLatest(i, rows) == i \in rows /\ \A k \in rows : k <= i

\* Idempotency keys: however many processes retry a command, and wherever they
\* were interrupted, its key is in the project's journal at most once.
KeyRecordedOnce ==
    \A pr \in Project : \A i, j \in Rows(pr) :
        journal[pr][i].key = journal[pr][j].key /\ journal[pr][i].key # NoKey => i = j

\* The journal read back: every run was prepared once, first, and each of its
\* transitions leaves the state the one before it reached, along the lifecycle
\* table. Two transitions decided from the same read cannot both be there.
HistoryLegal ==
    \A r \in Run : \A i \in StateRows(r) :
        LET e == journal[ProjectOf[r]][i]
            before == {k \in StateRows(r) : k < i}
        IN IF e.type = "run.prepared" THEN before = {}
           ELSE /\ Lifecycle!CanTransition(e.from, e.to)
                /\ \E j \in before : IsLatest(j, before) /\ journal[ProjectOf[r]][j].to = e.from

\* Readers of run_projections see what the journal says: the state the run's last
\* transition reached, and the sequence of the last event that changed the row.
ProjectionIsHistory ==
    \A r \in Run :
        IF StateRows(r) = {}
        THEN proj[r] = NoProjection
        ELSE /\ \E j \in StateRows(r) : /\ IsLatest(j, StateRows(r))
                                       /\ proj[r].state = journal[ProjectOf[r]][j].to
             /\ IsLatest(proj[r].last, ProjectedRows(r))

\* A caller that was not told of an error finds its command in the journal: a
\* replay by key never passes another command's event off as its own.
AcknowledgedIsRecorded ==
    \A p \in Proc : outcome[p] = "returned" => Recorded(cmd[p])

\* The store implements the abstract lifecycle: a run appears in prepared, moves
\* along the table and never leaves a terminal state.
ImplementsLifecycle == Lifecycle!Spec
=============================================================================
