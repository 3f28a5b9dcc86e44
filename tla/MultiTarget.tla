---------------------------- MODULE MultiTarget ----------------------------
(***************************************************************************)
(* The coordinator of a multi-target plan (lib/gauntlet/multi-target-      *)
(* coordinator.ts) over its Run Kernel ports (run-kernel-multi-target-     *)
(* ports.ts, multi-target-projection.ts), the dispatch adapters and their  *)
(* result markers (multi-target-dispatch-adapters.ts), and the command     *)
(* that overlaps, resumes and retries it (scripts/multi-target.ts).        *)
(*                                                                         *)
(* A plan is executed in a chain of Runs, the next one made by a retry.    *)
(* `procs` are invocations of the command: several can be at work at once, *)
(* and each can be killed between two steps and started again. The ports   *)
(* are synchronous calls into one SQLite file, so a step is one call, or a *)
(* check and the call that follows from it.                                *)
(***************************************************************************)
EXTENDS MultiTargetPlan

CONSTANTS
    Plans,      \* plans that are compiled
    Executed,   \* bound: those of them that are also executed
    procs,      \* invocations that can overlap
    Owners,     \* lease owners (--owner, by default host:pid)
    NoOwner,    \* not an owner
    Results,    \* what a dispatch can answer: records [state, cost]
    MaxRuns,    \* bound: Runs of the chain
    MaxVersion, \* bound: a Run is resumed up to this version of its snapshot
    MaxDisturbances \* bound: overlapping commands, kills and expired leases together

ASSUME MultiTargetAssumption ==
    /\ IsFiniteSet(Nodes) /\ Nodes \subseteq Nat \ {0}
    /\ \A p \in Plans : p.deps \in [Nodes -> SUBSET Nodes] /\ Reservable(p)
    /\ Executed \subseteq Plans
    /\ \A p \in Executed : Acyclic(p.deps)  \* plan-compiler.ts:411 refuses the others
    /\ NoOwner \notin Owners
    /\ Results \subseteq [state: {"delivered", "withheld", "failed"}, cost: Nat]
    /\ MaxRuns \in Nat \ {0}
    /\ MaxVersion \in Nat
    /\ MaxDisturbances \in Nat

VARIABLES
    plan,     \* the compiled plan
    waves,    \* its parallel_waves
    grants,   \* the grants of its reservation
    run,      \* the kernel state of each Run of the chain
    proj,     \* projectMultiTargetRun: the last snapshot and what was journaled after it
    saved,    \* the snapshots saved in each Run, by version
    events,   \* the node events journaled in each Run, by type and node
    lease,    \* kernel_multi_target_leases
    marker,   \* the result marker in each node's directory
    co,       \* what each coordinator has in memory
    rivals,   \* history: who ran a node at the same time as a coordinator's child
    overlaps, \* history: commands so far that were started while another was at work
    kills,    \* history: kills so far
    expired   \* history: expired leases so far

compiled == <<plan, waves, grants>>
journal  == <<run, proj, saved, events>>
vars     == <<compiled, journal, lease, marker, co, rivals, overlaps, kills, expired>>

Runs == 1..MaxRuns

Disturbable == overlaps + kills + expired < MaxDisturbances

-----------------------------------------------------------------------------
(* Values.                                                                 *)

NodeStates    == {"pending", "running", "delivered", "withheld", "failed", "skipped", "stalled"}
TerminalNodes == NodeStates \ {"pending", "running"}
PlanStates    == {"ready", "running", "delivered", "withheld", "failed"}
TerminalPlans == {"delivered", "withheld", "failed"}

\* open: prepared, running, verifying.
RunStates     == {"none", "open", "completed", "withheld", "failed"}
Costs         == {r.cost : r \in Results} \cup {0}

NodeRec  == [state: NodeStates, cost: Costs]
Snapshot == [state: PlanStates, nodes: [Nodes -> NodeRec], version: Nat, attempt: Nat]
Pending  == [state |-> "pending", cost |-> 0]

\* version 0: the Run never saved a snapshot.
NoSnapshot ==
    [state |-> "ready", nodes |-> [n \in Nodes |-> Pending], version |-> 0, attempt |-> 1]

initialSnapshot == [NoSnapshot EXCEPT !.version = 1]

Free    == [owner |-> NoOwner, live |-> FALSE]

\* attempt 0: no marker.
NoMarker == [attempt |-> 0, result |-> [state |-> "failed", cost |-> 0]]

(* A coordinator: `at` is where it is; `snap` its snapshot; `todo` the     *)
(* nodes of the wave it has not planned; `job` what its adapters do: "run",*)
(* "abort" (running, but told to stop), a result's state, or "none".       *)
Jobs == [state: {"none", "run", "abort", "delivered", "withheld", "failed"}, cost: Costs]
NoJob == [state |-> "none", cost |-> 0]

\* What an event says besides the record: the reason and blockedBy.
Note(reason, nodes) == [reason |-> reason, blockedBy |-> nodes]
NoNote == Note("none", {})

\* What is to be journaled next, or was journaled last.
NoWord == [node |-> 0, type |-> "none", note |-> NoNote]

Away == [at |-> "away", owner |-> NoOwner, run |-> 1, snap |-> NoSnapshot,
         wave |-> 1, todo |-> {}, word |-> NoWord, job |-> [n \in Nodes |-> NoJob]]

Runnable(p) == {n \in Nodes : co[p].job[n] # NoJob}

Init ==
    /\ plan \in Plans
    /\ waves = Waves(plan.deps, plan.safe)
    /\ grants = Grants(plan)
    /\ run = [r \in Runs |-> "none"]
    /\ proj = [r \in Runs |-> NoSnapshot]
    /\ saved = [r \in Runs |-> {}]
    /\ events = [r \in Runs |-> {}]
    /\ lease = [r \in Runs |-> [n \in Nodes |-> Free]]
    /\ marker = [n \in Nodes |-> NoMarker]
    /\ co = [p \in procs |-> Away]
    /\ rivals = [p \in procs |-> [n \in Nodes |-> {}]]
    /\ overlaps = 0
    /\ kills = 0
    /\ expired = 0

-----------------------------------------------------------------------------
(* The ports.                                                              *)

\* An error out of a port ends the command; its leases stay until they expire.
Throws(p) ==
    /\ co' = [co EXCEPT ![p] = Away]
    /\ UNCHANGED <<proj, saved, events>>

\* state.save: a version saved before must be saved with the same content.
Save(p, s, next) ==
    LET r == co[p].run
        same == {t \in saved[r] : t.version = s.version}
    IN  IF same \ {s} # {} THEN Throws(p)
        ELSE /\ co' = [co EXCEPT ![p] = next]
             /\ saved' = [saved EXCEPT ![r] = @ \cup {s}]
             /\ proj' = IF same = {} THEN [proj EXCEPT ![r] = s] ELSE proj
             /\ UNCHANGED events

(* journal.emit of node n's record: an event of that type and node         *)
(* journaled before must have the same content, and is then not repeated.  *)
Emit(p, n, rec, type, note, next) ==
    LET r == co[p].run
        e == [type |-> type, node |-> n, rec |-> rec, note |-> note]
        same == {f \in events[r] : f.type = type /\ f.node = n}
    IN  IF same \ {e} # {} THEN Throws(p)
        ELSE /\ co' = [co EXCEPT ![p] = next]
             /\ events' = [events EXCEPT ![r] = @ \cup {e}]
             /\ proj' = IF same = {}
                        THEN [proj EXCEPT ![r].nodes[n] = rec, ![r].state = "running"] ELSE proj
             /\ UNCHANGED saved

Holds(l, o) == l.owner = o /\ l.live

\* claim: no live lease, or the caller's own.
Claimable(l, o) == l.live => l.owner = o

LeaseExpires(r, n) ==
    /\ lease[r][n].live
    /\ Disturbable
    /\ expired' = expired + 1
    /\ lease' = [lease EXCEPT ![r][n].live = FALSE]
    /\ UNCHANGED <<compiled, journal, marker, co, rivals, overlaps, kills>>

-----------------------------------------------------------------------------
(* The command: start, resume or retry.                                    *)

\* resolveMultiTargetRun: the last Run of the chain, 0 if there is none.
Latest == Cardinality({r \in Runs : run[r] # "none"})

\* Two commands at work at once have different owners.
Invocation(p, o) ==
    /\ co[p].at = "away"
    /\ plan \in Executed
    /\ \A q \in procs : co[q].owner # o
    /\ \/ /\ \A q \in procs : co[q].at = "away"
          /\ UNCHANGED overlaps
       \/ /\ \E q \in procs : co[q].at # "away"
          /\ Disturbable
          /\ overlaps' = overlaps + 1

\* Starts the plan's first Run, or resumes one that is not terminal.
Invoke(p, o) ==
    /\ Invocation(p, o)
    /\ \/ Latest = 0
       \/ Latest > 0 /\ run[Latest] = "open" /\ proj[Latest].version <= MaxVersion
    /\ LET r == IF Latest = 0 THEN 1 ELSE Latest
       IN  /\ run' = [run EXCEPT ![r] = "open"]
           /\ co' = [co EXCEPT ![p] = [Away EXCEPT !.at = "load", !.owner = o, !.run = r]]
    /\ UNCHANGED <<compiled, proj, saved, events, lease, marker, rivals, kills, expired>>

\* MUTANT of Reopened: delivered nodes are run again too.
ReopenedAll(rec) == Pending

\* retryMultiTargetSnapshot: delivered nodes stay, the others are pending again.
Reopened(rec) == IF rec.state = "delivered" THEN rec ELSE Pending

\* --retry-failed: a new Run whose snapshot is not saved yet.
Retry(p, o) ==
    /\ Invocation(p, o)
    /\ Latest \in 1..(MaxRuns - 1)
    /\ run[Latest] \in {"withheld", "failed"}
    /\ proj[Latest].state \in {"withheld", "failed"}
    /\ LET prev == proj[Latest]
           s == [state |-> "ready", version |-> prev.version + 1, attempt |-> prev.attempt + 1,
                 nodes |-> [n \in Nodes |-> Reopened(prev.nodes[n])]]
       IN  /\ run' = [run EXCEPT ![Latest + 1] = "open"]
           /\ co' = [co EXCEPT ![p] = [Away EXCEPT !.at = "seed", !.owner = o,
                                                   !.run = Latest + 1, !.snap = s]]
    /\ UNCHANGED <<compiled, proj, saved, events, lease, marker, rivals, kills, expired>>

\* The retried Run's first snapshot is saved.
Seed(p) ==
    /\ co[p].at = "seed"
    /\ Save(p, co[p].snap, [co[p] EXCEPT !.at = "load"])
    /\ UNCHANGED <<compiled, run, lease, marker, rivals, overlaps, kills, expired>>

-----------------------------------------------------------------------------
(* coordinateMultiTargetPlan.                                              *)

Unplanned(s, w) == {n \in Nodes : n \in waves[w] /\ s.nodes[n].state \notin TerminalNodes}

\* The coordinator at the beginning of wave w, or at the end of the plan.
Before(me, w) ==
    IF w > Len(waves) THEN [me EXCEPT !.at = "end"]
    ELSE [me EXCEPT !.at = "plan", !.wave = w, !.todo = Unplanned(me.snap, w),
                    !.job = [n \in Nodes |-> NoJob]]

\* Loads the snapshot, or saves the initial one; a terminal one is only reported.
Load(p) ==
    LET me == co[p]
        s == proj[me.run]
    IN  /\ me.at = "load"
        /\ \/ /\ s.version = 0
              /\ Save(p, initialSnapshot, Before([me EXCEPT !.snap = initialSnapshot], 1))
           \/ /\ s.version > 0
              /\ co' = [co EXCEPT ![p] =
                    IF s.state \in TerminalPlans THEN [me EXCEPT !.at = "finish", !.snap = s]
                    ELSE Before([me EXCEPT !.snap = s], 1)]
              /\ UNCHANGED <<proj, saved, events>>
        /\ UNCHANGED <<compiled, run, lease, marker, rivals, overlaps, kills, expired>>

\* MUTANT of blockedBy: a dependency that has ended is enough.
blockedByUnended(p, n) ==
    {d \in plan.deps[n] : co[p].snap.nodes[d].state \notin TerminalNodes}

blockedBy(p, n) == {d \in plan.deps[n] : co[p].snap.nodes[d].state # "delivered"}

\* What is decided of node n, to be journaled in the next step.
Decide(p, n, state, type, note) ==
    co' = [co EXCEPT ![p].at = "announce",
                     ![p].snap.nodes[n].state = state,
                     ![p].word = [node |-> n, type |-> type, note |-> note]]

(* The wave's turn of one node, in the order of the ids: it is stalled,    *)
(* skipped, completed or started. One that was running when the snapshot   *)
(* was loaded is resumed if its lease is still there.                      *)
PlanNode(p, n) ==
    LET me == co[p]
        l == lease[me.run][n]
        running == me.snap.nodes[n].state = "running"
        lost == running /\ ~Holds(l, me.owner)
        blocked == blockedBy(p, n)
        clear == ~lost /\ blocked = {}
    IN  /\ me.at = "plan"
        /\ n \in me.todo /\ \A m \in me.todo : n <= m
        /\ \/ /\ lost
              /\ Decide(p, n, "stalled", "node_stalled", Note("no lease", {}))
              /\ UNCHANGED lease
           \/ /\ ~lost /\ blocked # {}
              /\ Decide(p, n, "skipped", "node_skipped", Note("blocked", blocked))
              /\ UNCHANGED lease
           \/ /\ clear /\ n \in plan.support
              /\ Decide(p, n, "delivered", "support_completed", NoNote)
              /\ UNCHANGED lease
           \/ /\ clear /\ n \notin plan.support
              /\ ~running /\ ~Claimable(l, me.owner)
              /\ Decide(p, n, "stalled", "node_stalled", Note("no claim", {}))
              /\ UNCHANGED lease
           \/ /\ clear /\ n \notin plan.support
              /\ running \/ Claimable(l, me.owner)
              /\ Decide(p, n, "running", "node_started", NoNote)
              /\ lease' = [lease EXCEPT ![me.run][n] = [owner |-> me.owner, live |-> TRUE]]
        /\ UNCHANGED <<compiled, journal, marker, rivals, overlaps, kills, expired>>

\* The decision is journaled.
Announce(p) ==
    LET me == co[p]
        n == me.word.node
        started == me.word.type = "node_started"
    IN  /\ me.at = "announce"
        /\ Emit(p, n, me.snap.nodes[n], me.word.type, me.word.note,
                [me EXCEPT !.at = "plan", !.todo = @ \ {n}, !.word = NoWord,
                           !.job[n] = IF started THEN [state |-> "run", cost |-> 0] ELSE @])
        /\ UNCHANGED <<compiled, run, lease, marker, rivals, overlaps, kills, expired>>

\* MUTANT of Surfaced: the lease is not looked at when the adapter has finished.
SurfacedAnyway(l, o, result) == result

\* MUTANT of Surfaced: a lost lease has a state of its own, which no result has.
SurfacedAsLost(l, o, result) ==
    IF Holds(l, o) THEN result ELSE [result EXCEPT !.state = "lease_lost"]

\* An adapter's answer counts only while the lease is live.
Surfaced(l, o, result) == IF Holds(l, o) THEN result ELSE [result EXCEPT !.state = "failed"]

\* What an adapter does first: a marker of this attempt answers at once, else it dispatches.
Dispatched(p, n) ==
    IF marker[n].attempt = co[p].snap.attempt
    THEN Surfaced(lease[co[p].run][n], co[p].owner, marker[n].result)
    ELSE [state |-> "run", cost |-> 0]

Active(p, n) == co[p].job[n].state \in {"run", "abort"}

\* The coordinators whose child for node n of Run r is running.
Running(r, n) == {q \in procs : co[q].at = "run" /\ co[q].run = r /\ Active(q, n)}

\* The wave is saved and its adapters start.
StartWave(p) ==
    LET me == co[p]
        s == [me.snap EXCEPT !.state = "running", !.version = @ + 1]
        job == [n \in Nodes |-> IF n \in Runnable(p) THEN Dispatched(p, n) ELSE NoJob]
        begun == {n \in Nodes : job[n].state = "run"}
    IN  /\ me.at = "plan" /\ me.todo = {}
        /\ Save(p, s, [me EXCEPT !.at = "run", !.snap = s, !.job = job])
        /\ rivals' =
              IF co'[p].at = "away" THEN rivals
              ELSE [q \in procs |-> [n \in Nodes |->
                       IF q = p THEN {o \in Running(me.run, n) \ {p} : n \in begun}
                       ELSE IF n \in begun /\ q \in Running(me.run, n)
                            THEN rivals[q][n] \cup {p}
                       ELSE rivals[q][n] \ {p}]]
        /\ UNCHANGED <<compiled, run, lease, marker, kills, expired, overlaps>>

\* The heartbeat finds the lease expired or another's: the child is told to stop.
HeartbeatFails(p, n) ==
    LET me == co[p]
    IN  /\ me.at = "run" /\ me.job[n].state = "run"
        /\ ~Holds(lease[me.run][n], me.owner)
        /\ co' = [co EXCEPT ![p].job[n].state = "abort"]
        /\ UNCHANGED <<compiled, journal, lease, marker, rivals, overlaps, kills, expired>>

\* A dispatch ends. An aborted one fails and leaves no marker.
ChildEnds(p, n, result) ==
    LET me == co[p]
    IN  /\ me.at = "run" /\ Active(p, n)
        /\ \/ /\ me.job[n].state = "abort"
              /\ co' = [co EXCEPT ![p].job[n] = [state |-> "failed", cost |-> 0]]
              /\ UNCHANGED marker
           \/ /\ me.job[n].state = "run"
              /\ marker' = [marker EXCEPT ![n] = [attempt |-> me.snap.attempt, result |-> result]]
              /\ co' = [co EXCEPT ![p].job[n] =
                           Surfaced(lease[me.run][n], me.owner, result)]
        /\ UNCHANGED <<compiled, journal, lease, rivals, overlaps, kills, expired>>

\* MUTANT of OverGrant: the grant is not looked at.
OverGrantNever(n, job) == FALSE

\* A Gauntlet node reports more than it was granted.
OverGrant(n, job) == n \in plan.gauntlet /\ job.cost > grants[n]

\* The record of an answered node: over its grant, it fails.
Verdict(n, job) == IF OverGrant(n, job) THEN [job EXCEPT !.state = "failed"] ELSE job

(* When all adapters of the wave have answered, their results are          *)
(* journaled node by node, in the order of their ids, each followed by the *)
(* release of its lease.                                                   *)
Record(p, n) ==
    LET me == co[p]
        rec == Verdict(n, me.job[n])
        type == IF OverGrant(n, me.job[n]) THEN "budget_exceeded" ELSE rec.state
    IN  /\ me.at = "run"
        /\ \A m \in Nodes : ~Active(p, m)
        /\ n \in Runnable(p) /\ me.snap.nodes[n].state = "running"
        /\ \A m \in Runnable(p) : m < n => me.snap.nodes[m].state # "running"
        /\ Emit(p, n, rec, type, NoNote,
                [me EXCEPT !.at = "release", !.snap.nodes[n] = rec,
                           !.word = [node |-> n, type |-> type, note |-> NoNote]])
        /\ UNCHANGED <<compiled, run, lease, marker, rivals, overlaps, kills, expired>>

Release(p) ==
    LET me == co[p]
        n == me.word.node
    IN  /\ me.at = "release"
        /\ lease' = IF lease[me.run][n].owner = me.owner
                    THEN [lease EXCEPT ![me.run][n] = Free] ELSE lease
        /\ co' = [co EXCEPT ![p].at = "run", ![p].word = NoWord]
        /\ UNCHANGED <<compiled, journal, marker, rivals, overlaps, kills, expired>>

EndWave(p) ==
    LET me == co[p]
        s == [me.snap EXCEPT !.version = @ + 1]
    IN  /\ me.at = "run"
        /\ \A n \in Runnable(p) : me.snap.nodes[n].state # "running"
        /\ Save(p, s, Before([me EXCEPT !.snap = s], me.wave + 1))
        /\ UNCHANGED <<compiled, run, lease, marker, rivals, overlaps, kills, expired>>

\* MUTANT of terminalState: stalled nodes are overlooked.
terminalStateNoStalls(nodes) ==
    IF \E n \in Nodes : nodes[n].state = "failed" THEN "failed"
    ELSE IF \E n \in Nodes : nodes[n].state \in {"withheld", "skipped"} THEN "withheld"
    ELSE "delivered"

terminalState(nodes) ==
    IF \E n \in Nodes : nodes[n].state \in {"failed", "stalled"} THEN "failed"
    ELSE IF \E n \in Nodes : nodes[n].state \in {"withheld", "skipped"} THEN "withheld"
    ELSE "delivered"

(* After the last wave the terminal snapshot is saved and plan_terminal is *)
(* journaled. Two different outcomes of one Run conflict: the second       *)
(* coordinator stops with an error.                                        *)
EndPlan(p) ==
    LET me == co[p]
        s == [me.snap EXCEPT !.state = terminalState(me.snap.nodes), !.version = @ + 1]
        other == \E t \in saved[me.run] : t.state \in TerminalPlans \ {s.state}
    IN  /\ me.at = "end"
        /\ Save(p, s, IF other THEN Away ELSE [me EXCEPT !.at = "finish", !.snap = s])
        /\ UNCHANGED <<compiled, run, lease, marker, rivals, overlaps, kills, expired>>

\* The Run gets the plan's state, unless somebody has ended it already.
Finish(p) ==
    LET me == co[p]
    IN  /\ me.at = "finish"
        /\ run' = [run EXCEPT ![me.run] =
              IF @ # "open" THEN @
              ELSE IF me.snap.state = "delivered" THEN "completed" ELSE me.snap.state]
        /\ co' = [co EXCEPT ![p] = Away]
        /\ UNCHANGED <<compiled, proj, saved, events, lease, marker, rivals, overlaps, kills>>
        /\ UNCHANGED expired

\* The coordinator is killed. Its children are not followed further.
Killed(p) ==
    /\ co[p].at # "away"
    /\ Disturbable
    /\ kills' = kills + 1
    /\ co' = [co EXCEPT ![p] = Away]
    /\ UNCHANGED <<compiled, journal, lease, marker, rivals, overlaps, expired>>

-----------------------------------------------------------------------------
Step(p) ==
    \/ Seed(p) \/ Load(p) \/ Announce(p) \/ StartWave(p)
    \/ Release(p) \/ EndWave(p) \/ EndPlan(p) \/ Finish(p)
    \/ \E n \in Nodes : PlanNode(p, n) \/ Record(p, n) \/ HeartbeatFails(p, n)
    \/ \E n \in Nodes, result \in Results : ChildEnds(p, n, result)

Next ==
    \/ \E p \in procs : Step(p) \/ Killed(p)
    \/ \E p \in procs, o \in Owners : Invoke(p, o) \/ Retry(p, o)
    \/ \E r \in Runs, n \in Nodes : LeaseExpires(r, n)

Spec == Init /\ [][Next]_vars

-----------------------------------------------------------------------------
(* Properties.                                                             *)

TypeOK ==
    /\ run \in [Runs -> RunStates]
    /\ proj \in [Runs -> Snapshot]
    /\ \A r \in Runs : saved[r] \subseteq Snapshot
    /\ lease \in [Runs -> [Nodes -> [owner: Owners \cup {NoOwner}, live: BOOLEAN]]]
    /\ marker \in [Nodes -> [attempt: Nat, result: Jobs]]
    /\ rivals \in [procs -> [Nodes -> SUBSET procs]]
    /\ {overlaps, kills, expired} \subseteq 0..MaxDisturbances
    /\ \A p \in procs :
          /\ co[p].at \in {"away", "seed", "load", "plan", "announce", "run",
                             "release", "end", "finish"}
          /\ co[p].owner \in Owners \cup {NoOwner}
          /\ co[p].run \in Runs
          /\ co[p].snap \in Snapshot
          /\ co[p].todo \subseteq Nodes
          /\ co[p].job \in [Nodes -> Jobs]

\* The nodes some Run of the chain has journaled as delivered.
Delivered ==
    {e.node : e \in {f \in UNION {events[r] : r \in Runs} :
                        f.type \in {"delivered", "support_completed"}}}

(* A node is dispatched only when everything it depends on has been        *)
(* journaled as delivered, by this coordinator or another, in this Run or  *)
(* an earlier one.                                                         *)
DependenciesFirst ==
    \A p \in procs, n \in Nodes :
        co[p].job[n] # NoJob => plan.deps[n] \subseteq Delivered

(* A Run is completed only when every node of the plan was delivered,      *)
(* whoever else was at work on it.                                         *)
CompletedIsDelivered ==
    (\E r \in Runs : run[r] = "completed") => Delivered = Nodes

(* ports.ts:170-172: of two dispatches of one node that ran at the same    *)
(* time in one Run, at most one is surfaced as delivered: the other's      *)
(* lease was lost before it finished.                                      *)
LeaseFences ==
    \A p, q \in procs, n \in Nodes :
        p # q /\ q \in rivals[p][n] /\ co[p].run = co[q].run =>
            ~(co[p].job[n].state = "delivered" /\ co[q].job[n].state = "delivered")

(* No journal counts a Gauntlet node as delivered above its grant, so what *)
(* the delivered Gauntlet nodes of a Run cost stays within the cap.        *)
WithinCap ==
    \A r \in Runs :
        LET paid == {n \in plan.gauntlet : proj[r].nodes[n].state # "failed"}
        IN  /\ Total([n \in Nodes |-> proj[r].nodes[n].cost], paid) <= plan.cap
            /\ \A n \in paid : proj[r].nodes[n].cost <= grants[n]

\* The waves and the grants of every plan that can be started are sound (MultiTargetPlan).
PlanIsSound == run[1] = "none" => WavesAreOrdered(plan, waves) /\ GrantsAreExact(plan, grants)

(* As long as no two coordinators overlap, a node that a Run has journaled *)
(* as delivered is not dispatched again: not by a command that resumes the *)
(* Run after a kill, nor in a Run that retries it (coordinator.ts:165-168  *)
(* "`delivered` nodes kept as they are"), once the retry has saved its     *)
(* first snapshot.                                                         *)
NeverAgain ==
    [][\A p \in procs, n \in Nodes :
          LET r == co[p].run
              kept == {r} \cup IF co[p].snap.attempt > 1 THEN {r - 1} ELSE {}
          IN  overlaps = 0 /\ ~Active(p, n) /\ Active(p, n)' =>
                  \A k \in kept : \A e \in events[k] :
                      ~(e.node = n /\ e.type \in {"delivered", "support_completed"})]_vars
=============================================================================
