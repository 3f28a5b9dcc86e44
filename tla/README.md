# Nirvana OS engine: TLA+ models, checks and proofs

This directory models the parts of the engine that have to be right when several
processes, or several callbacks of one, touch the same run: the journal and
projections of the Run Kernel, the Dispatch Ledger, the supervisor that recovers
stalled runs, the file lock under them, and the three schedulers above them: the
job queue and webhook outbox of `nrv serve`, the coordinator of multi-target plans,
and the queue through which Glance runs the Messages of a chat. TLC checks the modules on small
instances; TLAPS proves the safety properties the runs check for all values of the
constants. Sources are given as
`file:line` under `src/`.

## 1. The system

A *dispatch* hands a brief to a target (an agent, a squad, a business). The
engine launches a headless runtime as a child process, watches it, verifies and
judges what it wrote, and delivers or withholds it. There is no daemon a dispatch
needs: every command is a process of its own, and they meet in SQLite files, JSON
files and lock directories. Two servers, `nrv serve` and Glance, start dispatches
for clients and have queues of their own in memory.

| Component | State it keeps | Operations | What makes it correct |
|---|---|---|---|
| File lock (`_shared/lib/file-lock.ts`) | a `<file>.lock` directory and its `owner.json` | acquire, staleness test, takeover, release | one holder; a dead holder's lock is reclaimed; callers give up in time |
| Run Kernel store (`harness/lib/run-kernel`) | journal, projections, outbox, in one SQLite file | createRun, transitionRun, appendEvent, rebuildProjections, publishOutbox | legal history, projection = history, idempotent keys, no event lost |
| Dispatch Ledger (`harness/lib/run-ledger.ts`) | one row per run, a done-sentinel file | openRun, markState, patchMeta, recordChildPid, incrementRetries, renewLease, abandon | terminal states are final, retries counted, a decided run is signalled |
| Supervisor (`harness/scripts/supervisor.ts`) | the rows it read, stamps in `meta` | sweep: skip, grace, kill, resume, re-dispatch, finalize, escalate, salvage, notify | bounded recovery, nothing undone, nobody left untold, never stalls for ever |
| Stall guard, sidecar (`stall-guard.ts`, `run-ledger.ts` heartbeat) | lease, heartbeat, pid on the row | beat, record pid, confirm stall | a living run is left alone, a dead one is noticed |
| Delivery pipeline (`delivery-pipeline.ts`) | ledger state and its meta | verify, gate, revise, deliver, withhold, quota wait | what an errored or escalated run wrote is judged once, alone |
| Dispatch and revise drivers (`dispatch.ts`, `revise.ts`) | `meta.dispatcher_pid` | mark running, take over, give back | one driver at a time |
| Cascade of runtimes (`cascade-runner.ts`, `cooldown-registry.ts`, `spend-tracker.ts`) | cooldowns, daily spend | hand off, retry, cool down, charge | bounded handoffs, budget |
| Run budget, session store (`run-budget.ts`, `session-store.ts`) | a JSON file per project | charge, put, drop | no charge or session lost |
| Job queue of serve (`lib/serve/queue.ts`, `runs.ts`) | waiting jobs, busy sessions and children in memory; `.run.json` per job | submit, pump, close, get, cancel, restart | one job per session, in order; the cap; answers that stay |
| Webhook outbox (`lib/serve/webhook-outbox.ts`) | a file per job, the set of pending ones in memory | enqueue, sweep, record an attempt, adopt | at least once, or given up after ten attempts |
| Multi-target coordinator (`lib/gauntlet/multi-target-*.ts`, `scripts/multi-target.ts`) | snapshots, events and leases in the Run Kernel; result markers in files | start, resume, retry, plan a wave, dispatch, record | dependencies first, nothing delivered runs again, a lost lease delivers nothing |
| DAG planner, budget reservation (`dag-planner.ts`, `aggregate-budget.ts`) | none | plan waves, share the cap | every node after its dependencies; exact grants |
| Canary queue of Glance (`control-plane/agent-x-canary-queue.ts`) | items in memory; Runs, routes and child events in the Run Kernel | submit, route, run a child, cancel, recover | one item per Run, no Run run twice at once, none left open |
| Routing, quality gate, Glance, installer, catalogs | files and indexes | rank, judge, show, copy | data, not protocol |

How they interact:

- A driver opens a ledger row, starts the worker and a sidecar process, and waits.
  The sidecar renews the lease while it sees signs of life, finds the worker's pid,
  and may confirm a stall. The driver then walks the delivery pipeline, which moves
  the row through `ledgerTry`: an illegal transition throws and is swallowed.
- A sweep reads all open rows once and works through them. It signals workers by the
  row's pid, spawns `revise.ts` synchronously, or re-dispatches itself. Any of these
  may be killed at any moment; only the row, the files and the lock directory remain.
- Ledger and kernel calls of different processes interleave between SQL statements
  (the kernel's commits are transactions, the ledger's reads and writes are not).

- The servers are one JavaScript thread each: their interleavings are those of callbacks between
  awaits, of children that outlive the server, and of deaths between two writes.
- The coordinator and the canary queue keep what they know in the Run Kernel, and their Runs walk
  the lifecycle of `RunLifecycle`.

The behaviours that are hard are listed with their lines under "hazards" in
`PROJECT.json`: reads used after another process wrote, deaths between two writes,
overlapping publishers, retries of what may have happened, stale snapshots.

## 2. Modules

| Module | Models | Reads best after |
|---|---|---|
| `FileLock` | `acquireLockSync`, `isStale`, `release`, one step per file system call | - |
| `RunLifecycle` | `lifecycle.ts` and the abstract machine the kernel promises | - |
| `RunKernel` | `store.ts`: commands as reads followed by one transaction | `RunLifecycle` |
| `RunKernelRebuild` | `RunKernel` + `rebuildProjections` | `RunKernel` |
| `RunKernelOutbox` | `RunKernel` + `publishOutbox` with several publishers | `RunKernel` |
| `LedgerStates` | the ledger's states and `LEGAL` | - |
| `RunLedger` | one row and its writers, one step per SELECT, UPDATE, rename | `LedgerStates` |
| `Supervisor` | one row with dispatcher, worker, sidecar, revises, pipeline and sweep, one step per ledger call | `LedgerStates` |
| `WebhookOutbox` | `webhook-outbox.ts`: records, overlapping sweeps, adoption | - |
| `ServeQueue` | `queue.ts` and `runs.ts`, composed with the outbox in one server | `WebhookOutbox` |
| `MultiTargetPlan` | `planDag` and `reserveAggregateGauntletBudget` as functions | - |
| `MultiTarget` | the coordinator, its kernel ports, adapters and command | `MultiTargetPlan` |
| `CanaryQueue` | `agent-x-canary-queue.ts` and the children it starts | `RunLifecycle` |
| `MC*` | values for the constants | |
| `MultiTargetPlanProofs` | theorems about the waves and the grants, and the induction and the sums they need | `MultiTargetPlan` |
| `FileLockProofs`, `RunKernelProofs` (with the outbox and the rebuild), `RunLedgerProofs`, `SupervisorProofs`, `ServeProofs`, `MultiTargetProofs`, `CanaryQueueProofs` | theorems and proofs | the module of that name |

Some definitions are preceded by a *mutant*: the same operator with a plausible bug
of that code in it (a dropped guard, a read made too early). Nothing uses it; put in
place of the operator that follows it, it makes the property it is listed with in
`PROJECT.json` fail.

### FileLock

`exists`, `owner`, `old` are the directory, its `owner.json` and whether its mtime is
older than `staleMs`; `pc[p]` is the next file system call of process `p`. `TryLock`
are the callers with `timeoutMs = 0` (the sweep). `Faults` switches on deaths, critical
sections longer than the staleness window, and reuse of a dead owner's pid; no run
switches on the long critical sections. Removing a directory and its file is one step; Windows'
error codes are ignored.

A removal may fail (`RemoveFails`), and both callers swallow the error (`file-lock.ts:127,138`): the
directory stays, with its `owner.json` or, emptied, with a fresh mtime. `MaxFailures` bounds how
often, and that bound is an assumption of the two liveness properties. A takeover whose removal has
failed goes straight back to `mkdir`, past the deadline's test and the sleep (`:139`), so a caller
that meets a stale directory it can never remove (EACCES, EPERM) spins for ever, a try-lock
included; `ContenderLeaves` is false of such a directory.

### RunKernel

`journal[pr]` is the project's rows of `run_events` in sequence order; the sequence
number is the index, since counter, row, outbox row and projection are written by one
`BEGIN IMMEDIATE` transaction (`store.ts:216-247`). `proj[r]` has the state, version
and last sequence of `run_projections`. `pending` is the outbox. A command goes through
`pc`: `replay` and `current` are the reads of `transitionRun` (308-322), `prior` the read
of the key (193-200, 286-289), `commit` the transaction, which is `AnswerDuplicate`,
`AppendEvent` or `Refuse`. `Crash` loses a command between any two of these.

Event types are `run.prepared`, `run.transitioned`, `x_run_route_resolved` (it needs a
prepared run and changes no state) and `other` (no projection). Payloads, actors, traces
and timestamps are left out, but not what a fresh timestamp does: `AnswerDuplicate`
returns the recorded event only where the command's own read saw the row (`seen`), as
only then does the candidate take over its id and time. A transaction of an `other` event
may be refused freely (its cause or message may not be the run's). Not modelled: events
identified by an id of the caller's own, `appendTranscriptMessage`, `saveArtifactRef`.

`RunLifecycle` is the abstract specification: a run appears in `prepared` and walks the
table. `Lifecycle == INSTANCE RunLifecycle WITH state <- LifecycleState` maps projections
to it; `ImplementsLifecycle` is checked and proved.

`RunKernelRebuild` adds `Rebuild`, with the fold of a project's journal written as a
recursive function. `RunKernelOutbox` adds publishers that read a batch (ordered by
project and sequence, at most `Limit`) and then call and mark row by row; a call may fail
before or after it reached the consumer.

### RunLedger

`row` keeps state, retries, and of the meta document the stamps others decide by (`stamps`). A
call is `Select` (the tests on the row it read), `Update` (which names no state it expects), and
for `markState` `Reread` and `WriteSignal`. Calls whose tests fail throw and change nothing, so
`Select` requires them to pass. `recordChildPid` is a `patchMeta` here: the `child_pid` column is not
kept. A writer that dies takes no further step, so a death is a behaviour in which that writer
rests between two statements. `renewLease` and `recordSession` write columns of their own that this
module has not.

### Supervisor

One row, four agents that can have a worker (`dispatch`, the sweep's `revise`, a person's
`operator` revise, the `sweep`'s own re-dispatch), and one sweep. `at[a]` is the agent's place
in its driver and pipeline, `working` the living workers, `sw` the sweep with the row as its
query returned it. Time is three bits of the row (lease valid, heartbeat recent, quota reset
ahead) and the actions `LeaseExpires`, `BeatAges`, `QuotaResets`.

- `Settled` is the assumption on the clock: a lease, a heartbeat's grace and the recovery
  timeout outlast the steps that are a ledger call or two. Time passes while a worker works, a
  gate runs, a recovery or a salvage is waited for, and while the sweep is on its way to this
  row. With `"sleep"` in `Events` it passes anywhere.
- Ledger calls are atomic here; `RunLedger` has what that hides. One sweep runs at a time;
  `FileLock` has when that fails.
- Left out: rows of agentic sessions, progress pings, the guard on the sweep's own pid, pid
  reuse, the notes of a skip in meta, project scope, `abandon`. A revise that opens a row of its
  own leaves this one (`WorksApart`).
- `defaultResume` (session known) and `redispatchRun` are alternatives in `Recover`, since the
  model does not keep session ids; a kill always leads to a re-dispatch.

### ServeQueue and WebhookOutbox

An action is what the server's thread runs until its next await. `waiting`, `busy`, `active` and
`live` are the fields of `RunQueue` and the handles of `runs.ts`; `memo` is the map `runs`, `disk` the
`.run.json` files. A child's close handler (`ChildCloses`) and the `finally` of its job (`Finally`)
are two actions, since the process can die between them; `Turn` keeps everything else of the server
out of that gap. `Pump` starts at most one job: nothing waiting could start before the call, and a
call follows one submission or one freed slot. `Saturated` is what makes that enough, and is proved.

A delivery is the last line of its file, `record[j]`; `due` stands for `next_attempt_at`. A sweep
keeps what is left of its snapshot of `pendingRoots` (`todo`), the job it awaits (`at`) and the
attempts on the record it read (`base`): `AttemptAnswered` writes from that record, whatever the line
has become. An attempt is accepted, refused, or *lost*: the consumer has the message and the answer
does not arrive. `OutboxDies` may leave a torn line behind, which `readState` reads as no delivery.

### MultiTarget and MultiTargetPlan

`procs` are invocations of `nrv multi-target run`, `co[p]` what one has in memory, `saved`, `events` and
`proj` what the journal of each Run has, `lease` the lease table. A step is one synchronous call of a
port, or a check and the call that follows from it. Identity conflicts are modelled: a version or
an event journaled with another content throws and ends the command (`Throws`). `PlanNode` decides a
node and `Announce` journals it; `Record` journals a result and `Release` gives the lease back, since
kills come between them. `Dispatched` is the adapter's look at the result marker, `Surfaced` the
lease's last word on a result. `rivals` is a history variable: which dispatches of a node ran at once.

`MultiTargetPlan` writes the planner's loop as a recursive function and the reservation as
arithmetic on micro-dollars, with its reference definitions (`WavesAreOrdered`, `GrantsAreExact`)
beside it. The instance's initial states are plans, so one run checks them for all small inputs, and
`MultiTargetPlanProofs` proves them for all inputs. `Split` says at which place of its layer an
unsafe node goes (how many unsafe ids are no larger), which is what the code's sort does. `Reservable`
is what a compiled plan's decisions are: at most one synthesis, safe minimums that are not negative.
`StartWave` also takes a dispatch that a marker answers at once out of the rivals of others: only
dispatches that run are rivals.

### CanaryQueue

`state`, `routed`, `linked`, `started` and `exited` are what the Run Kernel and the conversations keep,
`pending`, `active` and `phase` what the server has in memory, `live` the children. Steps between which
only a death or a child can come (a spawn and its journal entry, an exit and the settling) are separate
actions behind `Turn`. A child asks the kernel for what it likes to move the Run it adopts to
(`ChildMoves`) and exits at any time; what the kernel refuses it changes nothing. `Verdicts` are the
final states a child's gate gives. `Boots` is a new server: `Recovered` says what each open Run becomes in
it, a start, a recovery or nothing.

The server reads a Run (`getRun`) and then asks for one transition or two (`transitionRun`). These are
steps of their own: the step that reads leaves in `call` what is to be asked, and each `Transition` is
accepted or refused by what the Run is by then, since a child writes the same database. A refusal
throws, and the call is over:

- in `settleAfterExit`, `settleCancelled` and a refused route, the catch of `drain` (`:411`) swallows it
  and the item leaves, the Run perhaps still open;
- `cancel` throws it on. Of a first start the item has already left the queue (`:367`) and the Run is
  rolled back without being read, so with a child of an earlier server at work on it the cancellation is
  lost and the Run goes on. Of a recovered item `requestCancel` comes first (`:374`): the item stays in the queue
  with its cancellation noted, and `runChild` settles it instead of starting a child (`:427`, `Withdrawn`);
- at a start it comes out of `recover` (`:473`), and nothing of that start remains (`CloseDead`).

`strays` is a history variable: the Runs queued while a child of theirs lives that the item does not
follow. Two children of one Run exist only then (section 4), and only then can anything move the Run
of an item whose own child is gone. `LeavesSettled` and `Served` except these Runs, because of them
the code does leave Runs open behind it. For all others it is proved that no child comes between the
read and the transitions. `asked` is what this server
was asked to cancel: `CancelKept` says that such a Run gets no child any more in this life of the
server, and one the kernel shows as cancelling in no other. A cancellation held only in memory (of a
Run that is `verifying` or `prepared`) does not survive a restart, and no property says it does.

## 3. Runs

| Run | Instance | Shows |
|---|---|---|
| `FileLock` | 3 processes, one a try-lock sweep, deaths, pid reuse and 2 failed removals, fair | `AloneWhileLive`, `NoStolenLock`, `OrphanReclaimed`, `ContenderLeaves` |
| `FileLockTakers` (violation) | 3 processes, deaths | two takers of an orphan can both hold it |
| `RunKernelConcurrent` | 2 interchangeable processes, 2 runs of one project, 1 shared key, targets running and failed, 3 events, rebuilds at any moment | `HistoryLegal`, `KeyRecordedOnce`, `AcknowledgedIsRecorded`, `ReplayReproduces`, `ProjectionIsHistory`, `ImplementsLifecycle` |
| `RunKernelOutbox` | 1 writer, 2 projects, 2 publishers, batches of 2, 2 events each | `NoEventLost`, `DeliveredInOrder` |
| `RunLedgerRaces` | 2 interchangeable writers, every call | `RetriesCounted`, `DecidedIsSignalled` |
| `RunLedgerFinal` (violation) | the same | `TerminalIsFinal` fails: the UPDATE names no state it expects |
| `SupervisorDeaths` | deaths of drivers and sweeps, `max_retries` 2 | `RetriesBounded`, `FinishedIsFinal` |
| `SupervisorRest` | fair; deaths of drivers, quotas, stubborn workers, unknown pids, sleep, `max_retries` 2 | `StalledIsTold`, `ComesToRest` |
| `SupervisorRejudged` (violation) | deaths of sweeps | `JudgedOnce` fails: an escalation is judged twice |
| `Serve` | 3 jobs, 2 sessions, caps 1 and 2, 1 webhook with 2 attempts, 2 sweeps, 1 death of the server, fair | `SessionAlone`, `Saturated`, `StartsInOrder`, `WaitingStarts`, `EndedStays` of the queue; `NoFalseVerdict`, `PendingIsSwept`, `HookAnswered` of the outbox |
| `MultiTarget` | every graph of 3 nodes and every reservation of up to 4 micros a node planned; 1 plan executed by 2 commands, 2 Runs (one retry), any 2 disturbances (kills, overlaps, lost leases) | `TypeOK`, `DependenciesFirst`, `CompletedIsDelivered`, `LeaseFences`, `WithinCap`, `PlanIsSound`, `NeverAgain` |
| `CanaryQueue` | 2 Messages (one explicit, one routed), 3 children a Run, 2 deaths of the server, fair | `QueuedOnce`, `LeavesSettled`, `CancelKept`, `NotRespawned`, `Served` |

Type correctness (`TypeOK`) of `FileLock`, `RunKernel`, `RunKernelOutbox`, `RunLedger`, `Supervisor`, `ServeQueue`,
`WebhookOutbox` and `CanaryQueue` is no property of a run: section 5 proves it for every instance. `MultiTarget` checks its own
as well, since it says of a dispatch that it answers only with a result's state.

Bounds, and why they are enough:

- Two processes are enough for every race between one command's read and another's write;
  three are needed for two takers of a third one's lock, and are there.
  The two safety properties of the run `FileLock` speak of behaviours in which nobody has died and no removal has
  failed yet (`Undisturbed`): a lock left behind is taken over, and `FileLockTakers` has what that can do to them.
  Two failed removals are one of each caller, or two of one takeover.
- `MaxEvents` bounds a project's journal. Three events are a preparation and two transitions
  decided from one read of it, which is what `HistoryLegal` forbids, or the same key used for two
  runs; the two targets are a step forward and a step that ends a run, and the theorems of
  `RunKernelProofs` hold for every set of targets. The bound is a guard of `AppendEvent`; a command that
  meets it waits, and may die.
- Two processes that only compare equal or different are interchangeable in the invariants of
  `RunKernelConcurrent` and `RunLedgerRaces`, which have no liveness property, so `SYMMETRY` is sound there.
- `MaxRetried` bounds when an `incrementRetries` may begin: none starts once that many were made, and two that began before both count; `MaxRetries` is `max_retries`, whose
  default is 2 (`run-ledger.ts:799`).
- `Limit` 2 with four possible rows makes batches overlap and go stale.
- Three jobs in two sessions are the least in which a job waits for its session while another
  could start; two sweeps overlap, and two attempts are the least with one that is not the last.
- `MultiTarget` runs one plan (two nodes at once and a third after both; one Gauntlet node whose grant can
  be exceeded, one support node), since what the coordinator does to a node depends on its wave, its
  dependencies and its kind only. `MaxVersion` bounds how often a Run is resumed. `MaxDisturbances` bounds overlapping commands, kills
  and expired leases together; any two of them meet in every pair of windows between two port calls.
- `MaxSpawns` exceeds `MaxDeaths`, so that the bound never stops the canary queue: each life of the server
  starts at most one child for a Run. Two deaths are enough for two children of one Run beside an item that
  follows neither. `Verdicts` is one state in the run: the queue only asks whether a state is terminal.
  The theorems have any.
- Deadlock is checked in the kernel's runs and `RunLedgerRaces`. Where processes die (the lock, the
  servers, the coordinator) or all work is done (a finished run, a plan, served jobs) the system may
  stop, and the cfg says so.

Fairness:

- `FileLock!FairSpec`: weak fairness of each living process's own next step (the operating system
  schedules it), and of the clock (a directory ages, a deadline passes). Nobody is assumed to
  start, to die or to have a pid reused.
- `Supervisor!FairSpec`: drivers that are not killed go on and workers end (the runtimes have
  timeouts of their own), the sweep is started again and again (`nrv supervisor watch`, or the
  lazy sweep each command starts, `supervisor.ts:1087`), and the clock passes. A person is not
  assumed to start a revise. No fairness on beats, pid discovery or deaths.
- `ServeQueue!FairSpec`: a child ends (runtimes have timeouts), the server's thread goes on and is
  started again when it died (a service manager does), the timer sweeps and delays pass. Nobody has to
  submit, ask or cancel, and no consumer has to accept.
- `CanaryQueue!FairSpec`: the server goes on with its queue and each child exits at last. Nobody has to
  submit, cancel, or start a server again.
- `MultiTarget` has none: a Run poisoned by an identity conflict (section 4) stays open for ever.

## 4. Findings

Three violation runs each show a behaviour of the code against a sentence of the repository
(`PROJECT.json` has the quotations):

- `FileLockTakers`: two takers of a dead holder's lock can both get it. `rmSync` removes whatever
  directory is at the path, also the one the other taker has just made.
- `RunLedgerFinal`: `markState` tests the row it read and updates whatever it has become, so a
  writer that read the row while it was `dispatched` moves it to `running` after another has abandoned it.
- `SupervisorRejudged`: the salvage stamp is looked at only on a row in `stalled`. A sweep that
  dies at the salvage's gate leaves the row `verifying` or `gated`, and the next one judges it again.

Seen while modelling, in the modules but without a run of their own:

- the sweep's lock goes stale after 30 minutes (`supervisor.ts:788`), one recovery may take 50 (`:159`);
  this is what `"slow"` in `FileLock`'s `Faults` stands for, and why the lock's theorems exclude it;
- the same keyed command issued by two processes at once is answered with a conflict in the slower
  one (`store.ts:216`), where `docs/architecture/executable-requirements.md:23` promises idempotence;
- `patchMeta` and `markState` write back the whole meta document from an earlier read
  (`run-ledger.ts:1005`), so a concurrent stamp can be lost; `abandon` writes no sentinel (`:1029`,
  against `:711`), so an old one stays, which `DecidedIsSignalled` (some sentinel is there) cannot see;
- a sweep killed between the stamp (`supervisor.ts:1028`) and the notification (`:1060-1070`) leaves a
  run nobody was told of, which is why `StalledIsTold` is checked and proved for sweeps that are not killed;
- rows are judged by the lease they had when the sweep began (`:832`); the stamp is written before the
  salvage answers `live_writer` (`:721`), so that such a row is not looked at again; a killed
  worker is not waited for before its re-dispatch (`:979`);
- the comment at `supervisor.ts:472` ("revise.ts runs without the ledger here") is out of date since
  `revise.ts:278-300` takes the row over; the model follows the code;
- serve: a job cancelled while it waits stays in the queue and is started all the same
  (`queue.ts:38-44`, against "its own terminal state", `runs.ts:232`), so `EndedStays` excepts waiting jobs;
  a server that dies between a job's last `.run.json` and its `enqueue` never registers the webhook,
  although `webhook-outbox.ts:110-112` speaks of it coming back and re-adopting the run; children of a dead
  server go on where `runs.ts:164` says that none survives, and are outside `SessionAlone`, which counts the
  children of this server; overlapping sweeps can attempt more than
  `MAX_ATTEMPTS` times and can write `pending` over `delivered` or `abandoned` (`:73` "stays there"); a torn
  last line is never adopted;
- multi-target: an event journaled with two contents makes every later command on the Run throw,
  where `scripts/multi-target.ts:523` says to repeat the command; a second command on a running plan
  stalls the nodes of the first (the default owner is host:pid, so a resumed `running` node is always
  stalled); a kill between the retry's `createRun` (`:442`) and its first snapshot (`:510`) makes the next
  command start the new Run from nothing, delivered nodes included, which `NeverAgain` excepts; a
  resumption with the same `--owner` dispatches a node whose orphaned dispatch still runs;
- the canary queue: a restart while a spawned child has not yet taken up its prepared Run queues
  the Run as a first start, and two children adopt it (`agent-x-canary-queue.ts:339`), which
  `NotRespawned` excepts; of two such children the one that lives on can move the Run between a read
  and a transition of the settling (`:516`, `:524`), whose refusal is swallowed, so that an item leaves an open
  Run behind where `:411` says that "the kernel already holds an honest terminal state" (excepted by `strays`);
  `cancel` rolls a queued first start back unread (`:368`), and throws, its item gone, where such a child has
  taken the Run up; a server that dies between a journaled exit and the settling of a
  cancelling Run leaves it cancelling (`docs/architecture/glance-execution.md:83` says the queue closes
  it); one that dies between a refused route and its `rolled_back` executes the refused Run after the
  restart (`:302-306`); one that dies between a spawn and its `child_started` skips the Run for ever once it
  runs (`:463`).

## 5. Proofs

| Theorem | Argument |
|---|---|
| `FileLockProofs!Exclusive`, `NeverStolen` | assuming no slow holders, and as long as nobody has died and no removal has failed (`Undisturbed`). `SafeInv`: the directory exists exactly while somebody holds it, its owner is alive, and nobody is about to remove it; mutual exclusion follows from mkdir. |
| `RunKernelProofs!KeysRecordedOnce` | the invariant is inductive: the transaction looks the key up again. |
| `RunKernelProofs!JournalIsLegal`, `ProjectionsFollow` | `HistoryInv` = types, legal history and projection-is-history together. The history alone is not inductive: a step's guard speaks of the projection, so one needs that the projection is the end of the history. |
| `RunKernelProofs!StoreImplementsLifecycle` | initial states map to initial states; `AppendEvent` maps to `Prepare`, `Transition` or a stutter, and every other action stutters. |
| `RunKernelProofs!AcknowledgedRecorded` | every step that returns leaves the command in the journal (`ReturnsRecorded`), and journals only grow (`RecordedStays`). |
| `RunKernelProofs!ReplayIsExact`, `RebuildsUnnoticed` | `ReplayInv`: for each project there is a sequence of projections, one after each row, that begins empty, in which each row applies to what the rows before it left, and which ends in the stored ones. An append extends it by one. The replay's recursive function goes through exactly that sequence (`Reproduces`), so its tests never fail and `Rebuild` stutters: the store with rebuilds implements the store without, and inherits its theorems. |
| `RunKernelProofs!EventsAreKept`, `DeliveredOrdered` | `OutboxInv`: only committed rows are pending, a row between `publish` and its UPDATE was delivered, and whatever precedes a row of a batch in its project was delivered or is ahead of it in the batch (`InOrder`). `NoEventLost` is what makes a fresh batch in order, so neither property is inductive alone. |
| `RunLedgerProofs!RetriesAreCounted` | the UPDATE computes the count from the row it finds. |
| `RunLedgerProofs!DecidedSignalled` | `SignalPromised`: while the row is decided, a sentinel exists or a writer is on its way to write one. |
| `SupervisorProofs!FinishedStays` | every step keeps a terminal row's state; `Around` sorts the steps outside the sweep into the few things they do to the row. |
| `SupervisorProofs!RetriesAreBounded` | `RetryInv`: while a sweep judges, the row's retries are those of its snapshot (only sweeps count them), and a sweep about to increment has found room. |
| `SupervisorProofs!StalledAreTold` | assuming sweeps are not killed. `TellInv`: a stalled, stamped row that nobody was told of has a sweep on its way to `notify`. |
| `ServeProofs!OneRunPerSession`, `NoIdleSlot` | `PoolInv`: the active count is the number of living and settling jobs, their sessions are the busy ones and are distinct, and nothing that waits can start. Each action calls `Pump` from a state with at most one startable place (`PumpKeeps`). |
| `ServeProofs!SessionsInOrder` | `Chosen` is the least startable place, and an earlier place of the same session would be startable too. |
| `ServeProofs!AnswersAreFinal` | `Answer` changes only where a memo does; a closing or starting job is one whose answer was not final, unless it waits. |
| `ServeProofs!VerdictsAreTrue`, `NothingOwedIsLost` | `OutboxInv`: attempts on a record, and on the record a sweep read, are at most those counted; a sweep's `todo` is due, so no sweep lowers the count of another. |
| `MultiTargetProofs!DependenciesAreFirst` | `DepsInv`: what a saved snapshot calls delivered was journaled, what a coordinator's memory calls delivered was too or is the next thing it journals, and a job's dependencies were. Deliveries only grow, so whoever overlaps a coordinator cannot undo what it read. |
| `MultiTargetProofs!CompletedDelivered` | `WholeInv` adds to `DepsInv` that every wave a coordinator has left behind has only ended nodes, and that what is not in `todo` of its wave is started or ended. That the waves hold every node of an executed plan is `WavesOrdered`, as `compileManifest` refuses cycles. |
| `MultiTargetProofs!LeasesFence` | `FenceInv`: two coordinators at work have different owners; of two dispatches that overlapped in one Run, once one is surfaced as delivered the other coordinator no longer holds the lease and has not delivered (`Fenced`). Only who holds the lease can surface a delivery, one owner at a time holds it, and nobody regains a lease in the middle of a wave. |
| `MultiTargetProofs!NeverRunAgain` | `ChainInv`: as long as no two commands overlapped, at most one coordinator is at work, on the chain's last Run; the projection of a Run and the coordinator's snapshot have every delivery that the Run journaled, a retried Run's those of the Run before it too, and what a wave still has to plan is not among them. |
| `MultiTargetProofs!CostsWithinCap` | `CapInv`: every projection and every snapshot in memory has its Gauntlet nodes at most at their grants unless they failed (`Afforded`), and a failed node is not decided again in its wave (`Replannable`). With `GrantsExact` and monotony of sums the whole is within the cap. |
| `MultiTargetProofs!PlanSound` | `WavesOrdered` and `GrantsExact` for the plan of the behaviour. |
| `MultiTargetPlanProofs!WavesOrdered` | Kahn's loop by induction on its turns (`Kahn`): a degree counts the dependencies not laid yet, the nodes of degree zero are laid or in the frontier, each turn lays at least one. After as many turns as there are nodes the frontier is empty, so what is left out has a dependency that is left out, and a graph without cycles leaves out none. The split of a layer and the concatenation of the splits keep the order (`SplitLayer`, `LayeredConcat`). |
| `MultiTargetPlanProofs!SharesAreExact`, `GrantsExact` | the floors leave less over than there are nodes (`Division`), and in a finite linear order exactly `k` elements have fewer than `k` before them (`Ranks`), so that the extra micros are exactly what was left; sums are counts of units (`TotalIsUnits`). |
| `CanaryQueueProofs!OnceQueued`, `TypeCorrect` | `Inv`: types; what a server that is down has (`Down`); how many children a Run was given and how many were journaled (`Followed`); for each waiting and active item the kernel states its Run can be in (`WaitsWell`, `ActiveWell`); what a call under way may ask (`CallWell`); that no item of a stopped Run can lead to a child (`Stops`). |
| `CanaryQueueProofs!NoneRespawned`, `CancelsKept` | only `Spawn` adds a child, and by `ActiveWell` it does so for an item that is a first start, or whose last child is gone; by `Stops` a Run whose cancellation was asked for, or that is cancelling, is only waited for or settled (`SpawnedFor`). That a prepared Run with a cancellation asked for is still held (`AskedWell`) is why submitting its Message again does not queue it. |
| `CanaryQueueProofs!SettledOnLeave` | `Alone`, together with `Inv`: no child of a Run outside `strays` lives but the one its item follows, none where the item follows none, and what a call still asks on letting go takes the Run from its present state to a terminal one (`Ends`). So the kernel accepts every transition of such a call; a child's step is impossible while one is under way. One lemma per action (`Kept`). |
| `TypeCorrect` in each (`OutboxTypeCorrect`) | type correctness, used by all the others. In `MultiTargetProofs` it is `Typed` of `DepsInv` and `RestTyped`. |

The named assumptions are those of the modules (`FileLockAssumption`, `RunKernelAssumption`, `LedgerAssumption`,
`SupervisorAssumption`, `ServeAssumption`, `MultiTargetAssumption`, `CanaryAssumption`, and `OutboxAssumption` of each outbox)
and, where the table says "assuming", an ASSUME of the theorem itself; section 4 says what happens without it.
`MultiTargetAssumption` takes from the compiler of plans that the nodes are finitely many, that a plan is
`Reservable`, and that a plan that is executed has no cycle (`plan-compiler.ts:411`).

Induction over data. The library's induction theorems take a predicate as a parameter and cannot be used here, so
`MultiTargetPlanProofs` derives induction over naturals and over finite sets in a form that takes a *set*
(`NatInductionSet`, `SetInduction`, from the well-foundedness of `<`). With it a recursive function is shown to
exist (`SomeTurns`, `SomeFlatten`), then to keep an invariant; a fold over a set is shown to be the cardinality of
a set (`TotalIsUnits`), which does not depend on the order of the fold. `RunKernelProofs` does the same for the
replay, from the library's well-founded minimum (`ViewIsUnique`).

Every safety invariant and every action property that a passing run checks is stated by a theorem. Model-checked
only: liveness (`OrphanReclaimed`, `ContenderLeaves`, `ComesToRest`, `HookAnswered`, `WaitingStarts`, `Served`), which
needs fairness and ENABLED and is out of this prover's reach.

## 6. Not modelled

Why a component is left out is noted with it in `PROJECT.json`. Routing, gates' rules, Glance,
installers and catalogs are data and input/output. The following have protocols of their own and
are what the models would be extended by:

1. `RunBudget`, the session store and `Cascade`: several processes with copies of one balance, a JSON
   file rewritten from an unlocked read, handoffs against shared cooldowns and spend.
2. The Gauntlet's controller (rounds of candidates, evaluations and revisions of one Run) and the
   conversations over `RunKernel`.
3. Proofs: that a salvage reads alone where workers obey SIGTERM.

## 7. Running

    tlc -workers 2 -config RunKernelConcurrent.cfg MCRunKernel
    tlapm SupervisorProofs.tla

`PROJECT.json` lists each run's module and cfg, what each definition models (`map`), and the mutants.
