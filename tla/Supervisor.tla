----------------------------- MODULE Supervisor -----------------------------
(***************************************************************************)
(* One run of the dispatch ledger and everything that drives it: the       *)
(* dispatcher with its worker and heartbeat sidecar, the supervisor's      *)
(* sweep (supervisor.ts), the `nrv revise` the sweep resumes the run with, *)
(* a revise a person starts, and the delivery pipeline each of them walks. *)
(*                                                                         *)
(* Every call of the ledger is one step (RunLedger has the steps inside    *)
(* it).  The sweep works on the row as its first query returned it: the    *)
(* recovery of the rows before it in the list may take an hour.  One sweep *)
(* runs at a time (FileLock says when the lock grants that).               *)
(***************************************************************************)
EXTENDS Naturals, LedgerStates

CONSTANTS MaxRetries,   \* max_retries of the row
          Events        \* what else may happen: subset of EventKinds

EventKinds == {"dispatcherDies",  \* a dispatcher or a revise is killed
               "sweepDies",       \* the sweep is killed
               "operator",        \* a person runs nrv revise on the run, once
               "quota",           \* a runtime stops on a spent quota
               "stubborn",        \* a worker outlives SIGTERM for a while
               "hidden",          \* a sidecar need not find its worker's pid
               "sleep"}           \* the machine sleeps, between any two steps

ASSUME SupervisorAssumption ==
    /\ MaxRetries \in Nat
    /\ Events \subseteq EventKinds

\* The processes that launch workers for the run. A worker has the name of the
\* agent that launched it.
Agents == {"dispatch",   \* nrv dispatch --exec
           "revise",     \* the revise.ts a sweep spawned
           "operator",   \* the revise.ts a person started
           "sweep"}      \* the sweep itself: a re-dispatch, or a salvage

NoOne == "none"

VARIABLES row,      \* the run's ledger row
          at,       \* where each agent is
          working,  \* the workers that are alive
          previous, \* the dispatcher a revise found on the row and gives back
          sw,       \* the sweep: its step, the row it read, the job it waits for
                    \* and what that came to
          salvage,  \* what the last salvage came to, until the run runs again
          told      \* a human was told of that escalation

agentVars == <<at, working, previous>>
sweepVars == <<sw, salvage, told>>
vars == <<row, agentVars, sweepVars>>

\* lease: lease_expires_at against the clock; beat: heartbeat_at is no further
\* back than the stall threshold and its grace; quota: quota_reset_at is ahead.
Row == [state : States, retries : Nat, lease : {"valid", "expired"}, beat : BOOLEAN,
        pid : Agents \cup {NoOne}, dispatcher : Agents \cup {NoOne},
        salvaged : BOOLEAN, stall : BOOLEAN, quota : BOOLEAN]

Stages == {"off", "takeover", "mark", "launch", "work", "verify", "gate", "decide"}

SweepSteps == {"off", "judge", "kill", "markFailed", "increment", "toRunning", "hop",
               "recover", "await", "finalize", "escalate", "stamp", "salvage",
               "salvaging", "restall", "notify"}

\* What a recovery comes to.
Results == {"delivered", "withheld", "failed", "stalled"}

TypeOK ==
    /\ row \in Row
    /\ at \in [Agents -> Stages]
    /\ working \subseteq Agents
    /\ previous \in [Agents -> Agents \cup {NoOne}]
    /\ sw \in [pc : SweepSteps, snap : Row, job : {"revise", "sweep"}, result : Results]
    /\ salvage \in {"none", "live_writer", "nothing", "judged"}
    /\ told \in BOOLEAN

\* nrv dispatch has opened the row.
Opened == [state |-> "dispatched", retries |-> 0, lease |-> "valid", beat |-> TRUE,
           pid |-> NoOne, dispatcher |-> "dispatch",
           salvaged |-> FALSE, stall |-> FALSE, quota |-> FALSE]

NoSweep == [pc |-> "off", snap |-> Opened, job |-> "sweep", result |-> "failed"]

Init ==
    /\ row = Opened
    /\ at = [a \in Agents |-> CASE a = "dispatch" -> "mark"
                              [] a = "operator" /\ "operator" \in Events -> "takeover"
                              [] OTHER -> "off"]
    /\ working = {}
    /\ previous = [a \in Agents |-> NoOne]
    /\ sw = NoSweep
    /\ salvage = "none"
    /\ told = FALSE

Terminal(r) == r.state \in TerminalStates

\* ledgerTry(markState): an illegal transition throws, and the throw is swallowed.
Tried(r, to) == IF CanTransition(r.state, to) THEN [r EXCEPT !.state = to] ELSE r

\* A run that is marked running again has been neither salvaged nor reported since.
ForgetEscalation ==
    IF row'.state = "running" /\ row.state # "running"
    THEN salvage' = "none" /\ told' = FALSE
    ELSE UNCHANGED <<salvage, told>>

\* A process that recorded itself on the row is alive (and is that process).
DriverAlive(a) == a # NoOne /\ at[a] \notin {"off", "takeover"}

-----------------------------------------------------------------------------
(* Dispatchers *)

Move(a, stage) == at' = [at EXCEPT ![a] = stage]

\* The sweep learns what the job it waits for came to.
Report(a, result) ==
    sw' = IF sw.pc = "await" /\ sw.job = a THEN [sw EXCEPT !.result = result] ELSE sw

\* revise.ts records itself as the row's dispatcher before it moves the row.
TakeOver(a) ==
    /\ at[a] = "takeover"
    /\ ~Terminal(row)
    /\ row' = [row EXCEPT !.dispatcher = a]
    /\ previous' = [previous EXCEPT ![a] = row.dispatcher]
    /\ Move(a, "mark")
    /\ UNCHANGED <<working, sweepVars>>

\* A revise that finds the run finished works on a row of its own.
WorksApart(a) ==
    /\ at[a] = "takeover"
    /\ Terminal(row)
    /\ Move(a, "off")
    /\ \E result \in Results : Report(a, result)
    /\ UNCHANGED <<row, working, previous, salvage, told>>

\* A revise moves verifying and gated to running through failed.
MarkRunning(a) ==
    /\ at[a] = "mark"
    /\ row' = IF a = "dispatch" \/ row.state = "running" \/ CanTransition(row.state, "running")
              THEN Tried(row, "running") ELSE Tried(row, "failed")
    /\ Move(a, IF a = "dispatch" \/ row'.state = "running" THEN "launch"
               ELSE IF Terminal(row) THEN "off" ELSE "mark")
    /\ ForgetEscalation
    /\ UNCHANGED <<working, previous, sw>>

\* runHeadless: the worker and its heartbeat sidecar start.
Launch(a) ==
    /\ at[a] = "launch"
    /\ working' = working \cup {a}
    /\ Move(a, "work")
    /\ UNCHANGED <<row, previous, sweepVars>>

WorkerExits(a) ==
    /\ a \in working
    /\ working' = working \ {a}
    /\ UNCHANGED <<row, at, previous, sweepVars>>

\* The sidecar runs while its dispatcher waits for the worker and the run is open.
SidecarRuns(a) ==
    /\ at[a] = "work" /\ a \in working
    /\ ~Terminal(row) /\ ~(row.state = "stalled" /\ row.stall)

RecordPid(a) ==
    /\ SidecarRuns(a)
    /\ row.pid # a
    /\ row' = [row EXCEPT !.pid = a]
    /\ UNCHANGED <<agentVars, sweepVars>>

\* renewLease on a sign of life.
Beat(a) ==
    /\ SidecarRuns(a)
    /\ row' = [row EXCEPT !.lease = "valid", !.beat = TRUE]
    /\ UNCHANGED <<agentVars, sweepVars>>

\* confirmStall and endStalledWorker: the worker has shown nothing for longer than
\* the stall threshold. A row already stalled is left as it is.
ConfirmStall(a) ==
    /\ SidecarRuns(a)
    /\ row.lease = "expired"
    /\ row' = IF row.state = "stalled" THEN row
              ELSE [row EXCEPT !.state = "stalled", !.stall = TRUE, !.salvaged = TRUE]
    /\ working' = working \ {a}
    /\ UNCHANGED <<at, previous, sweepVars>>

\* A lease, and the time a recovery is given, outlast the steps that are a call or
\* two of the ledger; what takes its time is a worker, a gate, a recovery, a salvage,
\* and for a sweep that judges, the rows before this one.
Settled ==
    \/ "sleep" \in Events
    \/ /\ sw.pc \in {"off", "judge", "await", "salvaging"}
       /\ \A a \in Agents : /\ \/ at[a] \in {"off", "work", "gate"}
                               \/ a = "operator" /\ at[a] = "takeover"
                            /\ at[a] = "work" => a \in working
                            /\ SidecarRuns(a) => row.pid = a \/ "hidden" \in Events

\* The agent is through; a revise gives the row back to the dispatcher it found.
\* r is the row as the agent leaves it.
End(a, r, result) ==
    /\ Move(a, "off")
    /\ row' = IF a \in {"revise", "operator"} /\ ~Terminal(r) /\ r.dispatcher = a
              THEN [r EXCEPT !.dispatcher = previous[a]] ELSE r
    /\ previous' = [previous EXCEPT ![a] = NoOne]
    /\ Report(a, result)
    /\ UNCHANGED <<working, salvage, told>>

\* recordQuotaWait
QuotaWait(r) == IF Terminal(r) THEN r ELSE [Tried(r, "failed") EXCEPT !.quota = TRUE]

\* The worker has ended and its dispatcher goes on: a confirmed stall ends the
\* attempt; a result is judged; an error marks the run failed and what it left is
\* judged all the same, except by a re-dispatch, whose sweep marks the row later.
Return(a) ==
    /\ at[a] = "work" /\ a \notin working
    /\ IF row.state = "stalled" /\ row.stall
       THEN End(a, row, "stalled")
       ELSE \/ Move(a, "verify") /\ UNCHANGED <<row, working, previous, sweepVars>>
            \/ /\ a # "sweep"
               /\ row' = Tried(row, "failed")
               /\ Move(a, "verify")
               /\ UNCHANGED <<working, previous, sweepVars>>
            \/ End(a, IF a = "sweep" THEN row ELSE Tried(row, "failed"), "failed")
            \/ /\ "quota" \in Events
               /\ End(a, IF a = "sweep" THEN [row EXCEPT !.quota = TRUE] ELSE QuotaWait(row), "failed")

\* The process is killed; its worker may go on without it.
Dies(a) ==
    /\ "dispatcherDies" \in Events
    /\ a # "sweep" /\ at[a] # "off"
    /\ Move(a, "off")
    /\ working' \in {working, working \ {a}}
    /\ previous' = [previous EXCEPT ![a] = NoOne]
    /\ UNCHANGED <<row, sweepVars>>

-----------------------------------------------------------------------------
(* The delivery pipeline: verify, gate, deliver or withhold *)

Verify(a) ==
    /\ at[a] = "verify"
    /\ row' = Tried(row, "verifying")
    /\ Move(a, "gate")
    /\ UNCHANGED <<working, previous, sweepVars>>

\* No deliverable passes verification; or the gate came to an answer; or it, or a
\* correction, stopped on a spent quota (a salvage has neither judge nor correction).
Gate(a) ==
    /\ at[a] = "gate"
    /\ \/ End(a, Tried(row, "failed"), "failed")
       \/ /\ row' = Tried(row, "gated")
          /\ Move(a, "decide")
          /\ UNCHANGED <<working, previous, sweepVars>>
       \/ /\ "quota" \in Events
          /\ a = "sweep" => sw.pc # "salvaging"
          /\ End(a, QuotaWait(row), "failed")

Decide(a) ==
    /\ at[a] = "decide"
    /\ \E result \in {"delivered", "withheld"} : End(a, Tried(row, result), result)

-----------------------------------------------------------------------------
(* The clock *)

LeaseExpires ==
    /\ row.lease = "valid"
    /\ Settled
    /\ row' = [row EXCEPT !.lease = "expired"]
    /\ UNCHANGED <<agentVars, sweepVars>>

BeatAges ==
    /\ row.lease = "expired" /\ row.beat
    /\ Settled
    /\ row' = [row EXCEPT !.beat = FALSE]
    /\ UNCHANGED <<agentVars, sweepVars>>

QuotaResets ==
    /\ row.quota
    /\ row' = [row EXCEPT !.quota = FALSE]
    /\ UNCHANGED <<agentVars, sweepVars>>

-----------------------------------------------------------------------------
(* The sweep *)

\* Past its judgement the sweep uses only the pid of the row it read.
Step(pc) == sw' = [sw EXCEPT !.pc = pc, !.snap = IF pc = "kill" THEN @ ELSE Opened]

\* The row's sweep is over, or one of its ledger calls threw.
Leave == sw' = NoSweep

\* findNonTerminal: the sweep keeps the row as it is now.
SweepBegin ==
    /\ sw.pc = "off"
    /\ ~Terminal(row)
    /\ sw' = [sw EXCEPT !.pc = "judge", !.snap = row]
    /\ UNCHANGED <<row, agentVars, salvage, told>>

\* dispatcherOwnsStall: only the dispatcher's life is looked up now.
DispatcherOwns(r) == r.beat /\ DriverAlive(r.dispatcher)

WorkerAlive(r) == r.pid # NoOne /\ r.pid \in working

\* Mutant: one attempt more than max_retries.
ExhaustedLate(r) == r.retries > MaxRetries

Exhausted(r) == r.retries >= MaxRetries

\* A human, or the orchestrating agent, owns the row.
Owned(r) == r.state = "stalled" /\ r.salvaged

\* sweepOne, on the row it was given: leave it to whoever drives it, ...
JudgeSkip ==
    LET r == sw.snap IN
    /\ sw.pc = "judge"
    /\ \/ Owned(r)
       \/ /\ r.state # "stalled"
          /\ \/ r.lease = "valid"
             \/ DispatcherOwns(r)
             \/ ~WorkerAlive(r) /\ r.quota
    /\ Leave
    /\ UNCHANGED <<row, agentVars, salvage, told>>

\* The row is the sweep's to act on.
Expired(r) == r.state # "stalled" /\ r.lease = "expired" /\ ~DispatcherOwns(r)

\* ... extend the lease of a live worker whose files move, ...
JudgeGrace ==
    /\ sw.pc = "judge"
    /\ Expired(sw.snap) /\ WorkerAlive(sw.snap)
    /\ row' = IF Terminal(row) THEN row ELSE [row EXCEPT !.lease = "valid", !.beat = TRUE]
    /\ Leave
    /\ UNCHANGED <<agentVars, salvage, told>>

\* ... or go for the worker, recover the orphan, or escalate.
JudgeAct ==
    LET r == sw.snap IN
    /\ sw.pc = "judge"
    /\ \/ r.state = "stalled" /\ ~Owned(r) /\ Step("escalate")
       \/ Expired(r) /\ WorkerAlive(r) /\ Step("kill")
       \/ /\ Expired(r) /\ ~WorkerAlive(r) /\ ~r.quota
          /\ IF Exhausted(r) THEN Step("escalate")
             ELSE sw' = [NoSweep EXCEPT !.pc = "increment", !.job = "revise"]
    /\ UNCHANGED <<row, agentVars, salvage, told>>

\* SIGTERM to the ledgered pid
Kill ==
    /\ sw.pc = "kill"
    /\ working' \in {working \ {sw.snap.pid}} \cup (IF "stubborn" \in Events THEN {working} ELSE {})
    /\ Step("markFailed")
    /\ UNCHANGED <<row, at, previous, salvage, told>>

\* The row is read again, and its retries decide.
MarkFailed ==
    /\ sw.pc = "markFailed"
    /\ row' = Tried(row, "failed")
    /\ IF Terminal(row) THEN Leave
       ELSE Step(IF Exhausted(row) THEN "escalate" ELSE "increment")
    /\ UNCHANGED <<agentVars, salvage, told>>

\* incrementRetries throws on a terminal row.
Increment ==
    /\ sw.pc = "increment"
    /\ IF Terminal(row) THEN Leave /\ UNCHANGED row
       ELSE Step("toRunning") /\ row' = [row EXCEPT !.retries = @ + 1]
    /\ UNCHANGED <<agentVars, salvage, told>>

\* toRunning: directly, or through failed.
ToRunning ==
    /\ sw.pc = "toRunning"
    /\ IF Terminal(row) THEN Leave /\ UNCHANGED row
       ELSE IF row.state = "running" \/ CanTransition(row.state, "running")
       THEN Step("recover") /\ row' = [row EXCEPT !.state = "running"]
       ELSE Step("hop") /\ row' = Tried(row, "failed")
    /\ ForgetEscalation
    /\ UNCHANGED agentVars

Hop ==
    /\ sw.pc = "hop"
    /\ IF CanTransition(row.state, "running")
       THEN Step("recover") /\ row' = [row EXCEPT !.state = "running"]
       ELSE Leave /\ UNCHANGED row
    /\ ForgetEscalation
    /\ UNCHANGED agentVars

\* defaultResume and redispatchRun: a session is continued by revise.ts; without
\* one, or with a live worker killed, the sweep dispatches again itself, unless the
\* row names no prompt or paths.
Recover ==
    /\ sw.pc = "recover"
    /\ \/ /\ sw.job = "revise" /\ at["revise"] = "off"
          /\ Move("revise", "takeover")
          /\ Step("await")
       \/ /\ Move("sweep", "launch")
          /\ sw' = [NoSweep EXCEPT !.pc = "await"]
       \/ Step("finalize") /\ UNCHANGED at
    /\ UNCHANGED <<row, working, previous, salvage, told>>

\* spawnSync returns with the exit code, ...
Await ==
    /\ sw.pc = "await"
    /\ at[sw.job] = "off"
    /\ Step("finalize")
    /\ UNCHANGED <<row, agentVars, salvage, told>>

\* ... or kills revise.ts at RESUME_TIMEOUT_MS; its worker goes on.
ResumeTimesOut ==
    /\ sw.pc = "await" /\ sw.job = "revise"
    /\ at["revise"] # "off"
    /\ Settled
    /\ Move("revise", "off")
    /\ previous' = [previous EXCEPT !["revise"] = NoOne]
    /\ Step("finalize")
    /\ UNCHANGED <<row, working, salvage, told>>

\* Mutant: the recovery's outcome is written whatever the row has become.
FinalizeBlindly ==
    /\ sw.pc = "finalize"
    /\ row' = IF row.state = "stalled" /\ row.stall THEN row ELSE [row EXCEPT !.state = sw.result]
    /\ Leave
    /\ UNCHANGED <<agentVars, salvage, told>>

\* finalize: the pipeline has usually moved the row already.
Finalize ==
    /\ sw.pc = "finalize"
    /\ row' = IF (row.state = "stalled" /\ row.stall) \/ row.state = sw.result THEN row
              ELSE IF CanTransition(row.state, sw.result) THEN [row EXCEPT !.state = sw.result]
              ELSE Tried(row, "failed")
    /\ Leave
    /\ UNCHANGED <<agentVars, salvage, told>>

-----------------------------------------------------------------------------
(* escalate *)

Escalate ==
    /\ sw.pc = "escalate"
    /\ row' = Tried(row, "stalled")
    /\ IF Terminal(row) THEN Leave /\ UNCHANGED told
       ELSE Step("stamp") /\ told' = FALSE
    /\ UNCHANGED <<agentVars, salvage>>

\* Mutant: the stamp is left to the end of the salvage, and forgotten there.
StampNothing ==
    /\ sw.pc = "stamp"
    /\ Step("salvage")
    /\ UNCHANGED <<row, agentVars, salvage, told>>

\* meta.salvaged, before the salvage runs
StampSalvaged ==
    /\ sw.pc = "stamp"
    /\ row' = [row EXCEPT !.salvaged = TRUE]
    /\ Step("salvage")
    /\ UNCHANGED <<agentVars, salvage, told>>

\* salvageStalledRun: not beside a live writer; nothing to judge; or the pipeline.
Salvage ==
    /\ sw.pc = "salvage"
    /\ IF WorkerAlive(row)
       THEN salvage' = "live_writer" /\ Step("restall") /\ UNCHANGED at
       ELSE \/ salvage' = "nothing" /\ Step("restall") /\ UNCHANGED at
            \/ salvage' = "judged" /\ Step("salvaging") /\ Move("sweep", "verify")
    /\ UNCHANGED <<row, working, previous, told>>

Salvaged ==
    /\ sw.pc = "salvaging"
    /\ at["sweep"] = "off"
    /\ Step("restall")
    /\ UNCHANGED <<row, agentVars, salvage, told>>

\* An escalated run is never left looking recoverable.
Restall ==
    /\ sw.pc = "restall"
    /\ row' = Tried(row, "stalled")
    /\ Step("notify")
    /\ UNCHANGED <<agentVars, salvage, told>>

\* Mutant: a run that was judged needs nobody's attention.
NotifyUnjudged ==
    /\ sw.pc = "notify"
    /\ told' = (salvage # "judged")
    /\ Leave
    /\ UNCHANGED <<row, agentVars, salvage>>

\* human_notification_required, the block on stderr, the desktop notification
Notify ==
    /\ sw.pc = "notify"
    /\ told' = TRUE
    /\ Leave
    /\ UNCHANGED <<row, agentVars, salvage>>

\* The sweep is killed; a revise it spawned goes on, and so may its own worker.
SweepDies ==
    /\ "sweepDies" \in Events
    /\ sw.pc # "off"
    /\ Leave
    /\ Move("sweep", "off")
    /\ working' \in {working, working \ {"sweep"}}
    /\ UNCHANGED <<row, previous, salvage, told>>

-----------------------------------------------------------------------------

Drive(a) ==
    \/ TakeOver(a) \/ WorksApart(a) \/ MarkRunning(a) \/ Launch(a) \/ Return(a)
    \/ Verify(a) \/ Gate(a) \/ Decide(a)

Sweeping ==
    \/ SweepBegin \/ JudgeSkip \/ JudgeGrace \/ JudgeAct \/ Kill \/ MarkFailed
    \/ Increment \/ ToRunning \/ Hop \/ Recover \/ Await \/ Finalize
    \/ Escalate \/ StampSalvaged \/ Salvage \/ Salvaged \/ Restall \/ Notify

Next ==
    \/ \E a \in Agents : \/ Drive(a) \/ WorkerExits(a) \/ RecordPid(a) \/ Beat(a)
                         \/ ConfirmStall(a) \/ Dies(a)
    \/ Sweeping \/ ResumeTimesOut \/ SweepDies
    \/ LeaseExpires \/ BeatAges \/ QuotaResets

Spec == Init /\ [][Next]_vars

\* Processes that are not killed go on, workers end, the clock passes, and somebody
\* keeps sweeping (nrv supervisor watch, or dispatches in the project).
FairSpec ==
    /\ Spec
    /\ \A a \in Agents : /\ WF_vars((a = "operator" => at[a] # "takeover") /\ Drive(a))
                         /\ WF_vars(WorkerExits(a))
    /\ WF_vars(Sweeping)
    /\ WF_vars(LeaseExpires) /\ WF_vars(BeatAges) /\ WF_vars(QuotaResets)

-----------------------------------------------------------------------------
(* Properties *)

\* The supervisor's budget (retries exhausted -> escalate): however many sweeps
\* find the run, killed between two of their calls or not, it is recovered at most
\* max_retries times.
RetriesBounded == row.retries <= MaxRetries

\* A run that was delivered or withheld stays so, whatever a sweep that read it
\* before, a salvage, or a dispatcher given up for dead still does to it.
FinishedIsFinal == [][Terminal(row) => row'.state = row.state]_vars

\* "Supervisor exhausted retries, human notified": no run rests in stalled with the
\* stamp that makes every sweep skip it before a human was told.
StalledIsTold ==
    sw.pc = "off" /\ Owned(row) /\ ~row.stall => told

\* What an escalated run left on disk is judged once, until the run runs again.
JudgedOnce ==
    [][sw.pc = "salvage" /\ sw'.pc = "salvaging" => salvage # "judged"]_vars

\* The never-stall guarantee: as long as somebody sweeps, the run comes to rest,
\* finished or in front of a human.
ComesToRest == <>[](Terminal(row) \/ row.state = "stalled")
=============================================================================
