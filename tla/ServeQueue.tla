---------------------------- MODULE ServeQueue ----------------------------
(***************************************************************************)
(* `nrv serve`: the job queue (serve/queue.ts), the jobs' memos in memory  *)
(* and on disk (serve/runs.ts) and, composed with them, the webhook        *)
(* outbox. A job is a child process; jobs of one session run one at a      *)
(* time, at most `cap` in all.                                             *)
(*                                                                         *)
(* The server is one JavaScript thread: an action is what runs until the   *)
(* next await. A child's close handler and the `finally` that follows it   *)
(* are two actions, since the process can die between them; nothing else   *)
(* of the server comes in between (Turn).                                  *)
(***************************************************************************)
EXTENDS WebhookOutbox, Sequences

CONSTANTS
    Sessions,
    SessionOf,      \* the session of each job
    Hooked,         \* the jobs whose key has a webhook
    Caps,           \* the values --max-concurrent can have
    MaxDeaths       \* bound: deaths of the server

ASSUME ServeAssumption ==
    /\ SessionOf \in [Jobs -> Sessions]
    /\ Hooked \subseteq Jobs
    /\ Caps \subseteq Nat \ {0}
    /\ MaxDeaths \in Nat

VARIABLES
    cap,        \* opts.maxConcurrent of this process
    memo,       \* the map `runs` of this process: "none" for a job it has not seen
    disk,       \* .run.json beside the job's artifacts
    waiting,    \* RunQueue.waiting
    busy,       \* RunQueue.activeBySession
    active,     \* RunQueue.active
    live,       \* the jobs whose child this process holds
    settling,   \* the job whose close handler has run and whose finally has not
    deaths      \* history: how often the server died

queueVars == <<memo, disk, waiting, busy, active, live, settling>>
vars == <<up, outboxVars, cap, queueVars, deaths>>

\* stateFromExit; withheld and indeterminate are like these.
Outcomes == {"delivered", "failed"}
Final    == Outcomes \cup {"cancelled"}
States   == {"none", "queued", "running"} \cup Final

Waiting == {waiting[i] : i \in DOMAIN waiting}

\* Nothing of the server is between two awaits.
Turn == up /\ settling = NoJob

Init ==
    /\ up = TRUE
    /\ OutboxInit
    /\ cap \in Caps
    /\ memo = [j \in Jobs |-> "none"]
    /\ disk = [j \in Jobs |-> "none"]
    /\ waiting = <<>>
    /\ busy = {}
    /\ active = 0
    /\ live = {}
    /\ settling = NoJob
    /\ deaths = 0

-----------------------------------------------------------------------------
(* The queue.                                                              *)

Without(q, i) == SubSeq(q, 1, i - 1) \o SubSeq(q, i + 1, Len(q))

\* MUTANT of Startable: one slot too many.
StartableOneMore(q, taken, n) ==
    IF n > cap THEN {} ELSE {i \in DOMAIN q : SessionOf[q[i]] \notin taken}

\* MUTANT of Startable: the session is not looked at.
StartableAnySession(q, taken, n) ==
    IF n >= cap THEN {} ELSE DOMAIN q

\* The places of q whose job may start: a slot is free and its session is not busy.
Startable(q, taken, n) ==
    IF n >= cap THEN {} ELSE {i \in DOMAIN q : SessionOf[q[i]] \notin taken}

\* MUTANT of Chosen: the newest job first.
ChosenLast(places) == CHOOSE i \in places : \A k \in places : k <= i

\* pump scans from the front.
Chosen(places) == CHOOSE i \in places : \A k \in places : i <= k

(* pump on the queue q with memos m and files d: starts the first job that *)
(* may start. It starts no second one: before each call nothing waiting    *)
(* could start (Saturated), and the call follows one submission or one     *)
(* freed slot. A job is started whatever has become of its memo.           *)
Pump(q, taken, n, alive, m, d) ==
    LET places == Startable(q, taken, n)
        i == Chosen(places)
        j == q[i]
    IN  IF places = {}
        THEN /\ waiting' = q /\ busy' = taken /\ active' = n
             /\ live' = alive /\ memo' = m /\ disk' = d
        ELSE /\ waiting' = Without(q, i)
             /\ busy' = taken \cup {SessionOf[j]}
             /\ active' = n + 1
             /\ live' = alive \cup {j}
             /\ memo' = [m EXCEPT ![j] = "running"]
             /\ disk' = [d EXCEPT ![j] = "running"]

\* A client posts a brief: register and submit.
Submit(j) ==
    /\ Turn
    /\ disk[j] = "none"
    /\ Pump(Append(waiting, j), busy, active, live,
            [memo EXCEPT ![j] = "queued"], [disk EXCEPT ![j] = "queued"])
    /\ UNCHANGED <<up, outboxVars, settling, cap, deaths>>

\* MUTANT of Closed: the exit code decides, also after a cancel.
ClosedByExit(j, outcome) == outcome

\* The state a closed child leaves: a cancelled job keeps its state.
Closed(j, outcome) == IF memo[j] = "cancelled" THEN "cancelled" ELSE outcome

\* The child of j ends and its close handler runs.
ChildCloses(j, outcome) ==
    /\ Turn
    /\ j \in live
    /\ live' = live \ {j}
    /\ memo' = [memo EXCEPT ![j] = Closed(j, outcome)]
    /\ disk' = [disk EXCEPT ![j] = Closed(j, outcome)]
    /\ settling' = j
    /\ UNCHANGED <<up, outboxVars, waiting, busy, active, cap, deaths>>

\* MUTANT of Freed: the session of a job that has ended stays busy.
FreedSlotOnly(j) == busy

Freed(j) == busy \ {SessionOf[j]}

\* The `finally` of the job: frees its slot, enqueues its webhook, and pumps.
Finally ==
    LET j == settling
    IN  /\ up /\ j # NoJob
        /\ settling' = NoJob
        /\ IF j \in Hooked THEN enqueue(j) ELSE UNCHANGED <<record, pendingRoots>>
        /\ Pump(waiting, Freed(j), active - 1, live, memo, disk)
        /\ UNCHANGED <<up, sweep, received, tries, cap, deaths>>

-----------------------------------------------------------------------------
(* Memos.                                                                  *)

\* What rehydrate makes of a file: a job in flight died with its server.
Rehydrated(s) == IF s \in {"queued", "running"} THEN "failed" ELSE s

\* A client asks for a job this process has not seen: the file is read into memory.
Get(j) ==
    /\ Turn
    /\ memo[j] = "none" /\ disk[j] # "none"
    /\ memo' = [memo EXCEPT ![j] = Rehydrated(disk[j])]
    /\ UNCHANGED <<up, outboxVars, disk, waiting, busy, active, live, settling, cap, deaths>>

\* A client deletes a job: one in flight is cancelled, its child signalled.
\* A job that still waits stays in the queue.
Cancel(j) ==
    /\ Turn
    /\ memo[j] \in {"queued", "running"}
    /\ memo' = [memo EXCEPT ![j] = "cancelled"]
    /\ disk' = [disk EXCEPT ![j] = "cancelled"]
    /\ UNCHANGED <<up, outboxVars, waiting, busy, active, live, settling, cap, deaths>>

-----------------------------------------------------------------------------
(* Deaths and starts of the server. A child outlives its server, but       *)
(* nobody holds it any more: it is not followed further.                   *)

Dies ==
    /\ up
    /\ deaths < MaxDeaths
    /\ up' = FALSE
    /\ deaths' = deaths + 1
    /\ OutboxDies({settling} \cap Hooked)
    /\ memo' = [j \in Jobs |-> "none"]
    /\ waiting' = <<>>
    /\ busy' = {}
    /\ active' = 0
    /\ live' = {}
    /\ settling' = NoJob
    /\ UNCHANGED <<disk, cap>>

\* startServer: adoptOrphans only counts; adoptPending finds the deliveries.
Boots ==
    /\ ~up
    /\ up' = TRUE
    /\ OutboxBoots
    /\ cap' \in Caps
    /\ UNCHANGED <<queueVars, deaths>>

SweepStep(s) ==
    /\ settling = NoJob
    /\ \/ SweepBegins(s)
       \/ \E outcome \in {"accepted", "refused", "lost"} : AttemptAnswered(s, outcome)
    /\ UNCHANGED <<queueVars, cap, deaths>>

TimePasses(j) == BackoffEnds(j) /\ UNCHANGED <<queueVars, cap, deaths>>

Next ==
    \/ \E j \in Jobs : Submit(j) \/ Get(j) \/ Cancel(j) \/ TimePasses(j)
    \/ \E j \in Jobs, outcome \in Outcomes : ChildCloses(j, outcome)
    \/ Finally
    \/ \E s \in Sweeps : SweepStep(s)
    \/ Dies
    \/ Boots

Spec == Init /\ [][Next]_vars

(* A child ends (the runtimes have timeouts), a server goes on and is      *)
(* started again, sweeps go on and delays pass. Nobody has to submit, ask  *)
(* or cancel, and nothing has to be accepted.                              *)
FairSpec ==
    /\ Spec
    /\ \A j \in Jobs : /\ WF_vars(\E o \in Outcomes : ChildCloses(j, o))
                       /\ WF_vars(TimePasses(j))
    /\ WF_vars(Finally)
    /\ \A s \in Sweeps : WF_vars(SweepStep(s))
    /\ WF_vars(Boots)

-----------------------------------------------------------------------------
(* Properties.                                                             *)

TypeOK ==
    /\ up \in BOOLEAN
    /\ OutboxTypeOK
    /\ cap \in Caps
    /\ memo \in [Jobs -> States]
    /\ disk \in [Jobs -> States]
    /\ waiting \in Seq(Jobs)
    /\ busy \in SUBSET Sessions
    /\ active \in Nat
    /\ live \in SUBSET Jobs
    /\ settling \in Jobs \cup {NoJob}
    /\ deaths \in 0..MaxDeaths

(* queue.ts:1 "one run at a time per session": two living children of this *)
(* server never belong to one session, and the sessions marked busy are    *)
(* those of a living child or of one being settled, no more and no fewer.  *)
SessionAlone ==
    /\ \A j, k \in live : SessionOf[j] = SessionOf[k] => j = k
    /\ busy = {SessionOf[j] : j \in live \cup ({settling} \ {NoJob})}

(* The cap, and no idle slot: a job waits only while its session is busy   *)
(* or every slot is taken. So no wake-up is lost, and one start per pump   *)
(* is enough.                                                              *)
Saturated ==
    /\ active <= cap
    /\ active < cap => \A j \in Waiting : SessionOf[j] \in busy

\* What the API answers for j, now or by the next server.
Answer(j) == IF memo[j] # "none" THEN memo[j] ELSE Rehydrated(disk[j])

(* Once the API has answered that a job has ended, it gives the same       *)
(* answer ever after, over deaths of the server and over the exit of a     *)
(* cancelled job's child. Jobs cancelled while they wait are excepted:     *)
(* pump starts them all the same (queue.ts:39-48).                         *)
EndedStays ==
    [][\A j \in Jobs \ Waiting : Answer(j) \in Final => Answer(j)' = Answer(j)]_vars

(* Jobs of a session start in the order they were submitted.               *)
StartsInOrder ==
    [][\A k \in DOMAIN waiting :
          waiting[k] \in live' \ live =>
              \A i \in 1..(k - 1) : SessionOf[waiting[i]] # SessionOf[waiting[k]]]_vars

\* A waiting job is started, or the server dies: no job starves behind others.
WaitingStarts == \A j \in Jobs : j \in Waiting ~> j \notin Waiting
=============================================================================
