--------------------------- MODULE WebhookOutbox ---------------------------
(***************************************************************************)
(* The webhook deliveries of `nrv serve` (harness/lib/serve/               *)
(* webhook-outbox.ts): one append-only file per job, whose last line is    *)
(* the state of its delivery; a set in memory of the jobs believed to be   *)
(* pending; and sweeps, started every five seconds by a timer that does    *)
(* not wait for the sweep before, each of which attempts what is due.      *)
(*                                                                         *)
(* JavaScript runs a sweep without interruption from one await to the      *)
(* next, and the only await is the HTTP attempt: so a step of a sweep is   *)
(* the answer to its attempt, the line it appends, and the choice of the   *)
(* next record that is due.                                                *)
(***************************************************************************)
EXTENDS Naturals, FiniteSets

CONSTANTS
    Jobs,         \* the jobs a server is given
    NoJob,        \* not a job
    Sweeps,       \* sweeps that can overlap
    MaxAttempts   \* attempts before a delivery is abandoned

ASSUME OutboxAssumption == /\ NoJob \notin Jobs
                           /\ MaxAttempts \in Nat \ {0}

VARIABLES
    up,            \* whether a server process runs
    record,        \* the last line of each job's file
    pendingRoots,  \* the jobs this process believes pending
    sweep,         \* what each sweep attempts, and what it has left
    received,      \* history: the jobs whose consumer got the message
    tries          \* history: attempts answered, counted up to MaxAttempts

outboxVars == <<record, pendingRoots, sweep, received, tries>>

-----------------------------------------------------------------------------
(* Records. "torn" is a last line that a death of the server cut short: it *)
(* cannot be parsed, and readState answers null for it.                    *)

Statuses == {"none", "torn", "pending", "delivered", "abandoned"}

\* `due`: next_attempt_at has passed.
Record == [status: Statuses, attempt: 0..MaxAttempts, due: BOOLEAN]

Unreadable(status) == [status |-> status, attempt |-> 0, due |-> FALSE]

isDue(rec) == rec.status = "pending" /\ rec.due

(* A sweep: `todo` are the roots of its snapshot that it has not reached   *)
(* and that are due at the time it began; `at` is the job whose attempt it *)
(* awaits, `base` the attempts on the record it read.                      *)
Idle == [todo |-> {}, at |-> NoJob, base |-> 0]

SweepState == [todo: SUBSET Jobs, at: Jobs \cup {NoJob}, base: 0..MaxAttempts]

\* The states a sweep can be in once it has gone on to its next due root.
Onward(todo) ==
    IF todo = {} THEN {Idle}
    ELSE {[todo |-> todo \ {j}, at |-> j, base |-> record[j].attempt] : j \in todo}

OutboxInit ==
    /\ record = [j \in Jobs |-> Unreadable("none")]
    /\ pendingRoots = {}
    /\ sweep = [s \in Sweeps |-> Idle]
    /\ received = {}
    /\ tries = [j \in Jobs |-> 0]

-----------------------------------------------------------------------------
(* Operations.                                                             *)

\* MUTANT of enqueue: the job is not put into the set in memory.
enqueueForgets(j) ==
    /\ record' = [record EXCEPT ![j] = [status |-> "pending", attempt |-> 0, due |-> TRUE]]
    /\ UNCHANGED pendingRoots

\* Registers a delivery unless the file has a readable one.
enqueue(j) ==
    IF record[j].status \in {"none", "torn"}
    THEN /\ record' = [record EXCEPT ![j] = [status |-> "pending", attempt |-> 0, due |-> TRUE]]
         /\ pendingRoots' = pendingRoots \cup {j}
    ELSE /\ pendingRoots' = IF record[j].status = "pending"
                            THEN pendingRoots \cup {j} ELSE pendingRoots
         /\ UNCHANGED record

\* The timer starts a sweep. One that finds nothing due ends without an await.
SweepBegins(s) ==
    /\ up
    /\ sweep[s].at = NoJob
    /\ \E w \in Onward({j \in pendingRoots : isDue(record[j])}) :
           /\ w.at # NoJob
           /\ sweep' = [sweep EXCEPT ![s] = w]
    /\ UNCHANGED <<up, record, pendingRoots, received, tries>>

\* MUTANT of recordAttempt: gives up one attempt early.
recordAttemptEarly(base, ok) ==
    [status  |-> IF ok THEN "delivered"
                 ELSE IF base + 2 >= MaxAttempts THEN "abandoned" ELSE "pending",
     attempt |-> base + 1, due |-> FALSE]

\* The line that follows an attempt: computed from the record the sweep read.
recordAttempt(base, ok) ==
    [status  |-> IF ok THEN "delivered"
                 ELSE IF base + 1 >= MaxAttempts THEN "abandoned" ELSE "pending",
     attempt |-> base + 1, due |-> FALSE]

(* The attempt of sweep s is answered: accepted, refused, or "lost", when  *)
(* the consumer got the message and its answer did not come in time. The   *)
(* new line has a next_attempt_at after the beginning of every sweep under *)
(* way, so none of them finds the record due any more.                     *)
AttemptAnswered(s, outcome) ==
    LET j    == sweep[s].at
        next == recordAttempt(sweep[s].base, outcome = "accepted")
    IN  /\ up
        /\ j # NoJob
        /\ record' = [record EXCEPT ![j] = next]
        /\ pendingRoots' = IF next.status = "pending" THEN pendingRoots ELSE pendingRoots \ {j}
        /\ \E w \in Onward(sweep[s].todo \ {j}) :
               sweep' = [t \in Sweeps |->
                            IF t = s THEN w ELSE [sweep[t] EXCEPT !.todo = @ \ {j}]]
        /\ received' = IF outcome = "refused" THEN received ELSE received \cup {j}
        /\ tries' = [tries EXCEPT ![j] = IF @ < MaxAttempts THEN @ + 1 ELSE @]
        /\ UNCHANGED up

\* The delay before the next attempt of j passes.
BackoffEnds(j) ==
    /\ record[j].status = "pending" /\ ~record[j].due
    /\ record' = [record EXCEPT ![j].due = TRUE]
    /\ UNCHANGED <<up, pendingRoots, sweep, received, tries>>

\* MUTANT of adoptPending: only records that were never attempted are found again.
adoptPendingFresh == {j \in Jobs : record[j].status = "pending" /\ record[j].attempt = 0}

\* The jobs a starting server finds pending on disk.
adoptPending == {j \in Jobs : record[j].status = "pending"}

(* The process dies: sweeps and the set are gone. A line being appended    *)
(* for one of the jobs in `writing` may be left torn.                      *)
OutboxDies(writing) ==
    /\ pendingRoots' = {}
    /\ sweep' = [s \in Sweeps |-> Idle]
    /\ \/ UNCHANGED record
       \/ \E j \in (writing \cup {sweep[s].at : s \in Sweeps}) \ {NoJob} :
              record' = [record EXCEPT ![j] = Unreadable("torn")]
    /\ UNCHANGED <<received, tries>>

OutboxBoots ==
    /\ pendingRoots' = adoptPending
    /\ UNCHANGED <<record, sweep, received, tries>>

-----------------------------------------------------------------------------
(* Properties.                                                             *)

OutboxTypeOK ==
    /\ record \in [Jobs -> Record]
    /\ pendingRoots \in SUBSET Jobs
    /\ sweep \in [Sweeps -> SweepState]
    /\ received \in SUBSET Jobs
    /\ tries \in [Jobs -> 0..MaxAttempts]

(* A delivery is given up only after MaxAttempts attempts were answered,   *)
(* and called delivered only if its consumer got it, whichever sweeps      *)
(* overlapped and however often the server died in between: overlapping    *)
(* sweeps write from stale records, but never a count that is too high.    *)
NoFalseVerdict ==
    \A j \in Jobs :
        /\ record[j].status = "abandoned" => tries[j] = MaxAttempts
        /\ record[j].status = "delivered" => j \in received

(* A pending record that no sweep will look at, since the set in memory    *)
(* has lost it, belongs to a consumer that has got its message or has been *)
(* tried often enough: a sweep that failed after another had settled the   *)
(* delivery writes such a record (webhook-outbox.ts:139-152).              *)
PendingIsSwept ==
    up => \A j \in Jobs \ pendingRoots :
              record[j].status = "pending" => j \in received \/ tries[j] = MaxAttempts

\* What a consumer is owed: the message, or MaxAttempts attempts.
Settled(j) == j \in received \/ tries[j] = MaxAttempts \/ record[j].status = "torn"

(* A registered delivery is received or tried MaxAttempts times, over      *)
(* restarts of the server, unless a death left its last line torn.         *)
HookAnswered ==
    \A j \in Jobs : record[j].status = "pending" ~> Settled(j)
=============================================================================
