----------------------------- MODULE ServeProofs -----------------------------
(* What `nrv serve` guarantees for any number of jobs, sessions, overlapping   *)
(* sweeps and deaths, for every concurrency cap and every number of attempts.  *)
EXTENDS ServeQueue, FiniteSetTheorems, SequenceTheorems, TLAPS

-----------------------------------------------------------------------------
(* The outbox.                                                                *)

\* The consumer of j got its message or was tried often enough.
Owed(j) == j \in received \/ tries[j] = MaxAttempts

\* What a sweep has left is due and in the set in memory.
TodoIsDue ==
    \A s \in Sweeps : \A j \in sweep[s].todo : isDue(record[j]) /\ j \in pendingRoots

\* A stale record never counts more attempts than there were, and where the job has
\* left the set in memory meanwhile, its consumer is owed nothing.
BaseIsTried ==
    \A s \in Sweeps :
        LET j == sweep[s].at
        IN  j # NoJob => /\ sweep[s].base < MaxAttempts
                         /\ sweep[s].base <= tries[j]
                         /\ j \notin pendingRoots => Owed(j)

AttemptsCounted ==
    \A j \in Jobs : /\ record[j].attempt <= tries[j]
                    /\ record[j].status = "pending" => record[j].attempt < MaxAttempts

NoServerNoSweep == ~up => \A s \in Sweeps : sweep[s] = Idle

OutboxInv ==
    /\ OutboxTypeOK /\ TodoIsDue /\ BaseIsTried /\ AttemptsCounted /\ NoServerNoSweep
    /\ NoFalseVerdict /\ PendingIsSwept

\* Between two awaits a sweep goes idle or reads the record of one of its jobs.
LEMMA OnwardStates ==
    ASSUME NEW todo \in SUBSET Jobs, NEW w \in Onward(todo)
    PROVE  \/ w = Idle
           \/ \E j \in todo : w = [todo |-> todo \ {j}, at |-> j, base |-> record[j].attempt]
BY DEF Onward

\* No file, no sweep: the invariant holds at the start.
LEMMA OutboxStart == Init => OutboxInv
BY OutboxAssumption
DEF Init, OutboxInit, OutboxInv, OutboxTypeOK, TodoIsDue, BaseIsTried, AttemptsCounted,
    NoServerNoSweep, NoFalseVerdict, PendingIsSwept, Record, Statuses, Unreadable, Idle, SweepState

\* A state that changes none of the outbox, and whether a server runs, keeps its invariant.
LEMMA OutboxSame ==
    OutboxInv /\ UNCHANGED <<up, outboxVars>> => OutboxInv'
BY DEF outboxVars, OutboxInv, OutboxTypeOK, TodoIsDue, BaseIsTried, AttemptsCounted,
       NoServerNoSweep, NoFalseVerdict, PendingIsSwept, Owed

\* Registering a delivery keeps the invariant.
LEMMA EnqueueStep ==
    ASSUME OutboxInv, NEW j \in Jobs, enqueue(j), UNCHANGED <<up, sweep, received, tries>>
    PROVE  OutboxInv'
<1> USE OutboxAssumption DEF OutboxInv
<1>1. record' \in [Jobs -> Record] /\ pendingRoots' \in SUBSET Jobs
  <2>1. [status |-> "pending", attempt |-> 0, due |-> TRUE] \in Record
    BY DEF Record, Statuses
  <2>2. CASE record[j].status \in {"none", "torn"}
    BY <2>1, <2>2 DEF enqueue, OutboxTypeOK
  <2>3. CASE record[j].status \notin {"none", "torn"}
    BY <2>3 DEF enqueue, OutboxTypeOK
  <2> QED
    BY <2>2, <2>3
<1> DEFINE fresh == [record EXCEPT ![j] = [status |-> "pending", attempt |-> 0, due |-> TRUE]]
<1>2. /\ \/ record' = record
         \/ record[j].status \in {"none", "torn"} /\ record' = fresh /\ j \in pendingRoots'
      /\ pendingRoots \subseteq pendingRoots'
  <2>1. CASE record[j].status \in {"none", "torn"}
    BY <2>1 DEF enqueue
  <2>2. CASE record[j].status \notin {"none", "torn"}
    BY <2>2 DEF enqueue
  <2> QED
    BY <2>1, <2>2
<1>3. \A k \in Jobs : record[k].attempt \in Nat /\ tries[k] \in Nat
  BY DEF OutboxTypeOK, Record
<1>4. OutboxTypeOK'
  BY <1>1 DEF OutboxTypeOK
<1>5. TodoIsDue'
  BY <1>2 DEF TodoIsDue, isDue, OutboxTypeOK
<1>6. BaseIsTried'
  BY <1>2 DEF BaseIsTried, Owed
<1>7. AttemptsCounted'
  BY <1>2, <1>3 DEF AttemptsCounted, OutboxTypeOK
<1>8. NoServerNoSweep' /\ NoFalseVerdict' /\ PendingIsSwept'
  BY <1>2 DEF NoServerNoSweep, NoFalseVerdict, PendingIsSwept, OutboxTypeOK
<1> QED
  BY <1>4, <1>5, <1>6, <1>7, <1>8

\* So does a sweep that begins: it reads only records that are due.
LEMMA SweepBeginsStep ==
    ASSUME OutboxInv, NEW s \in Sweeps, SweepBegins(s)
    PROVE  OutboxInv'
<1> USE OutboxAssumption DEF OutboxInv
<1> DEFINE todo == {j \in pendingRoots : isDue(record[j])}
<1>1. PICK j \in todo :
          sweep' = [sweep EXCEPT ![s] = [todo |-> todo \ {j}, at |-> j, base |-> record[j].attempt]]
  <2>1. todo \in SUBSET Jobs
    BY DEF OutboxTypeOK
  <2>2. PICK w \in Onward(todo) : w.at # NoJob /\ sweep' = [sweep EXCEPT ![s] = w]
    BY DEF SweepBegins
  <2>3. w # Idle
    BY <2>2 DEF Idle
  <2> HIDE DEF todo
  <2> QED
    BY <2>1, <2>2, <2>3, OnwardStates
<1>2. UNCHANGED <<up, record, pendingRoots, received, tries>>
  BY DEF SweepBegins
<1>3. /\ j \in Jobs /\ j \in pendingRoots /\ record[j].status = "pending"
      /\ record[j].attempt \in 0..MaxAttempts
  BY DEF OutboxTypeOK, isDue, Record
<1>4. OutboxTypeOK'
  BY <1>1, <1>2, <1>3 DEF OutboxTypeOK, SweepState
<1>5. TodoIsDue'
  BY <1>1, <1>2 DEF TodoIsDue, OutboxTypeOK
<1>6. BaseIsTried'
  BY <1>1, <1>2, <1>3 DEF BaseIsTried, AttemptsCounted, Owed, OutboxTypeOK
<1>7. NoServerNoSweep'
  BY <1>2 DEF NoServerNoSweep, SweepBegins
<1> QED
  BY <1>2, <1>4, <1>5, <1>6, <1>7 DEF AttemptsCounted, NoFalseVerdict, PendingIsSwept

\* The new line of an attempt has a verdict only if one is due.
LEMMA AttemptLine ==
    ASSUME NEW base \in 0..MaxAttempts, base < MaxAttempts, NEW ok \in BOOLEAN
    PROVE  LET next == recordAttempt(base, ok)
           IN  /\ next \in Record
               /\ next.attempt = base + 1
               /\ next.status = "delivered" => ok
               /\ next.status = "abandoned" => base + 1 = MaxAttempts
               /\ next.status = "pending" => base + 1 < MaxAttempts
BY OutboxAssumption DEF recordAttempt, Record, Statuses

\* So does the answer to an attempt, whatever the other sweeps have done meanwhile.
LEMMA AttemptAnsweredStep ==
    ASSUME OutboxInv, NEW s \in Sweeps, NEW outcome \in {"accepted", "refused", "lost"},
           AttemptAnswered(s, outcome)
    PROVE  OutboxInv'
<1> USE OutboxAssumption DEF OutboxInv
<1> DEFINE j == sweep[s].at
           base == sweep[s].base
           next == recordAttempt(base, outcome = "accepted")
           rest == sweep[s].todo \ {j}
           owed(k) == k \in received' \/ tries'[k] = MaxAttempts
<1>1. /\ up /\ up' /\ j # NoJob
      /\ record' = [record EXCEPT ![j] = next]
      /\ pendingRoots' = IF next.status = "pending" THEN pendingRoots ELSE pendingRoots \ {j}
      /\ received' = IF outcome = "refused" THEN received ELSE received \cup {j}
      /\ tries' = [tries EXCEPT ![j] = IF @ < MaxAttempts THEN @ + 1 ELSE @]
  BY DEF AttemptAnswered
<1>2. /\ j \in Jobs /\ base \in 0..MaxAttempts /\ base < MaxAttempts /\ base <= tries[j]
      /\ j \notin pendingRoots => Owed(j)
      /\ tries[j] \in 0..MaxAttempts /\ MaxAttempts \in Nat /\ rest \in SUBSET Jobs
  BY <1>1 DEF OutboxTypeOK, SweepState, BaseIsTried
<1>3. /\ next \in Record
      /\ next.attempt = base + 1
      /\ next.status = "delivered" => outcome = "accepted"
      /\ next.status = "abandoned" => base + 1 = MaxAttempts
      /\ next.status = "pending" => base + 1 < MaxAttempts
  BY <1>2, AttemptLine
<1>4. PICK w \in Onward(rest) :
          sweep' = [t \in Sweeps |-> IF t = s THEN w ELSE [sweep[t] EXCEPT !.todo = @ \ {j}]]
  BY DEF AttemptAnswered
<1>5. \/ w = Idle
      \/ \E k \in rest : w = [todo |-> rest \ {k}, at |-> k, base |-> record[k].attempt]
  BY <1>2, <1>4, OnwardStates
<1> HIDE DEF next, base, j
<1>6. \A k \in Jobs : tries'[k] \in 0..MaxAttempts /\ tries[k] <= tries'[k] /\ (Owed(k) => owed(k))
  BY <1>1, <1>2 DEF OutboxTypeOK, Owed
<1>7. /\ base + 1 <= tries'[j]
      /\ outcome # "refused" => j \in received'
      /\ next.status # "pending" => owed(j)
  <2>1. tries'[j] = IF tries[j] < MaxAttempts THEN tries[j] + 1 ELSE tries[j]
    BY <1>1, <1>2 DEF OutboxTypeOK
  <2>2. base + 1 <= tries'[j]
    BY <1>2, <2>1
  <2>3. outcome # "refused" => j \in received'
    BY <1>1
  <2>4. CASE next.status = "delivered"
    BY <1>3, <2>2, <2>3, <2>4
  <2>5. CASE next.status = "abandoned"
    BY <1>2, <1>3, <2>1, <2>2, <2>3, <2>5
  <2>6. next.status \in {"pending", "delivered", "abandoned"}
    BY DEF next, recordAttempt
  <2> QED
    BY <2>2, <2>3, <2>4, <2>5, <2>6
<1>8. w \in SweepState /\ \A k \in w.todo : k \in rest
  BY <1>2, <1>5 DEF SweepState, Idle, OutboxTypeOK, Record, rest
<1>9. OutboxTypeOK'
  <2>1. \A t \in Sweeps : sweep'[t] \in SweepState
    BY <1>4, <1>8 DEF OutboxTypeOK, SweepState
  <2> QED
    BY <1>1, <1>2, <1>3, <1>4, <1>6, <2>1 DEF OutboxTypeOK
<1>10. TodoIsDue'
  <2>1. \A t \in Sweeps : sweep'[t].todo \subseteq sweep[t].todo \ {j}
    BY <1>4, <1>8 DEF OutboxTypeOK, SweepState, rest
  <2>2. \A k \in Jobs \ {j} : record'[k] = record[k] /\ (k \in pendingRoots => k \in pendingRoots')
    BY <1>1 DEF OutboxTypeOK
  <2> QED
    BY <2>1, <2>2 DEF TodoIsDue, isDue, OutboxTypeOK, SweepState
<1>11. BaseIsTried'
  <2> SUFFICES ASSUME NEW t \in Sweeps, sweep'[t].at # NoJob
               PROVE  /\ sweep'[t].base < MaxAttempts
                      /\ sweep'[t].base <= tries'[sweep'[t].at]
                      /\ sweep'[t].at \notin pendingRoots' => owed(sweep'[t].at)
    BY DEF BaseIsTried, Owed
  <2>1. \A k \in Jobs : k \notin pendingRoots' => k \notin pendingRoots \/ owed(k)
    BY <1>1, <1>7
  <2>2. CASE t # s
    <3>1. sweep'[t].at = sweep[t].at /\ sweep'[t].base = sweep[t].base /\ sweep[t].at \in Jobs
      BY <1>4, <2>2 DEF OutboxTypeOK, SweepState
    <3>2. sweep[t].base <= tries'[sweep[t].at]
      BY <3>1, <1>6, <2>2 DEF BaseIsTried, OutboxTypeOK, SweepState
    <3> QED
      BY <3>1, <3>2, <1>6, <2>1, BaseIsTried DEF BaseIsTried
  <2>3. CASE t = s
    <3>1. PICK k \in rest : w = [todo |-> rest \ {k}, at |-> k, base |-> record[k].attempt]
      BY <1>4, <1>5, <2>3 DEF Idle
    <3>2. sweep'[t].at = k /\ sweep'[t].base = record[k].attempt /\ k \in Jobs /\ k # j
      BY <1>2, <1>4, <2>3, <3>1 DEF rest
    <3>3. isDue(record[k]) /\ k \in pendingRoots
      BY DEF TodoIsDue, rest
    <3>4. record[k].attempt < MaxAttempts /\ record[k].attempt <= tries'[k]
      BY <1>6, <3>2, <3>3 DEF AttemptsCounted, isDue, OutboxTypeOK, Record
    <3> QED
      BY <1>1, <3>2, <3>3, <3>4
  <2> QED
    BY <2>2, <2>3
<1>12. AttemptsCounted'
  <2> SUFFICES ASSUME NEW k \in Jobs
               PROVE  /\ record'[k].attempt <= tries'[k]
                      /\ record'[k].status = "pending" => record'[k].attempt < MaxAttempts
    BY DEF AttemptsCounted
  <2>1. CASE k = j
    BY <1>1, <1>2, <1>3, <1>7, <2>1 DEF OutboxTypeOK
  <2>2. CASE k # j
    BY <1>1, <1>6, <2>2 DEF OutboxTypeOK, Record, AttemptsCounted
  <2> QED
    BY <2>1, <2>2
<1>13. NoFalseVerdict'
  <2> SUFFICES ASSUME NEW k \in Jobs
               PROVE  /\ record'[k].status = "abandoned" => tries'[k] = MaxAttempts
                      /\ record'[k].status = "delivered" => k \in received'
    BY DEF NoFalseVerdict
  <2>1. CASE k = j
    BY <1>1, <1>2, <1>3, <1>6, <1>7, <2>1 DEF OutboxTypeOK
  <2>2. CASE k # j
    BY <1>1, <2>2 DEF OutboxTypeOK, NoFalseVerdict
  <2> QED
    BY <2>1, <2>2
<1>14. PendingIsSwept'
  <2> SUFFICES ASSUME NEW k \in Jobs, k \notin pendingRoots', record'[k].status = "pending"
               PROVE  owed(k)
    BY DEF PendingIsSwept, Owed
  <2>1. CASE k = j
    BY <1>1, <1>2, <1>6, <2>1 DEF OutboxTypeOK
  <2>2. CASE k # j
    BY <1>1, <1>6, <2>2 DEF OutboxTypeOK, PendingIsSwept, Owed
  <2> QED
    BY <2>1, <2>2
<1>15. NoServerNoSweep'
  BY <1>1 DEF NoServerNoSweep
<1> QED
  BY <1>9, <1>10, <1>11, <1>12, <1>13, <1>14, <1>15

\* So does a delay that passes.
LEMMA BackoffEndsStep ==
    ASSUME OutboxInv, NEW j \in Jobs, BackoffEnds(j)
    PROVE  OutboxInv'
<1> USE DEF OutboxInv
<1>1. /\ record[j].status = "pending" /\ record[j] \in Record
      /\ UNCHANGED <<up, pendingRoots, sweep, received, tries>>
      /\ record' = [record EXCEPT ![j].due = TRUE]
  BY DEF BackoffEnds, OutboxTypeOK
<1>2. /\ record' \in [Jobs -> Record]
      /\ \A k \in Jobs : /\ record'[k].status = record[k].status
                         /\ record'[k].attempt = record[k].attempt
                         /\ isDue(record[k]) => isDue(record'[k])
  BY <1>1 DEF OutboxTypeOK, Record, isDue
<1>3. OutboxTypeOK'
  BY <1>1, <1>2 DEF OutboxTypeOK
<1>4. TodoIsDue'
  BY <1>1, <1>2 DEF TodoIsDue, OutboxTypeOK, SweepState
<1>5. BaseIsTried' /\ NoServerNoSweep'
  BY <1>1 DEF BaseIsTried, Owed, NoServerNoSweep
<1>6. AttemptsCounted' /\ NoFalseVerdict' /\ PendingIsSwept'
  BY <1>1, <1>2 DEF AttemptsCounted, NoFalseVerdict, PendingIsSwept
<1> QED
  BY <1>3, <1>4, <1>5, <1>6

\* So does a death of the server: a torn line claims nothing.
LEMMA OutboxDiesStep ==
    ASSUME OutboxInv, NEW writing \in SUBSET (Jobs \cup {NoJob}), ~up', OutboxDies(writing)
    PROVE  OutboxInv'
<1> USE OutboxAssumption DEF OutboxInv
<1>1. /\ pendingRoots' = {} /\ sweep' = [s \in Sweeps |-> Idle]
      /\ UNCHANGED <<received, tries>>
  BY DEF OutboxDies
<1>2. \/ record' = record
      \/ \E j \in Jobs : record' = [record EXCEPT ![j] = Unreadable("torn")]
  BY DEF OutboxDies, OutboxTypeOK, SweepState
<1>3. /\ Unreadable("torn") \in Record
      /\ Unreadable("torn").status = "torn" /\ Unreadable("torn").attempt = 0
  BY DEF Unreadable, Record, Statuses
<1>4. /\ record' \in [Jobs -> Record]
      /\ \A k \in Jobs : \/ record'[k] = record[k]
                         \/ record'[k].status = "torn" /\ record'[k].attempt = 0
  BY <1>2, <1>3 DEF OutboxTypeOK
<1>5. Idle \in SweepState /\ Idle.todo = {} /\ Idle.at = NoJob
  BY DEF Idle, SweepState
<1>6. OutboxTypeOK'
  BY <1>1, <1>4, <1>5 DEF OutboxTypeOK
<1>7. TodoIsDue' /\ BaseIsTried' /\ NoServerNoSweep' /\ PendingIsSwept'
  BY <1>1, <1>5 DEF TodoIsDue, BaseIsTried, NoServerNoSweep, PendingIsSwept
<1>8. AttemptsCounted'
  <2> SUFFICES ASSUME NEW k \in Jobs
               PROVE  /\ record'[k].attempt <= tries'[k]
                      /\ record'[k].status = "pending" => record'[k].attempt < MaxAttempts
    BY DEF AttemptsCounted
  <2>1. tries'[k] \in Nat
    BY <1>1 DEF OutboxTypeOK
  <2> QED
    BY <1>1, <1>4, <2>1 DEF AttemptsCounted
<1>9. NoFalseVerdict'
  BY <1>1, <1>4 DEF NoFalseVerdict
<1> QED
  BY <1>6, <1>7, <1>8, <1>9

\* So does a start: every pending record is found again.
LEMMA OutboxBootsStep ==
    ASSUME OutboxInv, ~up, up', OutboxBoots
    PROVE  OutboxInv'
<1> USE DEF OutboxInv
<1>1. /\ UNCHANGED <<record, sweep, received, tries>>
      /\ pendingRoots' = {j \in Jobs : record[j].status = "pending"}
      /\ \A s \in Sweeps : sweep[s] = Idle
  BY DEF OutboxBoots, adoptPending, NoServerNoSweep
<1>2. Idle.todo = {} /\ Idle.at = NoJob
  BY DEF Idle
<1>3. OutboxTypeOK'
  BY <1>1 DEF OutboxTypeOK
<1>4. TodoIsDue' /\ BaseIsTried'
  BY <1>1, <1>2 DEF TodoIsDue, BaseIsTried
<1> QED
  BY <1>1, <1>3, <1>4 DEF AttemptsCounted, NoServerNoSweep, NoFalseVerdict, PendingIsSwept

-----------------------------------------------------------------------------
(* The outbox in the server: no step of the queue disturbs it.                *)

\* Every step of the server, a stutter included, keeps the outbox's invariant.
LEMMA OutboxStep == OutboxInv /\ [Next]_vars => OutboxInv'
<1> SUFFICES ASSUME OutboxInv, [Next]_vars
             PROVE  OutboxInv'
  OBVIOUS
<1> USE ServeAssumption
<1>1. ASSUME NEW j \in Jobs, Submit(j) \/ Get(j) \/ Cancel(j)
      PROVE  OutboxInv'
  BY <1>1, OutboxSame DEF Submit, Get, Cancel
<1>2. ASSUME NEW j \in Jobs, TimePasses(j)
      PROVE  OutboxInv'
  BY <1>2, BackoffEndsStep DEF TimePasses
<1>3. ASSUME NEW j \in Jobs, NEW outcome \in Outcomes, ChildCloses(j, outcome)
      PROVE  OutboxInv'
  BY <1>3, OutboxSame DEF ChildCloses
<1>4. CASE Finally
  <2>1. UNCHANGED <<up, sweep, received, tries>>
    BY <1>4 DEF Finally
  <2>2. CASE settling \in Hooked
    BY <1>4, <2>1, <2>2, EnqueueStep DEF Finally
  <2>3. CASE settling \notin Hooked
    BY <1>4, <2>1, <2>3, OutboxSame DEF Finally, outboxVars
  <2> QED
    BY <2>2, <2>3
<1>5. ASSUME NEW s \in Sweeps, SweepStep(s)
      PROVE  OutboxInv'
  BY <1>5, SweepBeginsStep, AttemptAnsweredStep DEF SweepStep
<1>6. CASE Dies
  <2>1. {settling} \cap Hooked \in SUBSET (Jobs \cup {NoJob})
    OBVIOUS
  <2>2. ~up' /\ OutboxDies({settling} \cap Hooked)
    BY <1>6 DEF Dies
  <2> QED
    BY <2>1, <2>2, OutboxDiesStep
<1>7. CASE Boots
  BY <1>7, OutboxBootsStep DEF Boots
<1>8. CASE UNCHANGED vars
  BY <1>8, OutboxSame DEF vars
<1> QED
  BY <1>1, <1>2, <1>3, <1>4, <1>5, <1>6, <1>7, <1>8 DEF Next

\* The outbox invariant holds in every state of the server.
LEMMA OutboxIsSound == Spec => []OutboxInv
BY OutboxStart, OutboxStep, PTL DEF Spec

\* A delivery is abandoned only after MaxAttempts answered attempts and called delivered
\* only if the consumer got it, whatever sweeps overlapped (webhook-outbox.ts:139-152).
THEOREM VerdictsAreTrue == Spec => []NoFalseVerdict
<1>1. OutboxInv => NoFalseVerdict
  BY DEF OutboxInv
<1> QED
  BY <1>1, OutboxIsSound, PTL

\* A pending record the sweeps have lost sight of is owed to nobody
\* (webhook-outbox.ts:113-121, 139-152 and the adoption at boot).
THEOREM NothingOwedIsLost == Spec => []PendingIsSwept
<1>1. OutboxInv => PendingIsSwept
  BY DEF OutboxInv
<1> QED
  BY <1>1, OutboxIsSound, PTL

-----------------------------------------------------------------------------
(* Sequences and places.                                                      *)

\* A set of natural numbers that is not empty has a least element.
LEMMA LeastPlace ==
    ASSUME NEW places \in SUBSET Nat, places # {}
    PROVE  Chosen(places) \in places /\ \A k \in places : Chosen(places) <= k
<1> DEFINE R == OpToRel(<, Nat)
<1>1. IsWellFoundedOn(R, Nat)
  BY NatLessThanWellFounded
<1>2. PICK x \in places : \A y \in places : <<y, x>> \notin R
  <2> HIDE DEF R
  <2> QED
  BY <1>1, WFMin
<1>3. \A y \in places : x <= y
  <2> SUFFICES ASSUME NEW y \in places, ~(x <= y) PROVE FALSE
    OBVIOUS
  <2>1. <<y, x>> \in Nat \X Nat /\ y < x
    OBVIOUS
  <2>2. <<y, x>>[1] = y /\ <<y, x>>[2] = x
    OBVIOUS
  <2>3. <<y, x>> \in R
    BY <2>1, <2>2, Zenon DEF OpToRel
  <2> QED
    BY <1>2, <2>3
<1> QED
  BY <1>3 DEF Chosen

\* The queue without its i-th job: the others, in their order.
LEMMA WithoutOne ==
    ASSUME NEW q \in Seq(Jobs), NEW i \in DOMAIN q
    PROVE  /\ Without(q, i) \in Seq(Jobs)
           /\ Len(Without(q, i)) = Len(q) - 1
           /\ \A k \in 1..(Len(q) - 1) : Without(q, i)[k] = q[IF k < i THEN k ELSE k + 1]
<1>1. i \in 1..Len(q) /\ Len(q) \in Nat
  OBVIOUS
<1> DEFINE a == SubSeq(q, 1, i - 1)
           b == SubSeq(q, i + 1, Len(q))
<1>2. a \in Seq(Jobs) /\ Len(a) = i - 1 /\ \A k \in 1..(i - 1) : a[k] = q[k]
  BY <1>1
<1>3. b \in Seq(Jobs) /\ Len(b) = Len(q) - i /\ \A k \in 1..(Len(q) - i) : b[k] = q[i + k]
  BY <1>1
<1> HIDE DEF a, b
<1>4. a \o b \in Seq(Jobs) /\ Len(a \o b) = Len(q) - 1
  BY <1>1, <1>2, <1>3, ConcatProperties
<1>5. \A k \in 1..(Len(q) - 1) : (a \o b)[k] = q[IF k < i THEN k ELSE k + 1]
  <2> SUFFICES ASSUME NEW k \in 1..(Len(q) - 1)
               PROVE  (a \o b)[k] = q[IF k < i THEN k ELSE k + 1]
    OBVIOUS
  <2>1. (a \o b)[k] = IF k <= Len(a) THEN a[k] ELSE b[k - Len(a)]
    BY <1>1, <1>2, <1>3, ConcatProperties
  <2>2. CASE k < i
    BY <1>1, <1>2, <2>1, <2>2
  <2>3. CASE ~(k < i)
    <3>1. k - Len(a) \in 1..(Len(q) - i) /\ i + (k - Len(a)) = k + 1 /\ ~(k <= Len(a))
      BY <1>1, <1>2, <2>3
    <3> QED
      BY <1>3, <2>1, <2>3, <3>1
  <2> QED
    BY <2>2, <2>3
<1> QED
  BY <1>4, <1>5 DEF Without, a, b

-----------------------------------------------------------------------------
(* The queue.                                                                 *)

\* The jobs that hold a slot.
Held == live \cup ({settling} \ {NoJob})

OneEach == \A j, k \in Held : SessionOf[j] = SessionOf[k] => j = k

BusyIsHeld == busy = {SessionOf[j] : j \in Held}

SlotsCounted == IsFiniteSet(busy) /\ active = Cardinality(busy)

WaitsOnce == \A i, k \in DOMAIN waiting : waiting[i] = waiting[k] => i = k

WaitingIsFiled == \A i \in DOMAIN waiting : disk[waiting[i]] # "none"

MemoIsFiled == \A j \in Jobs : disk[j] = "none" => memo[j] = "none"

EndedIsFiled == \A j \in Jobs : memo[j] \in Final => Rehydrated(disk[j]) = memo[j]

LiveIsRunning == \A j \in live : memo[j] \in {"running", "cancelled"}

\* What pump keeps.
PoolInv ==
    /\ OneEach /\ BusyIsHeld /\ SlotsCounted /\ Saturated
    /\ WaitsOnce /\ WaitingIsFiled /\ MemoIsFiled /\ EndedIsFiled /\ LiveIsRunning

DownIsEmpty == ~up => live = {} /\ settling = NoJob /\ waiting = <<>>

QueueInv == TypeOK /\ PoolInv /\ settling \notin live /\ DownIsEmpty

StartsNone(q, taken, n, alive, m, d) ==
    /\ n >= cap \/ \A i \in DOMAIN q : SessionOf[q[i]] \in taken
    /\ waiting' = q /\ busy' = taken /\ active' = n
    /\ live' = alive /\ memo' = m /\ disk' = d

StartsOne(i, q, taken, n, alive, m, d) ==
    /\ n < cap
    /\ SessionOf[q[i]] \notin taken
    /\ \A k \in DOMAIN q : k < i => SessionOf[q[k]] \in taken
    /\ waiting' = Without(q, i)
    /\ busy' = taken \cup {SessionOf[q[i]]}
    /\ active' = n + 1
    /\ live' = alive \cup {q[i]}
    /\ memo' = [m EXCEPT ![q[i]] = "running"]
    /\ disk' = [d EXCEPT ![q[i]] = "running"]

\* pump starts nothing, or the first job in the queue whose session is not taken.
LEMMA PumpCases ==
    ASSUME NEW q \in Seq(Jobs), NEW taken, NEW n \in Nat, NEW alive, NEW m, NEW d,
           cap \in Nat, Pump(q, taken, n, alive, m, d)
    PROVE  \/ StartsNone(q, taken, n, alive, m, d)
           \/ \E i \in DOMAIN q : StartsOne(i, q, taken, n, alive, m, d)
<1> DEFINE places == Startable(q, taken, n)
           i == Chosen(places)
<1>1. places \in SUBSET Nat /\ places \subseteq DOMAIN q
  BY DEF Startable
<1>2. CASE places = {}
  BY <1>2 DEF Pump, Startable, StartsNone
<1>3. CASE places # {}
  <2>1. i \in places /\ \A k \in places : i <= k
    <3> HIDE DEF places
    <3> QED
      BY <1>1, <1>3, LeastPlace
  <2>2. n < cap /\ i \in DOMAIN q /\ SessionOf[q[i]] \notin taken
    BY <2>1 DEF Startable
  <2>3. \A k \in DOMAIN q : k < i => SessionOf[q[k]] \in taken
    <3> SUFFICES ASSUME NEW k \in DOMAIN q, k < i, SessionOf[q[k]] \notin taken PROVE FALSE
      OBVIOUS
    <3>1. k \in places
      BY <2>2 DEF Startable
    <3> HIDE DEF i
    <3> QED
      BY <1>1, <2>1, <3>1
  <2>4. /\ waiting' = Without(q, i) /\ busy' = taken \cup {SessionOf[q[i]]}
        /\ active' = n + 1 /\ live' = alive \cup {q[i]}
        /\ memo' = [m EXCEPT ![q[i]] = "running"] /\ disk' = [d EXCEPT ![q[i]] = "running"]
    BY <1>3 DEF Pump
  <2> HIDE DEF i, places
  <2> QED
    BY <2>2, <2>3, <2>4 DEF StartsOne
<1> QED
  BY <1>2, <1>3

\* What holds before a pump, of the values it is given.
PumpReady(q, taken, n, alive, m, d) ==
    /\ q \in Seq(Jobs) /\ taken \in SUBSET Sessions /\ n \in Nat /\ alive \in SUBSET Jobs
    /\ m \in [Jobs -> States] /\ d \in [Jobs -> States] /\ cap \in Nat
    /\ \A j, k \in alive : SessionOf[j] = SessionOf[k] => j = k
    /\ taken = {SessionOf[j] : j \in alive}
    /\ IsFiniteSet(taken) /\ n = Cardinality(taken) /\ n <= cap
    /\ \/ n + 1 >= cap
       \/ \E s : \A i \in DOMAIN q : SessionOf[q[i]] \in taken \cup {s}
    /\ \A i, k \in DOMAIN q : q[i] = q[k] => i = k
    /\ \A i \in DOMAIN q : d[q[i]] # "none"
    /\ \A j \in Jobs : d[j] = "none" => m[j] = "none"
    /\ \A j \in Jobs : m[j] \in Final => Rehydrated(d[j]) = m[j]
    /\ \A j \in alive : m[j] \in {"running", "cancelled"}

PumpKept ==
    /\ PoolInv'
    /\ waiting' \in Seq(Jobs) /\ busy' \in SUBSET Sessions /\ active' \in Nat
    /\ live' \in SUBSET Jobs /\ memo' \in [Jobs -> States] /\ disk' \in [Jobs -> States]

\* One pump keeps the pool and leaves no idle slot, if before the job or the slot that
\* it follows no waiting job could start: all but one session of the queue are taken.
LEMMA PumpKeeps ==
    ASSUME NEW q, NEW taken, NEW n, NEW alive, NEW m, NEW d,
           PumpReady(q, taken, n, alive, m, d), Pump(q, taken, n, alive, m, d),
           cap' = cap, settling' = NoJob
    PROVE  PumpKept
<1> USE ServeAssumption DEF PumpReady
<1>0. \/ StartsNone(q, taken, n, alive, m, d)
      \/ \E i \in DOMAIN q : StartsOne(i, q, taken, n, alive, m, d)
  <2>1. q \in Seq(Jobs) /\ n \in Nat /\ cap \in Nat
    OBVIOUS
  <2> HIDE DEF PumpReady
  <2> QED
    BY <2>1, PumpCases, Zenon
<1>1. Held' = live'
  BY DEF Held
<1>2. CASE StartsNone(q, taken, n, alive, m, d)
  <2> USE <1>2 DEF StartsNone
  <2>1. OneEach' /\ BusyIsHeld' /\ SlotsCounted'
    BY <1>1, <1>2 DEF OneEach, BusyIsHeld, SlotsCounted
  <2>2. Saturated'
    BY <1>2 DEF Saturated, Waiting
  <2>3. WaitsOnce' /\ WaitingIsFiled' /\ MemoIsFiled' /\ EndedIsFiled' /\ LiveIsRunning'
    BY <1>2 DEF WaitsOnce, WaitingIsFiled, MemoIsFiled, EndedIsFiled, LiveIsRunning
  <2> QED
    BY <2>1, <2>2, <2>3 DEF PoolInv, PumpKept
<1>3. ASSUME NEW i \in DOMAIN q, StartsOne(i, q, taken, n, alive, m, d)
      PROVE  PumpKept
  <2>1. /\ n < cap /\ SessionOf[q[i]] \notin taken
        /\ waiting' = Without(q, i) /\ busy' = taken \cup {SessionOf[q[i]]} /\ active' = n + 1
        /\ live' = alive \cup {q[i]}
        /\ memo' = [m EXCEPT ![q[i]] = "running"] /\ disk' = [d EXCEPT ![q[i]] = "running"]
    BY <1>3 DEF StartsOne
  <2>2. q[i] \in Jobs /\ SessionOf[q[i]] \in Sessions /\ q[i] \notin alive
    BY <2>1
  <2>3. /\ waiting' \in Seq(Jobs)
        /\ Len(waiting') = Len(q) - 1 /\ Len(q) \in Nat /\ i \in 1..Len(q) /\ DOMAIN q = 1..Len(q)
        /\ DOMAIN waiting' = 1..(Len(q) - 1)
        /\ \A k \in 1..(Len(q) - 1) : waiting'[k] = q[IF k < i THEN k ELSE k + 1]
    <3>1. waiting' \in Seq(Jobs) /\ Len(waiting') = Len(q) - 1
      BY <2>1, WithoutOne
    <3>2. \A k \in 1..(Len(q) - 1) : waiting'[k] = q[IF k < i THEN k ELSE k + 1]
      BY <2>1, WithoutOne
    <3> QED
      BY <3>1, <3>2
  <2>4. \A k \in DOMAIN waiting' : \E l \in DOMAIN q : waiting'[k] = q[l]
    <3> SUFFICES ASSUME NEW k \in 1..(Len(q) - 1) PROVE \E l \in DOMAIN q : waiting'[k] = q[l]
      BY <2>3
    <3>1. (IF k < i THEN k ELSE k + 1) \in 1..Len(q)
      BY <2>3
    <3> QED
      BY <2>3, <3>1
  <2>5. memo' \in [Jobs -> States] /\ disk' \in [Jobs -> States]
    BY <2>1 DEF States
  <2>6. OneEach'
    BY <1>1, <2>1, <2>2 DEF OneEach
  <2>7. BusyIsHeld'
    <3>1. busy' = {SessionOf[j] : j \in alive \cup {q[i]}}
      BY <2>1
    <3> QED
      BY <1>1, <2>1, <3>1 DEF BusyIsHeld
  <2>8. SlotsCounted'
    BY <2>1, FS_AddElement DEF SlotsCounted
  <2>9. Saturated'
    <3>1. active' <= cap'
      BY <2>1
    <3>2. ASSUME active' < cap', NEW j \in Waiting' PROVE SessionOf[j] \in busy'
      <4>0. ~(n + 1 >= cap)
        BY <2>1, <3>2
      <4>1. PICK s : \A k \in DOMAIN q : SessionOf[q[k]] \in taken \cup {s}
        BY <4>0
      <4>2. SessionOf[q[i]] = s
        BY <2>1, <4>1
      <4>3. PICK l \in DOMAIN q : j = q[l]
        <5>1. PICK k \in DOMAIN waiting' : j = waiting'[k]
          BY <3>2 DEF Waiting
        <5> QED
          BY <2>4, <5>1
      <4> QED
        BY <2>1, <4>1, <4>2, <4>3
    <3> QED
      BY <3>1, <3>2 DEF Saturated
  <2>10. WaitsOnce'
    <3> SUFFICES ASSUME NEW k \in 1..(Len(q) - 1), NEW l \in 1..(Len(q) - 1),
                        waiting'[k] = waiting'[l]
                 PROVE  k = l
      BY <2>3 DEF WaitsOnce
    <3>1. /\ (IF k < i THEN k ELSE k + 1) \in DOMAIN q
          /\ (IF l < i THEN l ELSE l + 1) \in DOMAIN q
      BY <2>3
    <3>2. (IF k < i THEN k ELSE k + 1) = (IF l < i THEN l ELSE l + 1)
      BY <2>3, <3>1
    <3> QED
      BY <2>3, <3>2
  <2>11. WaitingIsFiled'
    BY <2>1, <2>2, <2>4 DEF WaitingIsFiled
  <2>12. MemoIsFiled'
    BY <2>1, <2>2 DEF MemoIsFiled
  <2>13. EndedIsFiled'
    BY <2>1, <2>2 DEF EndedIsFiled, Final, Outcomes
  <2>14. LiveIsRunning'
    BY <2>1, <2>2 DEF LiveIsRunning
  <2>15. busy' \in SUBSET Sessions /\ active' \in Nat /\ live' \in SUBSET Jobs
    BY <2>1, <2>2
  <2> QED
    BY <2>3, <2>5, <2>6, <2>7, <2>8, <2>9, <2>10, <2>11, <2>12, <2>13, <2>14, <2>15
       DEF PoolInv, PumpKept
<1> QED
  BY <1>0, <1>2, <1>3

\* What is typed and no pump changes.
OthersTyped == up \in BOOLEAN /\ OutboxTypeOK /\ cap \in Caps /\ deaths \in 0..MaxDeaths

\* A pump in a server that runs and has nothing to settle re-establishes the invariant.
LEMMA PumpedIsSound ==
    ASSUME PumpKept, OthersTyped', up', settling' = NoJob
    PROVE  QueueInv'
<1>1. TypeOK'
  BY DEF TypeOK, OthersTyped, PumpKept
<1>2. settling' \notin live'
  BY OutboxAssumption DEF PumpKept
<1> QED
  BY <1>1, <1>2 DEF QueueInv, DownIsEmpty, PumpKept

\* Nothing waits and nothing runs at the start.
LEMMA QueueStart == Init => QueueInv
<1> SUFFICES ASSUME Init PROVE QueueInv
  OBVIOUS
<1> USE ServeAssumption, OutboxAssumption
<1>1. OutboxTypeOK
  BY OutboxStart DEF OutboxInv
<1>2. TypeOK
  BY <1>1 DEF Init, TypeOK, States
<1>3. Held = {}
  BY DEF Held, Init
<1>4. OneEach /\ BusyIsHeld
  BY <1>3 DEF OneEach, BusyIsHeld, Init
<1>5. SlotsCounted
  BY FS_EmptySet DEF SlotsCounted, Init
<1>6. Saturated
  BY DEF Saturated, Waiting, Init
<1>7. WaitsOnce /\ WaitingIsFiled /\ MemoIsFiled /\ LiveIsRunning
  BY DEF WaitsOnce, WaitingIsFiled, MemoIsFiled, LiveIsRunning, Init
<1>8. EndedIsFiled
  BY DEF EndedIsFiled, Final, Outcomes, Init
<1> QED
  BY <1>2, <1>4, <1>5, <1>6, <1>7, <1>8 DEF QueueInv, PoolInv, DownIsEmpty, Init

\* A submission keeps the invariant.
LEMMA SubmitStep ==
    ASSUME QueueInv, OutboxTypeOK', NEW j \in Jobs, Submit(j)
    PROVE  QueueInv'
<1> USE ServeAssumption, OutboxAssumption
<1> DEFINE q == Append(waiting, j)
           m == [memo EXCEPT ![j] = "queued"]
           d == [disk EXCEPT ![j] = "queued"]
<1>1. /\ TypeOK /\ PoolInv /\ up /\ settling = NoJob /\ disk[j] = "none" /\ memo[j] = "none"
      /\ cap \in Nat /\ Held = live
  <2>1. TypeOK /\ PoolInv /\ up /\ settling = NoJob /\ disk[j] = "none"
    BY DEF QueueInv, Submit, Turn
  <2>2. memo[j] = "none"
    BY <2>1 DEF PoolInv, MemoIsFiled
  <2>3. cap \in Nat
    BY <2>1 DEF TypeOK
  <2>4. Held = live
    BY <2>1 DEF Held
  <2> QED
    BY <2>1, <2>2, <2>3, <2>4
<1>2. Pump(q, busy, active, live, m, d) /\ UNCHANGED <<up, outboxVars, settling, cap, deaths>>
  BY DEF Submit
<1>3. /\ waiting \in Seq(Jobs) /\ q \in Seq(Jobs)
      /\ \A i \in DOMAIN q : \/ i \in DOMAIN waiting /\ q[i] = waiting[i]
                             \/ i = Len(waiting) + 1 /\ q[i] = j
  BY <1>1 DEF TypeOK
<1>4. m \in [Jobs -> States] /\ d \in [Jobs -> States]
  BY <1>1 DEF TypeOK, States
<1>5. \A i \in DOMAIN waiting : waiting[i] # j
  BY <1>1 DEF PoolInv, WaitingIsFiled
<1>6. j \notin live
  BY <1>1 DEF PoolInv, LiveIsRunning
<1>7. /\ \A k, l \in live : SessionOf[k] = SessionOf[l] => k = l
      /\ busy = {SessionOf[k] : k \in live}
      /\ IsFiniteSet(busy) /\ active = Cardinality(busy) /\ active <= cap
  BY <1>1 DEF PoolInv, OneEach, BusyIsHeld, SlotsCounted, Saturated
<1>8. \/ active + 1 >= cap
      \/ \E s : \A i \in DOMAIN q : SessionOf[q[i]] \in busy \cup {s}
  <2>1. CASE active >= cap
    BY <1>1, <2>1 DEF TypeOK
  <2>2. CASE ~(active >= cap)
    <3>1. \A i \in DOMAIN waiting : SessionOf[waiting[i]] \in busy
      BY <1>1, <2>2 DEF PoolInv, Saturated, Waiting, TypeOK
    <3>2. \A i \in DOMAIN q : SessionOf[q[i]] \in busy \cup {SessionOf[j]}
      BY <1>3, <3>1
    <3> QED
      BY <3>2
  <2> QED
    BY <2>1, <2>2
<1>9. \A i, k \in DOMAIN q : q[i] = q[k] => i = k
  BY <1>1, <1>3, <1>5 DEF PoolInv, WaitsOnce
<1>10. \A i \in DOMAIN q : d[q[i]] # "none"
  <2>1. d[j] = "queued" /\ \A k \in Jobs \ {j} : d[k] = disk[k]
    BY <1>1 DEF TypeOK
  <2>2. \A i \in DOMAIN waiting : waiting[i] \in Jobs \ {j} /\ disk[waiting[i]] # "none"
    BY <1>1, <1>3, <1>5 DEF PoolInv, WaitingIsFiled
  <2> HIDE DEF d, q
  <2> QED
    BY <1>3, <2>1, <2>2
<1>11. \A k \in Jobs : d[k] = "none" => m[k] = "none"
  BY <1>1 DEF PoolInv, MemoIsFiled, TypeOK
<1>12. \A k \in Jobs : m[k] \in Final => Rehydrated(d[k]) = m[k]
  BY <1>1 DEF PoolInv, EndedIsFiled, TypeOK, Final, Outcomes
<1>13. \A k \in live : m[k] \in {"running", "cancelled"}
  BY <1>1, <1>6 DEF PoolInv, LiveIsRunning, TypeOK
<1>14. PumpKept
  <2>1. busy \in SUBSET Sessions /\ active \in Nat /\ live \in SUBSET Jobs
    BY <1>1 DEF TypeOK
  <2>2. cap' = cap /\ settling' = NoJob
    BY <1>1, <1>2
  <2> HIDE DEF q, m, d
  <2>3. PumpReady(q, busy, active, live, m, d)
    BY <1>1, <1>3, <1>4, <1>7, <1>8, <1>9, <1>10, <1>11, <1>12, <1>13, <2>1 DEF PumpReady
  <2> QED
    BY <1>2, <2>2, <2>3, PumpKeeps, Zenon
<1> QED
  BY <1>1, <1>2, <1>14, PumpedIsSound DEF OthersTyped, TypeOK

\* So does the end of a job that frees its slot.
LEMMA FinallyStep ==
    ASSUME QueueInv, OutboxTypeOK', Finally
    PROVE  QueueInv'
<1> USE ServeAssumption, OutboxAssumption
<1> DEFINE j == settling
           taken == busy \ {SessionOf[j]}
<1>1. /\ TypeOK /\ PoolInv /\ up /\ j \in Jobs /\ j \notin live /\ cap \in Nat
      /\ Held = live \cup {j}
  <2>1. TypeOK /\ PoolInv /\ up /\ j # NoJob /\ j \notin live
    BY DEF QueueInv, Finally
  <2>2. j \in Jobs /\ cap \in Nat
    BY <2>1 DEF TypeOK
  <2> QED
    BY <2>1, <2>2 DEF Held
<1>2. /\ Pump(waiting, taken, active - 1, live, memo, disk)
      /\ settling' = NoJob /\ UNCHANGED <<up, cap, deaths>>
  BY DEF Finally, Freed
<1>3. /\ \A k, l \in live : SessionOf[k] = SessionOf[l] => k = l
      /\ taken = {SessionOf[k] : k \in live}
      /\ SessionOf[j] \in busy
  BY <1>1 DEF PoolInv, OneEach, BusyIsHeld
<1>4. IsFiniteSet(taken) /\ active - 1 = Cardinality(taken) /\ active - 1 \in Nat /\ active <= cap
  <2>1. IsFiniteSet(busy) /\ active = Cardinality(busy) /\ active <= cap /\ active \in Nat
    BY <1>1 DEF PoolInv, SlotsCounted, Saturated, TypeOK
  <2>2. IsFiniteSet(taken) /\ Cardinality(taken) = Cardinality(busy) - 1
    BY <1>3, <2>1, FS_RemoveElement
  <2>3. Cardinality(taken) \in Nat
    BY <2>2, FS_CardinalityType
  <2> QED
    BY <2>1, <2>2, <2>3
<1>5. \/ (active - 1) + 1 >= cap
      \/ \E s : \A i \in DOMAIN waiting : SessionOf[waiting[i]] \in taken \cup {s}
  <2>1. CASE active >= cap
    BY <1>1, <2>1 DEF TypeOK
  <2>2. CASE ~(active >= cap)
    <3>1. \A i \in DOMAIN waiting : SessionOf[waiting[i]] \in busy
      BY <1>1, <2>2 DEF PoolInv, Saturated, Waiting, TypeOK
    <3>2. \A i \in DOMAIN waiting : SessionOf[waiting[i]] \in taken \cup {SessionOf[j]}
      BY <3>1
    <3> QED
      BY <3>2
  <2> QED
    BY <2>1, <2>2
<1>6. PumpKept
  <2>1. waiting \in Seq(Jobs) /\ busy \in SUBSET Sessions /\ live \in SUBSET Jobs
    BY <1>1 DEF TypeOK
  <2>2. memo \in [Jobs -> States] /\ disk \in [Jobs -> States]
    BY <1>1 DEF TypeOK
  <2>3. active - 1 <= cap
    BY <1>1, <1>4 DEF TypeOK
  <2>4. /\ WaitsOnce /\ WaitingIsFiled /\ MemoIsFiled /\ EndedIsFiled /\ LiveIsRunning
    BY <1>1 DEF PoolInv
  <2>5. taken \in SUBSET Sessions
    BY <2>1
  <2> HIDE DEF taken, j
  <2>6. PumpReady(waiting, taken, active - 1, live, memo, disk)
    BY <1>1, <1>3, <1>4, <1>5, <2>1, <2>2, <2>3, <2>4, <2>5
    DEF PumpReady, WaitsOnce, WaitingIsFiled, MemoIsFiled, EndedIsFiled, LiveIsRunning
  <2>7. cap' = cap /\ settling' = NoJob
    BY <1>2
  <2> QED
    BY <1>2, <2>6, <2>7, PumpKeeps, Zenon
<1>7. OthersTyped' /\ up' /\ settling' = NoJob
  BY <1>1, <1>2 DEF OthersTyped, TypeOK
<1> QED
  BY <1>6, <1>7, PumpedIsSound

\* So does the close of a child, which keeps its slot until it is settled.
LEMMA ChildClosesStep ==
    ASSUME QueueInv, OutboxTypeOK', NEW j \in Jobs, NEW outcome \in Outcomes,
           ChildCloses(j, outcome)
    PROVE  QueueInv'
<1> USE ServeAssumption, OutboxAssumption
<1>1. /\ TypeOK /\ PoolInv /\ up /\ settling = NoJob /\ j \in live /\ j # NoJob
      /\ live' = live \ {j} /\ settling' = j
      /\ memo' = [memo EXCEPT ![j] = Closed(j, outcome)]
      /\ disk' = [disk EXCEPT ![j] = Closed(j, outcome)]
      /\ UNCHANGED <<up, outboxVars, waiting, busy, active, cap, deaths>>
  BY DEF QueueInv, ChildCloses, Turn
<1>2. Closed(j, outcome) \in Final
  BY DEF Closed, Final
<1>3. Held' = Held
  BY <1>1 DEF Held
<1>4. TypeOK'
  BY <1>1, <1>2 DEF TypeOK, States
<1>5. OneEach' /\ BusyIsHeld' /\ SlotsCounted' /\ Saturated' /\ WaitsOnce'
  BY <1>1, <1>3 DEF PoolInv, OneEach, BusyIsHeld, SlotsCounted, Saturated, Waiting, WaitsOnce
<1>6. WaitingIsFiled'
  <2>1. \A k \in Jobs : disk'[k] = disk[k] \/ disk'[k] \in Final
    BY <1>1, <1>2 DEF TypeOK
  <2>2. \A i \in DOMAIN waiting : waiting[i] \in Jobs /\ disk[waiting[i]] # "none"
    BY <1>1 DEF PoolInv, WaitingIsFiled, TypeOK
  <2> QED
    BY <1>1, <2>1, <2>2 DEF WaitingIsFiled, Final, Outcomes
<1>7. MemoIsFiled'
  BY <1>1, <1>2 DEF PoolInv, MemoIsFiled, TypeOK, Final, Outcomes
<1>8. EndedIsFiled'
  BY <1>1, <1>2 DEF PoolInv, EndedIsFiled, TypeOK, Rehydrated, Final, Outcomes
<1>9. LiveIsRunning'
  BY <1>1 DEF PoolInv, LiveIsRunning, TypeOK
<1> QED
  BY <1>1, <1>4, <1>5, <1>6, <1>7, <1>8, <1>9 DEF QueueInv, PoolInv, DownIsEmpty

\* So do a read of a memo from its file and a cancel, which touch memos only.
LEMMA MemoStep ==
    ASSUME QueueInv, OutboxTypeOK', NEW j \in Jobs, Get(j) \/ Cancel(j)
    PROVE  QueueInv'
<1> USE ServeAssumption, OutboxAssumption
<1>1. /\ TypeOK /\ PoolInv /\ DownIsEmpty /\ settling \notin live
      /\ UNCHANGED <<up, waiting, busy, active, live, settling, cap, deaths>>
  BY DEF QueueInv, Get, Cancel
<1>2. /\ disk[j] # "none"
      /\ \/ memo' = [memo EXCEPT ![j] = Rehydrated(disk[j])] /\ memo[j] = "none" /\ disk' = disk
         \/ /\ memo' = [memo EXCEPT ![j] = "cancelled"]
            /\ disk' = [disk EXCEPT ![j] = "cancelled"]
  BY <1>1 DEF Get, Cancel, PoolInv, MemoIsFiled
<1>3. Rehydrated(disk[j]) \in States /\ Rehydrated(disk[j]) # "running"
  BY <1>1 DEF Rehydrated, TypeOK, States, Final, Outcomes
<1>4. "cancelled" \in States
  BY DEF States, Final
<1>5. TypeOK'
  BY <1>1, <1>2, <1>3, <1>4 DEF TypeOK
<1>6. OneEach' /\ BusyIsHeld' /\ SlotsCounted' /\ Saturated' /\ WaitsOnce'
  BY <1>1 DEF PoolInv, OneEach, BusyIsHeld, SlotsCounted, Saturated, Waiting, WaitsOnce, Held
<1>7. WaitingIsFiled'
  <2>1. \A k \in Jobs : disk'[k] = disk[k] \/ disk'[k] = "cancelled"
    BY <1>1, <1>2 DEF TypeOK
  <2>2. \A i \in DOMAIN waiting : waiting[i] \in Jobs /\ disk[waiting[i]] # "none"
    BY <1>1 DEF PoolInv, WaitingIsFiled, TypeOK
  <2> QED
    BY <1>1, <2>1, <2>2 DEF WaitingIsFiled
<1>8. MemoIsFiled'
  BY <1>1, <1>2 DEF PoolInv, MemoIsFiled, TypeOK
<1>9. EndedIsFiled'
  BY <1>1, <1>2 DEF PoolInv, EndedIsFiled, TypeOK, Rehydrated, Final, Outcomes
<1>10. LiveIsRunning'
  BY <1>1, <1>2 DEF PoolInv, LiveIsRunning, TypeOK
<1> QED
  BY <1>1, <1>5, <1>6, <1>7, <1>8, <1>9, <1>10 DEF QueueInv, PoolInv, DownIsEmpty

\* So does a death, which leaves only the files.
LEMMA DiesStep ==
    ASSUME QueueInv, OutboxTypeOK', Dies
    PROVE  QueueInv'
<1> USE ServeAssumption, OutboxAssumption
<1>1. /\ TypeOK /\ PoolInv
      /\ up' = FALSE /\ deaths' = deaths + 1 /\ deaths < MaxDeaths
      /\ memo' = [j \in Jobs |-> "none"] /\ waiting' = <<>> /\ busy' = {} /\ active' = 0
      /\ live' = {} /\ settling' = NoJob /\ UNCHANGED <<disk, cap>>
  BY DEF QueueInv, Dies
<1>2. TypeOK'
  <2>1. deaths' \in 0..MaxDeaths
    BY <1>1 DEF TypeOK
  <2>2. memo' \in [Jobs -> States] /\ waiting' \in Seq(Jobs)
    BY <1>1 DEF States
  <2> QED
    BY <1>1, <2>1, <2>2 DEF TypeOK
<1>3. Held' = {}
  BY <1>1 DEF Held
<1>4. OneEach' /\ BusyIsHeld'
  BY <1>1, <1>3 DEF OneEach, BusyIsHeld
<1>5. SlotsCounted'
  BY <1>1, FS_EmptySet DEF SlotsCounted
<1>6. Saturated'
  <2>1. cap \in Nat
    BY <1>1 DEF TypeOK
  <2> QED
    BY <1>1, <2>1 DEF Saturated, Waiting
<1>7. WaitsOnce' /\ WaitingIsFiled' /\ MemoIsFiled' /\ EndedIsFiled' /\ LiveIsRunning'
  <2>1. WaitsOnce' /\ WaitingIsFiled' /\ LiveIsRunning'
    BY <1>1 DEF WaitsOnce, WaitingIsFiled, LiveIsRunning
  <2>2. \A j \in Jobs : memo'[j] = "none"
    BY <1>1
  <2>3. MemoIsFiled' /\ EndedIsFiled'
    BY <2>2 DEF MemoIsFiled, EndedIsFiled, Final, Outcomes
  <2> QED
    BY <2>1, <2>3
<1> QED
  BY <1>1, <1>2, <1>4, <1>5, <1>6, <1>7 DEF QueueInv, PoolInv, DownIsEmpty

\* So does a start, perhaps with another cap: no slot is held.
LEMMA BootsStep ==
    ASSUME QueueInv, OutboxTypeOK', Boots
    PROVE  QueueInv'
<1> USE ServeAssumption, OutboxAssumption
<1>1. /\ TypeOK /\ PoolInv /\ live = {} /\ settling = NoJob /\ waiting = <<>>
      /\ up' /\ up' \in BOOLEAN /\ cap' \in Caps /\ UNCHANGED <<queueVars, deaths>>
  BY DEF QueueInv, DownIsEmpty, Boots
<1>2. TypeOK'
  BY <1>1 DEF TypeOK, queueVars
<1>3. active = 0
  <2>1. Held = {}
    BY <1>1 DEF Held
  <2>2. busy = {}
    BY <1>1, <2>1 DEF PoolInv, BusyIsHeld
  <2> QED
    BY <1>1, <2>2, FS_EmptySet DEF PoolInv, SlotsCounted
<1>4. Saturated'
  BY <1>1, <1>3 DEF queueVars, Saturated, Waiting
<1>5. /\ OneEach' /\ BusyIsHeld' /\ SlotsCounted'
      /\ WaitsOnce' /\ WaitingIsFiled' /\ MemoIsFiled' /\ EndedIsFiled' /\ LiveIsRunning'
  BY <1>1 DEF queueVars, PoolInv, OneEach, BusyIsHeld, SlotsCounted, WaitsOnce, WaitingIsFiled,
              MemoIsFiled, EndedIsFiled, LiveIsRunning, Held
<1> QED
  BY <1>1, <1>2, <1>4, <1>5 DEF QueueInv, PoolInv, DownIsEmpty, queueVars

\* A step of the outbox alone touches nothing of the queue.
LEMMA QueueSame ==
    ASSUME QueueInv, OutboxTypeOK', UNCHANGED <<up, queueVars, cap, deaths>>
    PROVE  QueueInv'
BY DEF QueueInv, TypeOK, PoolInv, DownIsEmpty, queueVars, OneEach, BusyIsHeld, SlotsCounted,
       Saturated, Waiting, WaitsOnce, WaitingIsFiled, MemoIsFiled, EndedIsFiled, LiveIsRunning, Held

\* Every step keeps the invariant of the queue, given that of the outbox.
LEMMA QueueStep == QueueInv /\ OutboxInv' /\ [Next]_vars => QueueInv'
<1> SUFFICES ASSUME QueueInv, OutboxTypeOK', [Next]_vars
             PROVE  QueueInv'
  BY DEF OutboxInv
<1>1. ASSUME NEW j \in Jobs, Submit(j)
      PROVE  QueueInv'
  BY <1>1, SubmitStep
<1>2. ASSUME NEW j \in Jobs, Get(j) \/ Cancel(j)
      PROVE  QueueInv'
  BY <1>2, MemoStep
<1>3. ASSUME NEW j \in Jobs, TimePasses(j)
      PROVE  QueueInv'
  BY <1>3, QueueSame DEF TimePasses, BackoffEnds
<1>4. ASSUME NEW j \in Jobs, NEW outcome \in Outcomes, ChildCloses(j, outcome)
      PROVE  QueueInv'
  BY <1>4, ChildClosesStep
<1>5. CASE Finally
  BY <1>5, FinallyStep
<1>6. ASSUME NEW s \in Sweeps, SweepStep(s)
      PROVE  QueueInv'
  BY <1>6, QueueSame DEF SweepStep, SweepBegins, AttemptAnswered
<1>7. CASE Dies
  BY <1>7, DiesStep
<1>8. CASE Boots
  BY <1>8, BootsStep
<1>9. CASE UNCHANGED vars
  BY <1>9, QueueSame DEF vars
<1> QED
  BY <1>1, <1>2, <1>3, <1>4, <1>5, <1>6, <1>7, <1>8, <1>9 DEF Next

\* The invariant of the queue holds in every state of the server.
LEMMA QueueIsSound == Spec => []QueueInv
BY QueueStart, QueueStep, OutboxIsSound, PTL DEF Spec

\* Every variable keeps its type.
THEOREM TypeCorrect == Spec => []TypeOK
<1>1. QueueInv => TypeOK
  BY DEF QueueInv
<1> QED
  BY <1>1, QueueIsSound, PTL

\* Two living children never share a session, and exactly the sessions of the jobs that
\* hold a slot are marked busy (queue.ts:1, 39-73).
THEOREM OneRunPerSession == Spec => []SessionAlone
<1>1. QueueInv => SessionAlone
  BY DEF QueueInv, PoolInv, OneEach, BusyIsHeld, Held, SessionAlone
<1> QED
  BY <1>1, QueueIsSound, PTL

\* The cap is kept and no slot idles while a job could start, for every cap and every
\* order of submissions and ends (queue.ts:39-73).
THEOREM NoIdleSlot == Spec => []Saturated
<1>1. QueueInv => Saturated
  BY DEF QueueInv, PoolInv
<1> QED
  BY <1>1, QueueIsSound, PTL

-----------------------------------------------------------------------------
(* Steps of the queue.                                                        *)

\* The job being settled holds a slot.
LEMMA SlotHeld ==
    ASSUME TypeOK, PoolInv, Finally
    PROVE  active - 1 \in Nat
<1>1. settling \in Held /\ IsFiniteSet(busy) /\ active = Cardinality(busy)
  BY DEF Finally, Held, PoolInv, SlotsCounted
<1>2. SessionOf[settling] \in busy
  BY <1>1 DEF PoolInv, BusyIsHeld
<1>3. /\ IsFiniteSet(busy \ {SessionOf[settling]})
      /\ Cardinality(busy \ {SessionOf[settling]}) = active - 1
  BY <1>1, <1>2, FS_RemoveElement
<1> QED
  BY <1>3, FS_CardinalityType

\* What the steps of a submission and of a settled job have in common: a pump on a queue
\* that extends the waiting jobs, each of them there once.
LEMMA PumpInOrder ==
    ASSUME NEW q \in Seq(Jobs), NEW taken, NEW n \in Nat, NEW m \in [Jobs -> States],
           NEW d \in [Jobs -> States], cap \in Nat, Pump(q, taken, n, live, m, d),
           \A i, k \in DOMAIN q : q[i] = q[k] => i = k,
           waiting \in Seq(Jobs), Len(waiting) <= Len(q),
           \A k \in DOMAIN waiting : q[k] = waiting[k],
           NEW k \in DOMAIN waiting, waiting[k] \in live' \ live, NEW l \in 1..(k - 1)
    PROVE  SessionOf[waiting[l]] # SessionOf[waiting[k]]
<1>1. PICK i \in DOMAIN q : StartsOne(i, q, taken, n, live, m, d)
  <2>1. \/ StartsNone(q, taken, n, live, m, d)
        \/ \E i \in DOMAIN q : StartsOne(i, q, taken, n, live, m, d)
    BY PumpCases, Zenon
  <2>2. ~StartsNone(q, taken, n, live, m, d)
    BY DEF StartsNone
  <2> QED
    BY <2>1, <2>2
<1>2. k \in DOMAIN q /\ l \in DOMAIN q /\ l \in DOMAIN waiting /\ l < k
  OBVIOUS
<1>3. q[k] = q[i]
  BY <1>1 DEF StartsOne
<1>4. k = i
  BY <1>2, <1>3
<1> QED
  BY <1>1, <1>2, <1>4 DEF StartsOne

\* A step of the server starts no job before one of its session that waits in front of it.
LEMMA OrderStep ==
    ASSUME QueueInv, [Next]_vars,
           NEW k \in DOMAIN waiting, waiting[k] \in live' \ live, NEW l \in 1..(k - 1)
    PROVE  SessionOf[waiting[l]] # SessionOf[waiting[k]]
<1> USE ServeAssumption
<1>1. /\ TypeOK /\ PoolInv /\ cap \in Nat /\ waiting \in Seq(Jobs) /\ active \in Nat
      /\ memo \in [Jobs -> States] /\ disk \in [Jobs -> States]
  BY DEF QueueInv, TypeOK
<1>2. ASSUME NEW j \in Jobs, Submit(j)
      PROVE  SessionOf[waiting[l]] # SessionOf[waiting[k]]
  <2> DEFINE q == Append(waiting, j)
             m == [memo EXCEPT ![j] = "queued"]
             d == [disk EXCEPT ![j] = "queued"]
  <2>1. /\ q \in Seq(Jobs) /\ Len(waiting) <= Len(q)
        /\ \A i \in DOMAIN waiting : q[i] = waiting[i]
        /\ \A i \in DOMAIN q : \/ i \in DOMAIN waiting /\ q[i] = waiting[i]
                               \/ i = Len(waiting) + 1 /\ q[i] = j
    BY <1>1
  <2>2. \A i \in DOMAIN waiting : waiting[i] # j
    BY <1>1, <1>2 DEF Submit, PoolInv, WaitingIsFiled
  <2>3. \A i, h \in DOMAIN q : q[i] = q[h] => i = h
    BY <1>1, <2>1, <2>2 DEF PoolInv, WaitsOnce
  <2>4. Pump(q, busy, active, live, m, d)
    BY <1>2 DEF Submit
  <2>5. m \in [Jobs -> States] /\ d \in [Jobs -> States]
    BY <1>1 DEF States
  <2> HIDE DEF q, m, d
  <2> QED
    BY <1>1, <2>1, <2>3, <2>4, <2>5, PumpInOrder
<1>3. CASE Finally
  <2>1. Pump(waiting, Freed(settling), active - 1, live, memo, disk) /\ active - 1 \in Nat
    BY <1>1, <1>3, SlotHeld DEF Finally
  <2>2. \A i, h \in DOMAIN waiting : waiting[i] = waiting[h] => i = h
    BY <1>1 DEF PoolInv, WaitsOnce
  <2>3. Len(waiting) <= Len(waiting)
    BY <1>1
  <2> QED
    BY <1>1, <2>1, <2>2, <2>3, PumpInOrder
<1>4. ASSUME NEW j \in Jobs, NEW outcome \in Outcomes, ChildCloses(j, outcome)
      PROVE  FALSE
  BY <1>4 DEF ChildCloses
<1>5. ASSUME NEW j \in Jobs, Get(j) \/ Cancel(j) \/ TimePasses(j)
      PROVE  FALSE
  BY <1>5 DEF Get, Cancel, TimePasses, queueVars
<1>6. ASSUME NEW s \in Sweeps, SweepStep(s)
      PROVE  FALSE
  BY <1>6 DEF SweepStep, queueVars
<1>7. ~Dies /\ ~Boots /\ ~(UNCHANGED vars)
  BY DEF Dies, Boots, vars, queueVars
<1> QED
  BY <1>2, <1>3, <1>4, <1>5, <1>6, <1>7 DEF Next

\* The jobs of a session start in the order of their submission (queue.ts:39-48).
THEOREM SessionsInOrder == Spec => StartsInOrder
<1>1. QueueInv /\ [Next]_vars =>
          [\A k \in DOMAIN waiting :
              waiting[k] \in live' \ live =>
                  \A i \in 1..(k - 1) : SessionOf[waiting[i]] # SessionOf[waiting[k]]]_vars
  BY OrderStep
<1> QED
  BY <1>1, QueueIsSound, PTL DEF Spec, StartsInOrder

\* A pump changes no memo of a job that is not in its queue.
LEMMA PumpSparesOthers ==
    ASSUME NEW q \in Seq(Jobs), NEW taken, NEW n \in Nat, NEW alive, NEW m \in [Jobs -> States],
           NEW d \in [Jobs -> States], cap \in Nat, Pump(q, taken, n, alive, m, d),
           NEW j \in Jobs, \A i \in DOMAIN q : q[i] # j
    PROVE  memo'[j] = m[j] /\ disk'[j] = d[j]
<1>1. \/ StartsNone(q, taken, n, alive, m, d)
      \/ \E i \in DOMAIN q : StartsOne(i, q, taken, n, alive, m, d)
  BY PumpCases, Zenon
<1>2. CASE StartsNone(q, taken, n, alive, m, d)
  BY <1>2 DEF StartsNone
<1>3. ASSUME NEW i \in DOMAIN q, StartsOne(i, q, taken, n, alive, m, d)
      PROVE  memo'[j] = m[j] /\ disk'[j] = d[j]
  BY <1>3 DEF StartsOne
<1> QED
  BY <1>1, <1>2, <1>3

\* A step keeps the answer for a job that has ended and does not wait.
LEMMA AnswerStep ==
    ASSUME QueueInv, [Next]_vars, NEW j \in Jobs \ Waiting, Answer(j) \in Final
    PROVE  Answer(j)' = Answer(j)
<1> USE ServeAssumption
<1>1. /\ TypeOK /\ PoolInv /\ cap \in Nat /\ waiting \in Seq(Jobs) /\ active \in Nat
      /\ memo \in [Jobs -> States] /\ disk \in [Jobs -> States]
      /\ \A i \in DOMAIN waiting : waiting[i] # j
  BY DEF QueueInv, TypeOK, Waiting
<1>2. /\ disk[j] = "none" => memo[j] = "none"
      /\ memo[j] \in Final => Rehydrated(disk[j]) = memo[j]
      /\ disk[j] # "none"
  BY <1>1 DEF PoolInv, MemoIsFiled, EndedIsFiled, Answer, Rehydrated, Final, Outcomes
<1>3. ASSUME memo'[j] = memo[j], disk'[j] = disk[j]
      PROVE  Answer(j)' = Answer(j)
  BY <1>3 DEF Answer
<1>4. ASSUME NEW k \in Jobs, Submit(k)
      PROVE  Answer(j)' = Answer(j)
  <2> DEFINE q == Append(waiting, k)
             m == [memo EXCEPT ![k] = "queued"]
             d == [disk EXCEPT ![k] = "queued"]
  <2>1. k # j
    BY <1>2, <1>4 DEF Submit
  <2>2. q \in Seq(Jobs) /\ \A i \in DOMAIN q : q[i] # j
    BY <1>1, <2>1
  <2>3. m \in [Jobs -> States] /\ d \in [Jobs -> States]
    BY <1>1 DEF States
  <2>4. m[j] = memo[j] /\ d[j] = disk[j]
    BY <1>1, <2>1
  <2>5. Pump(q, busy, active, live, m, d)
    BY <1>4 DEF Submit
  <2> HIDE DEF q, m, d
  <2>6. memo'[j] = m[j] /\ disk'[j] = d[j]
    BY <1>1, <2>2, <2>3, <2>5, PumpSparesOthers
  <2> QED
    BY <1>3, <2>4, <2>6
<1>5. CASE Finally
  <2>1. Pump(waiting, Freed(settling), active - 1, live, memo, disk)
    BY <1>5 DEF Finally
  <2>2. active - 1 \in Nat
    BY <1>1, <1>5, SlotHeld
  <2>3. memo'[j] = memo[j] /\ disk'[j] = disk[j]
    BY <1>1, <2>1, <2>2, PumpSparesOthers
  <2> QED
    BY <1>3, <2>3
<1>6. ASSUME NEW k \in Jobs, NEW outcome \in Outcomes, ChildCloses(k, outcome)
      PROVE  Answer(j)' = Answer(j)
  <2>1. CASE k = j
    <3>1. memo[j] \in {"running", "cancelled"}
      BY <1>1, <1>6, <2>1 DEF ChildCloses, PoolInv, LiveIsRunning
    <3>2. memo[j] = "cancelled"
      BY <3>1 DEF Answer, Final, Outcomes
    <3>3. memo'[j] = "cancelled"
      BY <1>1, <1>6, <2>1, <3>2 DEF ChildCloses, Closed
    <3> QED
      BY <3>2, <3>3 DEF Answer
  <2>2. CASE k # j
    BY <1>1, <1>3, <1>6, <2>2 DEF ChildCloses
  <2> QED
    BY <2>1, <2>2
<1>7. ASSUME NEW k \in Jobs, Get(k)
      PROVE  Answer(j)' = Answer(j)
  <2>1. CASE k = j
    <3>1. memo[j] = "none" /\ memo'[j] = Rehydrated(disk[j]) /\ disk' = disk
      BY <1>1, <1>7, <2>1 DEF Get
    <3>2. Rehydrated(disk[j]) # "none"
      BY <1>2 DEF Rehydrated
    <3> QED
      BY <3>1, <3>2 DEF Answer
  <2>2. CASE k # j
    BY <1>1, <1>3, <1>7, <2>2 DEF Get
  <2> QED
    BY <2>1, <2>2
<1>8. ASSUME NEW k \in Jobs, Cancel(k)
      PROVE  Answer(j)' = Answer(j)
  <2>1. k # j
    BY <1>8 DEF Cancel, Answer, Final, Outcomes
  <2> QED
    BY <1>1, <1>3, <1>8, <2>1 DEF Cancel
<1>9. CASE Dies
  <2>1. memo'[j] = "none" /\ disk' = disk
    BY <1>9 DEF Dies
  <2> QED
    BY <1>2, <2>1 DEF Answer
<1>10. CASE UNCHANGED <<memo, disk>>
  BY <1>3, <1>10
<1>11. ASSUME NEW k \in Jobs, TimePasses(k)
       PROVE  UNCHANGED <<memo, disk>>
  BY <1>11 DEF TimePasses, queueVars
<1>12. ASSUME NEW s \in Sweeps, SweepStep(s)
       PROVE  UNCHANGED <<memo, disk>>
  BY <1>12 DEF SweepStep, queueVars
<1>13. Boots \/ UNCHANGED vars => UNCHANGED <<memo, disk>>
  BY DEF Boots, vars, queueVars
<1> QED
  BY <1>4, <1>5, <1>6, <1>7, <1>8, <1>9, <1>10, <1>11, <1>12, <1>13 DEF Next

\* What the API has once said of a job that ended it says ever after, over the exit of a
\* cancelled child and over deaths of the server (runs.ts persist and rehydrate).
THEOREM AnswersAreFinal == Spec => EndedStays
<1>1. QueueInv /\ [Next]_vars =>
          [\A j \in Jobs \ Waiting : Answer(j) \in Final => Answer(j)' = Answer(j)]_vars
  BY AnswerStep
<1> QED
  BY <1>1, QueueIsSound, PTL DEF Spec, EndedStays
=============================================================================
