---------------------------- MODULE CanaryQueue ----------------------------
(***************************************************************************)
(* The queue through which the Glance server runs the Messages of a chat   *)
(* (control-plane/agent-x-canary-queue.ts): a Message becomes a Run in the *)
(* Run Kernel, is routed, and is executed by a child process that adopts   *)
(* the Run. One item is active at a time.                                  *)
(*                                                                         *)
(* The server is one JavaScript thread, but the kernel is a database that  *)
(* its children write too, and it may die at any moment. An action is at   *)
(* most what runs until the next await, split where a child's write or a   *)
(* death can make a difference: a Run created and its Message linked, a    *)
(* child spawned and its start journaled, an exit journaled and the Run    *)
(* settled, the state of a Run read (getRun) and each transition asked for *)
(* on the strength of it (transitionRun). A transition the kernel refuses  *)
(* throws. Between such steps the server does nothing else (Turn), but     *)
(* children do. Children outlive their server. A child that was signalled  *)
(* is one that exits: every child can, at any time.                        *)
(***************************************************************************)
EXTENDS Naturals, Sequences, FiniteSets, SequencesExt

CONSTANTS
    Run,         \* the runs, numbered in the order listRuns gives them
    Explicit,    \* those whose Message names its target
    Verdicts,    \* the final states that the gate of a child may give a Run
    MaxSpawns,   \* bound: children of a Run; each life of the server starts one at most
    MaxDeaths    \* bound: deaths of the server

ASSUME CanaryAssumption ==
    /\ Run \subseteq Nat \ {0} /\ IsFiniteSet(Run)
    /\ Explicit \subseteq Run
    /\ Verdicts \subseteq {"completed", "delivered_with_reservations", "withheld"}
    /\ MaxDeaths \in Nat
    /\ MaxSpawns \in Nat /\ MaxSpawns > MaxDeaths

VARIABLES
    up,         \* whether a server runs
    state,      \* the kernel state of each Run
    routed,     \* the Runs with a route
    linked,     \* the Runs whose Message is linked
    preparing,  \* the Run a submission has created and not yet linked, or 0
    pending,    \* the queue
    active,     \* its active item
    phase,      \* how far the active item is
    call,       \* the transitions the server is asking the kernel for, or NoCall
    spawned,    \* how many children each Run has had
    started,    \* the children of each Run whose start is journaled, by attempt
    exited,     \* the attempts of each Run whose exit is journaled
    live,       \* the living children: pairs of a Run and a number
    deaths,     \* history: how often the server died
    strays,     \* history: Runs queued beside a living child their item does not follow
    asked       \* history: the Runs whose cancellation this server was asked for

kernelVars == <<state, routed, linked, started, exited>>
queueVars  == <<preparing, pending, active, phase, call>>
childVars  == <<spawned, live>>
history    == <<deaths, strays, asked>>
vars == <<up, kernelVars, queueVars, childVars, history>>

Lifecycle == INSTANCE RunLifecycle

Terminal(r) == state[r] \in Lifecycle!TerminalStates
Executing == {"running", "verifying"}    \* no child leaves a Run in waiting or revising

\* The states a child of this program moves a Run to.
Moves == {"running", "verifying", "failed", "rolled_back"} \cup Verdicts

(* `child` and `attempt` are the pid and the attempt of the item's child,  *)
(* 0 before it has one; `cancel` is cancelRequested.                       *)
Item == [run: Run, mode: {"start", "redispatch", "reattach"},
         child: 0..MaxSpawns, attempt: 0..MaxSpawns, cancel: BOOLEAN]

Start(r) == [run |-> r, mode |-> "start", child |-> 0, attempt |-> 0, cancel |-> FALSE]

NoItem == [run |-> 0, mode |-> "none", child |-> 0, attempt |-> 0, cancel |-> FALSE]

(* What is left to ask of the kernel for a Run; `withdraws` where a cancel *)
(* goes on to take the Run's item out of the queue.                        *)
Calls == [run: Run, asks: Seq(Lifecycle!States), withdraws: BOOLEAN]

NoCall == [run |-> 0, asks |-> <<>>, withdraws |-> FALSE]

Pending == {pending[i].run : i \in DOMAIN pending}
Queued  == (Pending \cup {active.run}) \ {0}

\* The Runs that the server has yet to do something about.
Held == Queued \cup ({call.run} \ {0})

\* Nothing of the server is between two awaits.
Turn == up /\ preparing = 0 /\ call = NoCall /\ phase \in {"idle", "routing", "child", "reattach"}

Attended(r) == \E k \in 1..MaxSpawns : <<r, k>> \in live

Alive(item) == <<item.run, item.child>> \in live

Init ==
    /\ up = TRUE
    /\ state = [r \in Run |-> Lifecycle!Unknown]
    /\ routed = {} /\ linked = {}
    /\ preparing = 0 /\ pending = <<>> /\ active = NoItem /\ phase = "idle"
    /\ call = NoCall
    /\ spawned = [r \in Run |-> 0]
    /\ started = [r \in Run |-> <<>>]
    /\ exited = [r \in Run |-> {}]
    /\ live = {}
    /\ deaths = 0 /\ strays = {} /\ asked = {}

-----------------------------------------------------------------------------
(* Transitions. What is read of a Run decides which of them are asked for, *)
(* one transaction each; by then a child may have moved the Run.           *)

\* The call that is left when `asks` is; a call that asks nothing more is over.
Called(r, asks, withdraws) ==
    IF asks = <<>> /\ ~withdraws THEN NoCall
    ELSE [run |-> r, asks |-> asks, withdraws |-> withdraws]

\* requestCancel.
Requested(s) == IF s = "running" THEN <<"cancelling">> ELSE <<>>

\* settleCancelled.
Cancelled(s) ==
    CASE s = "prepared" -> <<"rolled_back">>
      [] s = "running" -> <<"cancelling", "cancelled">>
      [] s = "cancelling" -> <<"cancelled">>
      [] s = "verifying" -> <<"failed">>
      [] OTHER -> <<>>

\* MUTANT of AfterExit: a child that ended before it took the Run up fails it.
AfterExitFailed(s, cancel) ==
    IF s \in Lifecycle!TerminalStates THEN <<>>
    ELSE IF cancel THEN Cancelled(s) ELSE <<"failed">>

\* settleAfterExit.
AfterExit(s, cancel) ==
    IF s \in Lifecycle!TerminalStates THEN <<>>
    ELSE IF cancel THEN Cancelled(s)
    ELSE IF s = "prepared" THEN <<"rolled_back">> ELSE <<"failed">>

Leave == active' = NoItem /\ phase' = "idle"

\* An item whose Run is being settled leaves when the call is over.
LeaveIfOver ==
    IF phase = "settle" /\ call' = NoCall THEN Leave ELSE UNCHANGED <<active, phase>>

(* transitionRun: the kernel applies the next transition, or refuses it.   *)
(* What a refusal throws ends the call: cancel throws it on, before a      *)
(* recovered item is taken out of the queue and after a first start is;    *)
(* the catch of drain swallows it, and the item leaves.                    *)
Transition ==
    LET r == call.run
        to == Head(call.asks)
    IN  /\ up /\ call.asks # <<>>
        /\ \/ /\ Lifecycle!CanTransition(state[r], to)
              /\ state' = [state EXCEPT ![r] = to]
              /\ call' = Called(r, Tail(call.asks), call.withdraws)
           \/ /\ ~Lifecycle!CanTransition(state[r], to)
              /\ call' = NoCall
              /\ UNCHANGED state
        /\ LeaveIfOver
        /\ UNCHANGED <<up, routed, linked, started, exited, preparing, pending, childVars,
                       history>>

-----------------------------------------------------------------------------
(* Submissions.                                                            *)

\* A Message is submitted for the first time: its Run is created.
Create(r) ==
    /\ Turn /\ state[r] = Lifecycle!Unknown
    /\ preparing' = r
    /\ state' = [state EXCEPT ![r] = "prepared"]
    /\ routed' = IF r \in Explicit THEN routed \cup {r} ELSE routed
    /\ UNCHANGED <<up, linked, started, exited, pending, active, phase, call, childVars, history>>

\* MUTANT of Waits: the queue is not looked at.
WaitsByState(r) == state[r] = "prepared"

\* A prepared Run that is not in the queue goes into it.
Waits(r) == state[r] = "prepared" /\ r \notin Queued

\* The rest of prepare: the Message is linked and its Run queued, unless no runtime is found.
LinkAndQueue(r, available) ==
    /\ linked' = linked \cup {r}
    /\ pending' = IF Waits(r) /\ available THEN Append(pending, Start(r)) ELSE pending
    /\ call' = IF Waits(r) /\ ~available THEN Called(r, <<"rolled_back">>, FALSE) ELSE call
    /\ strays' = IF Waits(r) /\ Attended(r) THEN strays \cup {r} ELSE strays
    /\ preparing' = 0
    /\ UNCHANGED <<up, state, routed, started, exited, active, phase, childVars, deaths, asked>>

Prepare(available) == up /\ preparing # 0 /\ LinkAndQueue(preparing, available)

\* The Message is submitted again: the Run exists.
Resubmit(r, available) == Turn /\ state[r] # Lifecycle!Unknown /\ LinkAndQueue(r, available)

-----------------------------------------------------------------------------
(* The active item.                                                        *)

\* MUTANT of Withdrawn: runChild does not look at it.
WithdrawnNever(item) == FALSE

\* A recovered item whose cancellation threw and left it in the queue: it gets no child.
Withdrawn(item) == item.mode = "redispatch" /\ item.cancel

\* The head of the queue becomes active, unless its Run needs nothing any more.
Drain ==
    LET item == Head(pending)
        r == item.run
        stale == IF item.mode = "start" THEN state[r] # "prepared" ELSE Terminal(r)
    IN  /\ Turn /\ active = NoItem /\ pending # <<>>
        /\ pending' = Tail(pending)
        /\ \/ /\ stale
              /\ UNCHANGED <<active, phase>>
           \/ /\ ~stale
              /\ active' = item
              /\ phase' = CASE item.mode = "reattach" -> "reattach"
                            [] item.mode = "start" /\ r \notin routed -> "routing"
                            [] Withdrawn(item) -> "settle"
                            [] OTHER -> "begin"
        /\ UNCHANGED <<up, kernelVars, preparing, call, childVars, history>>

\* The router answers, or has timed out: the route is recorded. A refused Run is not executed.
Resolve(refused) ==
    /\ Turn /\ phase = "routing" /\ ~active.cancel
    /\ routed' = routed \cup {active.run}
    /\ IF refused
       THEN phase' = "settle" /\ call' = Called(active.run, <<"rolled_back">>, FALSE)
       ELSE phase' = "begin" /\ UNCHANGED call
    /\ UNCHANGED <<up, state, linked, started, exited, preparing, pending, active,
                   childVars, history>>

\* The routing of a cancelled item ends at once.
RoutingCancelled ==
    /\ Turn /\ phase = "routing" /\ active.cancel
    /\ phase' = "settle"
    /\ UNCHANGED <<up, kernelVars, preparing, pending, active, call, childVars, history>>

\* runChild: the child is spawned, and then its start is journaled.
Spawn ==
    LET r == active.run
    IN  /\ up /\ phase = "begin"
        /\ spawned[r] < MaxSpawns
        /\ spawned' = [spawned EXCEPT ![r] = @ + 1]
        /\ live' = live \cup {<<r, spawned[r] + 1>>}
        /\ active' = [active EXCEPT !.child = spawned[r] + 1, !.attempt = Len(started[r]) + 1]
        /\ phase' = "spawned"
        /\ UNCHANGED <<up, kernelVars, preparing, pending, call, history>>

JournalStart ==
    /\ up /\ phase = "spawned"
    /\ started' = [started EXCEPT ![active.run] = Append(@, active.child)]
    /\ phase' = "child"
    /\ UNCHANGED <<up, state, routed, linked, exited, preparing, pending, active, call,
                   childVars, history>>

\* MUTANT of Over: only the state of the Run is polled.
OverByState(item) == Terminal(item.run)

\* What the poll of a child of an earlier server waits for.
Over(item) == ~Alive(item) \/ Terminal(item.run)

\* The end of the active item's child is seen and journaled.
ExitSeen ==
    /\ Turn
    /\ \/ phase = "child" /\ ~Alive(active)
       \/ phase = "reattach" /\ Over(active)
    /\ exited' = [exited EXCEPT ![active.run] = @ \cup {active.attempt}]
    /\ phase' = "settle"
    /\ UNCHANGED <<up, state, routed, linked, started, preparing, pending, active, call,
                   childVars, history>>

\* The state of the Run is read, and what is to be asked for is known.
Settle ==
    /\ up /\ phase = "settle" /\ call = NoCall
    /\ call' = Called(active.run, AfterExit(state[active.run], active.cancel), FALSE)
    /\ LeaveIfOver
    /\ UNCHANGED <<up, kernelVars, preparing, pending, childVars, history>>

-----------------------------------------------------------------------------
(* Cancellation. The child is signalled first, if there is one.            *)

(* cancel of an item that waits: a first start leaves the queue and its    *)
(* Run is rolled back unread; for a recovered one the cancellation is      *)
(* requested.                                                              *)
CancelPending(i) ==
    LET item == pending[i]
        r == item.run
    IN  /\ Turn
        /\ \/ /\ item.mode = "start"
              /\ pending' = RemoveAt(pending, i)
              /\ call' = Called(r, <<"rolled_back">>, FALSE)
           \/ /\ item.mode # "start"
              /\ pending' = [pending EXCEPT ![i].cancel = TRUE]
              /\ call' = Called(r, Requested(state[r]), item.mode = "redispatch")
        /\ asked' = asked \cup {r}
        /\ UNCHANGED <<up, kernelVars, preparing, active, phase, childVars, deaths, strays>>

\* A cancelled item whose child is dead leaves the queue, and its Run is settled at once.
Withdraw ==
    /\ up /\ call.withdraws /\ call.asks = <<>>
    /\ \E i \in DOMAIN pending :
          pending[i].run = call.run /\ pending' = RemoveAt(pending, i)
    /\ call' = Called(call.run, Cancelled(state[call.run]), FALSE)
    /\ UNCHANGED <<up, kernelVars, preparing, active, phase, childVars, history>>

CancelActive ==
    /\ Turn /\ active # NoItem
    /\ active' = [active EXCEPT !.cancel = TRUE]
    /\ call' = Called(active.run, Requested(state[active.run]), FALSE)
    /\ asked' = asked \cup {active.run}
    /\ UNCHANGED <<up, kernelVars, preparing, pending, phase, childVars, deaths, strays>>

-----------------------------------------------------------------------------
(* Deaths and recovery. An orderly shutdown detaches from the children and *)
(* leaves the same things behind.                                          *)

Dies ==
    /\ up /\ deaths < MaxDeaths
    /\ up' = FALSE
    /\ deaths' = deaths + 1
    /\ preparing' = 0 /\ pending' = <<>> /\ call' = NoCall
    /\ strays' = {} /\ asked' = {}
    /\ Leave
    /\ UNCHANGED <<kernelVars, childVars>>

\* lastChildStart: the attempt started last, unless its exit was seen; 0 if there is none.
lastAttempt(r) == IF Len(started[r]) \in exited[r] THEN 0 ELSE Len(started[r])

\* MUTANT of pidAlive: every child of an earlier server is taken for dead.
pidAliveNever(r) == FALSE

pidAlive(r) == lastAttempt(r) # 0 /\ <<r, started[r][lastAttempt(r)]>> \in live

Adopted(r, mode) ==
    [run |-> r, mode |-> mode, child |-> started[r][lastAttempt(r)], attempt |-> lastAttempt(r),
     cancel |-> state[r] = "cancelling"]

\* A Run in flight whose child has died gets another child.
Redispatched(r) == state[r] \in Executing /\ ~pidAlive(r)

\* The Runs recover queues.
Recoverable(available) ==
    {r \in Run :
        IF state[r] = "prepared" THEN r \in linked /\ available
        ELSE /\ state[r] \in Executing \cup {"cancelling"} /\ lastAttempt(r) # 0
             /\ Redispatched(r) \/ pidAlive(r)}

\* The item recover queues for r.
Recovered(r) ==
    IF state[r] = "prepared" THEN Start(r)
    ELSE Adopted(r, IF Redispatched(r) THEN "redispatch" ELSE "reattach")

DeadCancelled(r) ==
    state[r] = "cancelling" /\ lastAttempt(r) # 0 /\ ~pidAlive(r) /\ ~Redispatched(r)

(* A starting server closes the Runs whose cancelled child has died. Where *)
(* a stray child moves such a Run between the read and the transition, the *)
(* refusal is thrown out of recover and ends the start, as a death at that *)
(* point would: nothing of the start remains, and another can follow.      *)
CloseDead(r) ==
    /\ ~up /\ DeadCancelled(r)
    /\ state' = [state EXCEPT ![r] = "cancelled"]
    /\ UNCHANGED <<up, routed, linked, started, exited, queueVars, childVars, history>>

\* A living child of r that no item follows, or not the item recover queues.
Strays(available) ==
    {r \in Recoverable(available) :
        \E k \in 1..MaxSpawns :
            /\ <<r, k>> \in live
            /\ Recovered(r).mode = "reattach" => k # Recovered(r).child}

\* When those are closed, recover queues the Runs it can go on with.
Boots(available) ==
    /\ ~up /\ \A r \in Run : ~DeadCancelled(r)
    /\ up' = TRUE
    /\ \E order \in [1..Cardinality(Recoverable(available)) -> Recoverable(available)] :
          /\ \A i, j \in DOMAIN order : i < j => order[i] < order[j]
          /\ pending' = [i \in DOMAIN order |-> Recovered(order[i])]
    /\ strays' = Strays(available)
    /\ UNCHANGED <<kernelVars, preparing, active, phase, call, childVars, deaths, asked>>

-----------------------------------------------------------------------------
(* Children. A dispatch drives the Run it adopts along the lifecycle. A    *)
(* transition the kernel refuses changes nothing; the child goes on        *)
(* without the kernel, tries another one or ends.                          *)

ChildMoves(r, to) ==
    /\ Attended(r)
    /\ Lifecycle!CanTransition(state[r], to)
    /\ state' = [state EXCEPT ![r] = to]
    /\ UNCHANGED <<up, routed, linked, started, exited, queueVars, childVars, history>>

ChildExits(c) ==
    /\ c \in live
    /\ live' = live \ {c}
    /\ UNCHANGED <<up, kernelVars, queueVars, spawned, history>>

Server == Drain \/ Resolve(FALSE) \/ Resolve(TRUE) \/ RoutingCancelled
              \/ Spawn \/ JournalStart \/ ExitSeen \/ Settle \/ Transition \/ Withdraw

Next ==
    \/ \E r \in Run : Create(r) \/ CloseDead(r)
    \/ \E available \in BOOLEAN : Prepare(available) \/ Boots(available)
    \/ \E r \in Run, available \in BOOLEAN : Resubmit(r, available)
    \/ Server
    \/ \E i \in DOMAIN pending : CancelPending(i)
    \/ CancelActive
    \/ Dies
    \/ \E r \in Run, to \in Moves : ChildMoves(r, to)
    \/ \E c \in live : ChildExits(c)

Spec == Init /\ [][Next]_vars

(* The server goes on with its queue, and a child exits at last: runtimes  *)
(* have timeouts. Nobody has to submit, cancel or start a server again.    *)
FairSpec ==
    /\ Spec
    /\ WF_vars(Server)
    /\ WF_vars(\E available \in BOOLEAN : Prepare(available))
    /\ \A c \in Run \X (1..MaxSpawns) : WF_vars(ChildExits(c))

-----------------------------------------------------------------------------
(* Properties.                                                             *)

TypeOK ==
    /\ up \in BOOLEAN
    /\ state \in [Run -> Lifecycle!States \cup {Lifecycle!Unknown}]
    /\ routed \subseteq Run /\ linked \subseteq Run
    /\ preparing \in Run \cup {0}
    /\ pending \in Seq(Item)
    /\ active \in Item \cup {NoItem}
    /\ phase \in {"idle", "routing", "begin", "spawned", "child", "reattach", "settle"}
    /\ phase = "idle" <=> active = NoItem
    /\ spawned \in [Run -> 0..MaxSpawns]
    /\ started \in [Run -> Seq(1..MaxSpawns)]
    /\ exited \in [Run -> SUBSET (1..MaxSpawns)]
    /\ \A r \in Run : exited[r] \subseteq DOMAIN started[r]
    /\ live \subseteq Run \X (1..MaxSpawns)
    /\ call \in Calls \cup {NoCall}
    /\ deaths \in 0..MaxDeaths
    /\ strays \subseteq Run /\ asked \subseteq Run

\* A Run is queued once: no two items, waiting or active, are for the same Run.
QueuedOnce ==
    /\ \A i, j \in DOMAIN pending : pending[i].run = pending[j].run => i = j
    /\ active.run \notin Pending

(* The server lets go of a Run, by leaving its item, dropping it from the  *)
(* queue or answering a cancel, only when the Run has reached a terminal   *)
(* state: whichever of the child's last transition, its exit, a            *)
(* cancellation and a restart came first, and whatever the child did       *)
(* between a read and the transitions that follow from it. Excepted is a   *)
(* Run queued beside a living child that its item does not follow: that    *)
(* one may have taken the Run up, the kernel then refuses, and the catch   *)
(* of drain lets go of a Run that is still open.                           *)
LeavesSettled ==
    [][\A r \in Held : r \notin Held' /\ up' /\ r \notin strays => Terminal(r)']_vars

(* A cancellation is kept: a server that was asked for it starts no child  *)
(* for the Run any more, also where the kernel refused the cancellation,   *)
(* cancel threw and the item stayed in the queue (ts:427), and where the   *)
(* Message is submitted again; and what the kernel shows as cancelling is  *)
(* not run again by any later server (ts:472-475).                         *)
CancelKept ==
    [][\A r \in Run :
          spawned'[r] > spawned[r] => r \notin asked /\ state[r] # "cancelling"]_vars

(* A Run recovered in flight is not doubled (ts:230-232 "polled until it   *)
(* exits, never spawned again"): beside a living child whose start is the  *)
(* last one journaled, another is spawned only for an item recovered as    *)
(* "start", whose Run that child has not taken up yet.                     *)
NotRespawned ==
    [][\A r \in Run :
          /\ spawned'[r] > spawned[r]
          /\ started[r] # <<>> /\ <<r, Last(started[r])>> \in live
          => active.mode = "start"]_vars

(* A Run that is queued ends, unless the server dies or a living child     *)
(* that its item does not follow has a hand in it.                         *)
Served == \A r \in Run : (r \in Queued /\ r \notin strays) ~> Terminal(r) \/ ~up
=============================================================================
