------------------------- MODULE MultiTargetProofs -------------------------
(* What the coordinator of a multi-target plan guarantees for any plan, any  *)
(* number of overlapping commands, kills, lost leases and retries.           *)
EXTENDS MultiTarget, MultiTargetPlanProofs, TLAPS

-----------------------------------------------------------------------------
(* What a coordinator has in memory                                         *)

Places == {"away", "seed", "load", "plan", "announce", "run", "release", "end", "finish"}

\* The types of node events, and "none".
Types == {"none", "node_stalled", "node_skipped", "support_completed", "node_started",
          "delivered", "withheld", "failed", "budget_exceeded"}

Notes == [reason : {"none", "no lease", "no claim", "blocked"}, blockedBy : SUBSET Nodes]
Words == [node : Nodes \cup {0}, type : Types, note : Notes]
Event == [type : Types, node : Nodes, rec : NodeRec, note : Notes]

Working == [state : {"run", "abort"}, cost : Costs]
Answers == [state : {"delivered", "withheld", "failed"}, cost : Costs]

Memory == [at : Places, owner : Owners \cup {NoOwner}, run : Runs, snap : Snapshot,
           wave : Nat, todo : SUBSET Nodes, word : Words,
           job : [Nodes -> {NoJob} \cup Working \cup Answers]]

Deliveries == {"delivered", "support_completed"}

\* What snapshot s calls delivered is among the nodes D.
Known(s, D) == \A n \in Nodes : s.nodes[n].state = "delivered" => n \in D

(* A coordinator's memory when the nodes D are journaled as delivered: what *)
(* its snapshot calls delivered is journaled, or is what it is about to     *)
(* journal; what it started had its dependencies journaled.                 *)
Sound(c, D, deps) ==
    /\ c.at = "announce" => c.word.node \in Nodes
    /\ c.at = "finish" => c.snap.state \in TerminalPlans
    /\ \A n \in Nodes : c.snap.nodes[n].state = "delivered" =>
          \/ n \in D
          \/ c.at = "announce" /\ c.word.node = n /\ c.word.type = "support_completed"
    /\ c.at = "announce" /\ c.word.type = "node_started" => deps[c.word.node] \subseteq D
    /\ \A n \in Nodes : c.job[n] # NoJob => deps[n] \subseteq D

Typed ==
    /\ plan \in Plans
    /\ run \in [Runs -> RunStates]
    /\ proj \in [Runs -> Snapshot]
    /\ events \in [Runs -> SUBSET Event]
    /\ marker \in [Nodes -> [attempt : Nat, result : Answers]]
    /\ co \in [procs -> Memory]

DepsInv ==
    /\ Typed
    /\ \A r \in Runs : Known(proj[r], Delivered)
    /\ \A p \in procs : Sound(co[p], Delivered, plan.deps)

-----------------------------------------------------------------------------
LEMMA Values ==
    /\ 1 \in Runs /\ Runs \subseteq Nat
    /\ 0 \in Costs
    /\ \A r \in Results : r \in Answers
    /\ Answers \subseteq NodeRec
    /\ Pending \in NodeRec
    /\ NoSnapshot \in Snapshot /\ initialSnapshot \in Snapshot
    /\ NoWord \in Words /\ NoNote \in Notes
<1>1. 1 \in Runs /\ Runs \subseteq Nat
  BY MultiTargetAssumption DEF Runs
<1>2. 0 \in Costs /\ \A r \in Results : r \in Answers
  BY MultiTargetAssumption DEF Costs, Answers
<1>3. Answers \subseteq NodeRec /\ Pending \in NodeRec
  BY <1>2 DEF Answers, NodeRec, NodeStates, Pending
<1>4. NoSnapshot \in Snapshot /\ initialSnapshot \in Snapshot
  BY <1>3 DEF NoSnapshot, initialSnapshot, Snapshot, PlanStates
<1>5. NoNote \in Notes
  BY DEF NoNote, Note, Notes
<1>6. NoWord \in Words
  BY <1>5 DEF NoWord, Words, Types
<1> QED
  BY <1>1, <1>2, <1>3, <1>4, <1>5, <1>6

LEMMA AwayIsSound ==
    /\ Away \in Memory
    /\ \A D, deps : Sound(Away, D, deps)
<1>1. Away \in Memory
  BY Values DEF Away, Memory, Places
<1>2. ASSUME NEW D, NEW deps PROVE Sound(Away, D, deps)
  BY DEF Away, Sound, NoSnapshot, Pending
<1> QED
  BY <1>1, <1>2

\* More deliveries leave a coordinator's memory sound.
LEMMA SoundGrows ==
    ASSUME NEW c, NEW D, NEW E, NEW deps, D \subseteq E, Sound(c, D, deps)
    PROVE  Sound(c, E, deps)
BY DEF Sound

LEMMA KnownGrows ==
    ASSUME NEW s, NEW D, NEW E, D \subseteq E, Known(s, D)
    PROVE  Known(s, E)
BY DEF Known

LEMMA DeliveredNodes ==
    ASSUME Typed PROVE Delivered \subseteq Nodes
BY DEF Typed, Delivered, Event

\* A step that changes what p has in memory and no table.
LEMMA MemoryKeeps ==
    ASSUME DepsInv, NEW p \in procs, NEW next \in Memory, Sound(next, Delivered, plan.deps),
           co' = [co EXCEPT ![p] = next],
           UNCHANGED <<plan, proj, events>>, run' \in [Runs -> RunStates],
           marker' \in [Nodes -> [attempt : Nat, result : Answers]]
    PROVE  DepsInv'
<1>1. Delivered' = Delivered
  BY DEF Delivered
<1>2. Typed'
  BY DEF DepsInv, Typed
<1>3. \A q \in procs : co'[q] = co[q] \/ co'[q] = next
  BY DEF DepsInv, Typed
<1> QED
  BY <1>1, <1>2, <1>3 DEF DepsInv

\* A port call that saves snapshot s, or throws.
LEMMA SaveKeeps ==
    ASSUME DepsInv, NEW p \in procs, NEW s \in Snapshot, Known(s, Delivered),
           NEW next \in Memory, Sound(next, Delivered, plan.deps), Save(p, s, next),
           UNCHANGED <<compiled, run, marker>>
    PROVE  DepsInv'
<1>1. Delivered' = Delivered
  BY DEF Save, Throws, Delivered
<1>2. /\ proj' \in [Runs -> Snapshot]
      /\ \A r \in Runs : proj'[r] = proj[r] \/ proj'[r] = s
  BY DEF Save, Throws, DepsInv, Typed
<1>3. co' = [co EXCEPT ![p] = next] \/ co' = [co EXCEPT ![p] = Away]
  BY DEF Save, Throws
<1>4. /\ co' \in [procs -> Memory]
      /\ \A q \in procs : co'[q] = co[q] \/ co'[q] = next \/ co'[q] = Away
  BY <1>3, AwayIsSound DEF DepsInv, Typed
<1>5. Typed'
  BY <1>2, <1>4 DEF Typed, DepsInv, compiled, Save, Throws
<1>6. plan' = plan
  BY DEF compiled
<1> QED
  BY <1>1, <1>2, <1>4, <1>5, <1>6, AwayIsSound DEF DepsInv

\* A port call that journals node n's record, or throws.
LEMMA EmitKeeps ==
    ASSUME DepsInv, NEW p \in procs, NEW n \in Nodes, NEW rec \in NodeRec, NEW type \in Types,
           NEW note \in Notes,
           rec.state = "delivered" => n \in Delivered \/ type \in Deliveries,
           NEW next \in Memory,
           Sound(next, Delivered \cup (IF type \in Deliveries THEN {n} ELSE {}), plan.deps),
           Emit(p, n, rec, type, note, next),
           UNCHANGED <<compiled, run, marker>>
    PROVE  DepsInv' /\ Delivered \subseteq Delivered'
<1> DEFINE e == [type |-> type, node |-> n, rec |-> rec, note |-> note]
           new == IF type \in Deliveries THEN {n} ELSE {}
<1>0. plan' = plan
  BY DEF compiled
<1>1. e \in Event /\ co[p].run \in Runs
  BY DEF Event, DepsInv, Typed, Memory
<1>2. CASE Throws(p) /\ proj' = proj /\ events' = events
  <2>1. Delivered' = Delivered
    BY <1>2 DEF Delivered
  <2> QED
    BY <1>0, <1>2, <2>1, AwayIsSound, MemoryKeeps DEF Throws, DepsInv, Typed
<1>3. CASE /\ co' = [co EXCEPT ![p] = next]
           /\ events' = [events EXCEPT ![co[p].run] = @ \cup {e}]
           /\ \/ proj' = [proj EXCEPT ![co[p].run].nodes[n] = rec,
                                      ![co[p].run].state = "running"]
              \/ proj' = proj
  <2>1. events' \in [Runs -> SUBSET Event] /\ \A r \in Runs : events[r] \subseteq events'[r]
    BY <1>1, <1>3 DEF DepsInv, Typed
  <2>2. Delivered \subseteq Delivered'
    BY <2>1 DEF Delivered
  <2>3. e \in events'[co[p].run]
    BY <1>1, <1>3 DEF DepsInv, Typed
  <2>4. new \subseteq Delivered'
    BY <1>1, <2>3 DEF Delivered, Deliveries
  <2>5. proj' \in [Runs -> Snapshot] /\ \A r \in Runs : Known(proj'[r], Delivered')
    <3>1. CASE proj' = proj
      BY <2>2, <3>1, KnownGrows DEF DepsInv, Typed
    <3>2. CASE proj' = [proj EXCEPT ![co[p].run].nodes[n] = rec, ![co[p].run].state = "running"]
      <4> DEFINE r0 == co[p].run
                 s0 == proj[r0]
                 s1 == [s0 EXCEPT !.nodes = [s0.nodes EXCEPT ![n] = rec], !.state = "running"]
      <4>0. s0 \in Snapshot /\ s1 \in Snapshot
        BY <1>1 DEF DepsInv, Typed, Snapshot, PlanStates
      <4>1. proj' \in [Runs -> Snapshot] /\ proj' = [proj EXCEPT ![r0] = s1]
        BY <1>1, <3>2, <4>0 DEF DepsInv, Typed
      <4>2. ASSUME NEW r \in Runs, NEW m \in Nodes, proj'[r].nodes[m].state = "delivered"
            PROVE  m \in Delivered'
        <5>1. CASE r = co[p].run /\ m = n
          <6>1. rec.state = "delivered"
            BY <3>2, <4>2, <5>1 DEF DepsInv, Typed, Snapshot
          <6> QED
            BY <2>2, <2>4, <5>1, <6>1
        <5>2. CASE ~(r = co[p].run /\ m = n)
          <6>1. proj[r].nodes[m].state = "delivered"
            BY <3>2, <4>2, <5>2 DEF DepsInv, Typed, Snapshot
          <6> QED
            BY <2>2, <6>1 DEF DepsInv, Known
        <5> QED
          BY <5>1, <5>2
      <4> QED
        BY <4>1, <4>2 DEF Known
    <3> QED
      BY <1>3, <3>1, <3>2
  <2>6. co' \in [procs -> Memory] /\ \A q \in procs : co'[q] = co[q] \/ co'[q] = next
    BY <1>3 DEF DepsInv, Typed
  <2>7. \A q \in procs : Sound(co'[q], Delivered', plan.deps)
    BY <2>2, <2>4, <2>6, SoundGrows DEF DepsInv
  <2>8. Typed'
    BY <1>0, <2>1, <2>5, <2>6 DEF DepsInv, Typed
  <2> QED
    BY <1>0, <2>2, <2>5, <2>7, <2>8 DEF DepsInv
<1> QED
  BY <1>2, <1>3 DEF Emit, Throws

-----------------------------------------------------------------------------
(* One lemma per action                                                     *)

LEMMA DepsInit == Init => DepsInv
<1> SUFFICES ASSUME Init PROVE DepsInv
  OBVIOUS
<1>1. Typed
  <2>1. NoMarker \in [attempt : Nat, result : Answers]
    BY Values DEF NoMarker, Answers
  <2>2. "none" \in RunStates
    BY DEF RunStates
  <2> QED
    BY <2>1, <2>2, Values, AwayIsSound DEF Init, Typed
<1>2. \A r \in Runs : Known(proj[r], Delivered)
  BY DEF Init, Known, NoSnapshot, Pending
<1> QED
  BY <1>1, <1>2, AwayIsSound DEF DepsInv, Init

LEMMA LatestIsRun ==
    ASSUME DepsInv
    PROVE  Latest \in 0..MaxRuns
<1> DEFINE known == {r \in Runs : run[r] # "none"}
<1>1. IsFiniteSet(1..MaxRuns) /\ Cardinality(1..MaxRuns) = MaxRuns
  BY MultiTargetAssumption, FS_Interval
<1>2. Cardinality(known) \in Nat /\ Cardinality(known) <= MaxRuns
  BY <1>1, FS_Subset, FS_CardinalityType DEF Runs
<1> QED
  BY <1>2, MultiTargetAssumption DEF Latest

LEMMA InvokeKeeps ==
    ASSUME DepsInv, NEW p \in procs, NEW o \in Owners, Invoke(p, o)
    PROVE  DepsInv'
<1> DEFINE r == IF Latest = 0 THEN 1 ELSE Latest
           next == [Away EXCEPT !.at = "load", !.owner = o, !.run = r]
<1>1. r \in Runs
  BY LatestIsRun, Values, MultiTargetAssumption DEF Runs
<1>2. /\ co' = [co EXCEPT ![p] = next]
      /\ run' = [run EXCEPT ![r] = "open"]
      /\ UNCHANGED <<compiled, proj, events, marker>>
  BY DEF Invoke
<1>3. next \in Memory
  BY <1>1, AwayIsSound DEF Memory, Places
<1>4. Sound(next, Delivered, plan.deps)
  BY DEF Away, Sound, NoSnapshot, Pending
<1>5. run' \in [Runs -> RunStates]
  BY <1>1, <1>2 DEF DepsInv, Typed, RunStates
<1> QED
  BY <1>2, <1>3, <1>4, <1>5, MemoryKeeps DEF compiled, DepsInv, Typed

LEMMA RetryKeeps ==
    ASSUME DepsInv, NEW p \in procs, NEW o \in Owners, Retry(p, o)
    PROVE  DepsInv'
<1> DEFINE prev == proj[Latest]
           nodes == [n \in Nodes |-> Reopened(prev.nodes[n])]
           s == [state |-> "ready", version |-> prev.version + 1,
                 attempt |-> prev.attempt + 1, nodes |-> nodes]
           next == [Away EXCEPT !.at = "seed", !.owner = o, !.run = Latest + 1, !.snap = s]
<1>1. Latest \in Runs /\ Latest + 1 \in Runs
  BY MultiTargetAssumption DEF Retry, Runs
<1>2. /\ co' = [co EXCEPT ![p] = next]
      /\ run' = [run EXCEPT ![Latest + 1] = "open"]
      /\ UNCHANGED <<compiled, proj, events, marker>>
  BY DEF Retry
<1>3. prev \in Snapshot /\ Known(prev, Delivered)
  BY <1>1 DEF DepsInv, Typed
<1>4. /\ nodes \in [Nodes -> NodeRec]
      /\ \A n \in Nodes : nodes[n].state = "delivered" => n \in Delivered
  BY <1>3, Values DEF Snapshot, Reopened, Known, Pending
<1> HIDE DEF nodes
<1>5. s \in Snapshot
  BY <1>3, <1>4 DEF Snapshot, PlanStates
<1>6. next \in Memory
  BY <1>1, <1>5, AwayIsSound DEF Memory, Places
<1>7. Sound(next, Delivered, plan.deps)
  BY <1>4 DEF Away, Sound
<1>8. run' \in [Runs -> RunStates]
  BY <1>1, <1>2 DEF DepsInv, Typed, RunStates
<1> QED
  BY <1>2, <1>6, <1>7, <1>8, MemoryKeeps DEF compiled, DepsInv, Typed

LEMMA SeedKeeps ==
    ASSUME DepsInv, NEW p \in procs, Seed(p)
    PROVE  DepsInv'
<1> DEFINE me == co[p]
           next == [me EXCEPT !.at = "load"]
<1>1. me \in Memory /\ Sound(me, Delivered, plan.deps) /\ me.at = "seed"
  BY DEF DepsInv, Typed, Seed
<1>2. me.snap \in Snapshot /\ Known(me.snap, Delivered)
  BY <1>1 DEF Memory, Sound, Known
<1>3. next \in Memory /\ Sound(next, Delivered, plan.deps)
  BY <1>1 DEF Memory, Sound, Places
<1> QED
  BY <1>2, <1>3, SaveKeeps DEF Seed

\* At the beginning of a wave or at the end, nothing is announced or started.
LEMMA BeforeIsSound ==
    ASSUME NEW me \in Memory, NEW w \in Nat, NEW D, NEW deps, Known(me.snap, D),
           \A n \in Nodes : me.job[n] # NoJob => deps[n] \subseteq D
    PROVE  /\ Before(me, w) \in Memory
           /\ Sound(Before(me, w), D, deps)
<1>1. Unplanned(me.snap, w) \subseteq Nodes
  BY DEF Unplanned
<1> HIDE DEF Unplanned
<1>2. Before(me, w) \in Memory
  BY <1>1 DEF Before, Memory, Places
<1>3. /\ Before(me, w).at \in {"end", "plan"}
      /\ Before(me, w).snap = me.snap
      /\ \A n \in Nodes : Before(me, w).job[n] \in {NoJob, me.job[n]}
  BY DEF Before, Memory
<1>4. Sound(Before(me, w), D, deps)
  BY <1>3 DEF Sound, Known
<1> QED
  BY <1>2, <1>4

LEMMA LoadKeeps ==
    ASSUME DepsInv, NEW p \in procs, Load(p)
    PROVE  DepsInv'
<1> DEFINE me == co[p]
           s == proj[me.run]
<1>1. me \in Memory /\ Sound(me, Delivered, plan.deps) /\ me.at = "load"
  BY DEF DepsInv, Typed, Load
<1>2. s \in Snapshot /\ Known(s, Delivered)
  BY <1>1 DEF DepsInv, Typed, Memory
<1>3. \A n \in Nodes : me.job[n] # NoJob => plan.deps[n] \subseteq Delivered
  BY <1>1 DEF Sound
<1>4. UNCHANGED <<compiled, run, marker>>
  BY DEF Load
<1>5. CASE Save(p, initialSnapshot, Before([me EXCEPT !.snap = initialSnapshot], 1))
  <2> DEFINE from == [me EXCEPT !.snap = initialSnapshot]
  <2>1. Known(initialSnapshot, Delivered)
    BY DEF Known, initialSnapshot, NoSnapshot, Pending
  <2>2. from \in Memory /\ from.snap = initialSnapshot /\ from.job = me.job
    BY <1>1, Values DEF Memory
  <2> HIDE DEF from
  <2>3. Before(from, 1) \in Memory /\ Sound(Before(from, 1), Delivered, plan.deps)
    BY <1>3, <2>1, <2>2, BeforeIsSound
  <2> QED
    BY <1>4, <1>5, <2>1, <2>3, Values, SaveKeeps DEF from
<1>6. CASE /\ co' = [co EXCEPT ![p] =
                    IF s.state \in TerminalPlans THEN [me EXCEPT !.at = "finish", !.snap = s]
                    ELSE Before([me EXCEPT !.snap = s], 1)]
           /\ UNCHANGED <<proj, saved, events>>
  <2> DEFINE from == [me EXCEPT !.snap = s]
             done == [me EXCEPT !.at = "finish", !.snap = s]
  <2>1. from \in Memory /\ from.snap = s /\ from.job = me.job
    BY <1>1, <1>2 DEF Memory
  <2>2. /\ done \in Memory
        /\ s.state \in TerminalPlans => Sound(done, Delivered, plan.deps)
    BY <1>1, <1>2 DEF Memory, Places, Sound, Known
  <2> HIDE DEF from, done
  <2>3. Before(from, 1) \in Memory /\ Sound(Before(from, 1), Delivered, plan.deps)
    BY <1>2, <1>3, <2>1, BeforeIsSound
  <2>4. \/ s.state \in TerminalPlans /\ co' = [co EXCEPT ![p] = done]
        \/ co' = [co EXCEPT ![p] = Before(from, 1)]
    BY <1>6 DEF from, done
  <2> QED
    BY <1>4, <1>6, <2>2, <2>3, <2>4, MemoryKeeps DEF compiled, DepsInv, Typed
<1> QED
  BY <1>5, <1>6 DEF Load

LEMMA PlanNodeKeeps ==
    ASSUME DepsInv, NEW p \in procs, NEW n \in Nodes, PlanNode(p, n)
    PROVE  DepsInv'
<1> DEFINE me == co[p]
           rec(state) == [me.snap.nodes[n] EXCEPT !.state = state]
           nodes(state) == [me.snap.nodes EXCEPT ![n] = rec(state)]
           snap(state) == [me.snap EXCEPT !.nodes = nodes(state)]
           decided(state, type, note) ==
               [me EXCEPT !.at = "announce", !.snap = snap(state),
                          !.word = [node |-> n, type |-> type, note |-> note]]
<1>1. me \in Memory /\ Sound(me, Delivered, plan.deps) /\ me.at = "plan"
  BY DEF DepsInv, Typed, PlanNode
<1>2. blockedBy(p, n) \subseteq Nodes
  BY MultiTargetAssumption DEF blockedBy, DepsInv, Typed
<1>3. blockedBy(p, n) = {} => plan.deps[n] \subseteq Delivered
  <2>1. ASSUME NEW d \in plan.deps[n], d \notin blockedBy(p, n) PROVE d \in Delivered
    <3>1. d \in Nodes
      BY MultiTargetAssumption DEF DepsInv, Typed
    <3>2. me.snap.nodes[d].state = "delivered"
      BY <2>1 DEF blockedBy
    <3> QED
      BY <1>1, <3>1, <3>2 DEF Sound
  <2> QED
    BY <2>1
<1>4. PICK state \in NodeStates, type \in Types, note \in Notes :
         /\ Decide(p, n, state, type, note)
         /\ state = "delivered" => type = "support_completed"
         /\ type = "node_started" => blockedBy(p, n) = {}
  <2>1. /\ Note("no lease", {}) \in Notes /\ Note("no claim", {}) \in Notes
        /\ Note("blocked", blockedBy(p, n)) \in Notes
    BY <1>2 DEF Note, Notes
  <2> QED
    BY <2>1, Values DEF PlanNode, Types, NodeStates
<1>5. co' = [co EXCEPT ![p] = decided(state, type, note)]
  BY <1>1, <1>4 DEF Decide, DepsInv, Typed
<1>6. snap(state) \in Snapshot
  <2>1. rec(state) \in NodeRec
    BY <1>1 DEF Memory, Snapshot, NodeRec
  <2>2. nodes(state) \in [Nodes -> NodeRec]
    BY <1>1, <2>1 DEF Memory, Snapshot
  <2> QED
    BY <1>1, <2>2 DEF Memory, Snapshot
<1>7. decided(state, type, note) \in Memory
  BY <1>1, <1>6 DEF Memory, Places, Words
<1>9. Sound(decided(state, type, note), Delivered, plan.deps)
  <2>1. \A m \in Nodes : snap(state).nodes[m].state = IF m = n THEN state
                                                     ELSE me.snap.nodes[m].state
    BY <1>1 DEF Memory, Snapshot, NodeRec
  <2> HIDE DEF snap
  <2> QED
    BY <1>1, <1>3, <1>4, <2>1 DEF Sound, Memory
<1>8. UNCHANGED <<compiled, journal, marker>>
  BY DEF PlanNode
<1> QED
  BY <1>5, <1>7, <1>8, <1>9, MemoryKeeps DEF compiled, journal, DepsInv, Typed

LEMMA AnnounceKeeps ==
    ASSUME DepsInv, NEW p \in procs, Announce(p)
    PROVE  DepsInv' /\ Delivered \subseteq Delivered'
<1> DEFINE me == co[p]
           n == me.word.node
           started == me.word.type = "node_started"
           next == [me EXCEPT !.at = "plan", !.todo = @ \ {n}, !.word = NoWord,
                              !.job[n] = IF started THEN [state |-> "run", cost |-> 0] ELSE @]
           new == IF me.word.type \in Deliveries THEN {n} ELSE {}
<1>1. me \in Memory /\ Sound(me, Delivered, plan.deps) /\ me.at = "announce"
  BY DEF DepsInv, Typed, Announce
<1>2. n \in Nodes /\ me.word.type \in Types /\ me.word.note \in Notes
  BY <1>1 DEF Sound, Memory, Words
<1>3. me.snap.nodes[n] \in NodeRec
  BY <1>1, <1>2 DEF Memory, Snapshot
<1>4. me.snap.nodes[n].state = "delivered" => n \in Delivered \/ me.word.type \in Deliveries
  BY <1>1, <1>2 DEF Sound, Deliveries
<1>5. [state |-> "run", cost |-> 0] \in Working
  BY Values DEF Working
<1>6. next \in Memory
  BY <1>1, <1>2, <1>5, Values DEF Memory, Places
<1>7. /\ next.at = "plan" /\ next.snap = me.snap
      /\ \A m \in Nodes : next.job[m] # NoJob => me.job[m] # NoJob \/ (m = n /\ started)
  BY <1>1 DEF Memory
<1>8. Sound(next, Delivered \cup new, plan.deps)
  BY <1>1, <1>7 DEF Sound, Deliveries
<1> HIDE DEF next
<1>9. Emit(p, n, me.snap.nodes[n], me.word.type, me.word.note, next)
  BY DEF Announce, next
<1> QED
  BY <1>2, <1>3, <1>4, <1>6, <1>8, <1>9, EmitKeeps DEF Announce

LEMMA NextVersion ==
    ASSUME NEW s \in Snapshot, NEW state \in PlanStates
    PROVE  LET t == [s EXCEPT !.state = state, !.version = @ + 1]
           IN  t \in Snapshot /\ t.nodes = s.nodes /\ t.state = state
<1> DEFINE u == [s EXCEPT !.state = state]
           v == [u EXCEPT !.version = @ + 1]
           t == [s EXCEPT !.state = state, !.version = @ + 1]
<1>1. u \in Snapshot /\ u.nodes = s.nodes /\ u.state = state
  BY DEF Snapshot
<1>2. v \in Snapshot /\ v.nodes = u.nodes /\ v.state = u.state
  <2> HIDE DEF u
  <2> QED
    BY <1>1 DEF Snapshot
<1>3. u.version = s.version
  BY DEF Snapshot
<1>4. t = v
  BY <1>3
<1> QED
  BY <1>1, <1>2, <1>4

\* An answer, or a failure where the lease was lost.
LEMMA SurfacedIsAnswer ==
    ASSUME NEW l, NEW o, NEW result \in Answers
    PROVE  Surfaced(l, o, result) \in Answers
BY DEF Surfaced, Answers

LEMMA StartWaveKeeps ==
    ASSUME DepsInv, NEW p \in procs, StartWave(p)
    PROVE  DepsInv'
<1> DEFINE me == co[p]
           s == [me.snap EXCEPT !.state = "running", !.version = @ + 1]
           job == [n \in Nodes |-> IF n \in Runnable(p) THEN Dispatched(p, n) ELSE NoJob]
           next == [me EXCEPT !.at = "run", !.snap = s, !.job = job]
<1>1. me \in Memory /\ Sound(me, Delivered, plan.deps) /\ me.at = "plan"
  BY DEF DepsInv, Typed, StartWave
<1>2. s \in Snapshot /\ s.nodes = me.snap.nodes
  <2>1. me.snap \in Snapshot /\ "running" \in PlanStates
    BY <1>1 DEF Memory, PlanStates
  <2> QED
    BY <2>1, NextVersion
<1>3. \A n \in Nodes : Dispatched(p, n) \in Working \cup Answers
  BY SurfacedIsAnswer, Values DEF Dispatched, DepsInv, Typed, Working
<1>4. job \in [Nodes -> {NoJob} \cup Working \cup Answers]
  BY <1>3
<1>5. \A n \in Nodes : job[n] # NoJob => me.job[n] # NoJob
  BY DEF Runnable
<1> HIDE DEF job, s
<1>6. next \in Memory
  BY <1>1, <1>2, <1>4 DEF Memory, Places
<1>7. next.at = "run" /\ next.snap = s /\ next.job = job
  BY <1>1 DEF Memory
<1>8. Known(s, Delivered) /\ Sound(next, Delivered, plan.deps)
  BY <1>1, <1>2, <1>5, <1>7 DEF Sound, Known
<1>9. Save(p, s, next) /\ UNCHANGED <<compiled, run, marker>>
  BY DEF StartWave, job, s
<1> QED
  BY <1>2, <1>6, <1>8, <1>9, SaveKeeps

\* A step that changes one job of p, which is at work on that node.
LEMMA JobKeeps ==
    ASSUME DepsInv, NEW p \in procs, NEW n \in Nodes, NEW j \in Working \cup Answers,
           co[p].at = "run", Active(p, n),
           co' = [co EXCEPT ![p].job[n] = j],
           UNCHANGED <<compiled, journal>>,
           marker' \in [Nodes -> [attempt : Nat, result : Answers]]
    PROVE  DepsInv'
<1> DEFINE me == co[p]
           next == [me EXCEPT !.job = [me.job EXCEPT ![n] = j]]
<1>1. me \in Memory /\ Sound(me, Delivered, plan.deps)
  BY DEF DepsInv, Typed
<1>2. next \in Memory
  BY <1>1 DEF Memory
<1>3. me.job[n] # NoJob
  BY DEF Active, NoJob
<1>4. /\ next.at = "run" /\ next.snap = me.snap
      /\ \A m \in Nodes : next.job[m] # NoJob => me.job[m] # NoJob
  BY <1>1, <1>3 DEF Memory
<1> HIDE DEF next
<1>5. Sound(next, Delivered, plan.deps)
  BY <1>1, <1>4 DEF Sound
<1>6. co' = [co EXCEPT ![p] = next]
  BY DEF DepsInv, Typed, next
<1> QED
  BY <1>2, <1>5, <1>6, MemoryKeeps DEF compiled, journal, DepsInv, Typed

LEMMA HeartbeatKeeps ==
    ASSUME DepsInv, NEW p \in procs, NEW n \in Nodes, HeartbeatFails(p, n)
    PROVE  DepsInv'
<1> DEFINE j == [co[p].job[n] EXCEPT !.state = "abort"]
<1>1. co[p] \in Memory /\ co[p].at = "run" /\ Active(p, n) /\ co[p].job[n].state = "run"
  BY DEF DepsInv, Typed, HeartbeatFails, Active
<1>2. j \in Working
  BY <1>1 DEF Memory, Working, Answers, NoJob
<1>3. co' = [co EXCEPT ![p].job[n] = j]
  BY <1>1 DEF HeartbeatFails, DepsInv, Typed, Memory
<1> QED
  BY <1>1, <1>2, <1>3, JobKeeps DEF HeartbeatFails, DepsInv, Typed

LEMMA ChildEndsKeeps ==
    ASSUME DepsInv, NEW p \in procs, NEW n \in Nodes, NEW result \in Results,
           ChildEnds(p, n, result)
    PROVE  DepsInv'
<1> DEFINE me == co[p]
<1>1. me \in Memory /\ me.at = "run" /\ Active(p, n) /\ result \in Answers
  BY Values DEF DepsInv, Typed, ChildEnds
<1>2. UNCHANGED <<compiled, journal>>
  BY DEF ChildEnds
<1>3. CASE /\ co' = [co EXCEPT ![p].job[n] = [state |-> "failed", cost |-> 0]]
           /\ UNCHANGED marker
  <2>1. [state |-> "failed", cost |-> 0] \in Answers
    BY Values DEF Answers
  <2> QED
    BY <1>1, <1>2, <1>3, <2>1, JobKeeps DEF DepsInv, Typed
<1>4. CASE /\ marker' = [marker EXCEPT ![n] = [attempt |-> me.snap.attempt, result |-> result]]
           /\ co' = [co EXCEPT ![p].job[n] = Surfaced(lease[me.run][n], me.owner, result)]
  <2>1. marker' \in [Nodes -> [attempt : Nat, result : Answers]]
    BY <1>1, <1>4 DEF DepsInv, Typed, Memory, Snapshot
  <2>2. Surfaced(lease[me.run][n], me.owner, result) \in Answers
    BY <1>1, SurfacedIsAnswer
  <2> QED
    BY <1>1, <1>2, <1>4, <2>1, <2>2, JobKeeps
<1> QED
  BY <1>3, <1>4 DEF ChildEnds

LEMMA RecordKeeps ==
    ASSUME DepsInv, NEW p \in procs, NEW n \in Nodes, Record(p, n)
    PROVE  DepsInv' /\ Delivered \subseteq Delivered'
<1> DEFINE me == co[p]
           rec == Verdict(n, me.job[n])
           type == IF OverGrant(n, me.job[n]) THEN "budget_exceeded" ELSE rec.state
           word == [node |-> n, type |-> type, note |-> NoNote]
           nodes == [me.snap.nodes EXCEPT ![n] = rec]
           snap == [me.snap EXCEPT !.nodes = nodes]
           next == [me EXCEPT !.at = "release", !.snap = snap, !.word = word]
           new == IF type \in Deliveries THEN {n} ELSE {}
<1>1. me \in Memory /\ Sound(me, Delivered, plan.deps) /\ me.at = "run"
  BY DEF DepsInv, Typed, Record
<1>2. me.job[n] \in Answers
  BY <1>1 DEF Record, Active, Runnable, Memory, Working
<1>3. rec \in Answers /\ (OverGrant(n, me.job[n]) => rec.state = "failed")
  BY <1>2 DEF Verdict, Answers
<1>4. type \in Types /\ (rec.state = "delivered" => type = "delivered")
  BY <1>3 DEF Answers, Types
<1> HIDE DEF rec, type
<1>5. rec \in NodeRec /\ word \in Words
  BY <1>3, <1>4, Values DEF Words
<1>6. snap \in Snapshot
  BY <1>1, <1>5 DEF Memory, Snapshot
<1>7. \A m \in Nodes : snap.nodes[m] = IF m = n THEN rec ELSE me.snap.nodes[m]
  BY <1>1 DEF Memory, Snapshot
<1> HIDE DEF snap, word
<1>8. next \in Memory
  BY <1>1, <1>5, <1>6 DEF Memory, Places
<1>9. next.at = "release" /\ next.snap = snap /\ next.job = me.job
  BY <1>1 DEF Memory
<1>10. Sound(next, Delivered \cup new, plan.deps)
  BY <1>1, <1>4, <1>7, <1>9 DEF Sound, Deliveries
<1>11. next = [me EXCEPT !.at = "release", !.snap.nodes[n] = rec, !.word = word]
  BY <1>1 DEF Memory, Snapshot, snap
<1> HIDE DEF next
<1>12. Emit(p, n, rec, type, NoNote, next)
  BY <1>11 DEF Record, rec, type, word
<1> QED
  BY <1>4, <1>5, <1>8, <1>10, <1>12, Values, EmitKeeps DEF Record, Deliveries

LEMMA ReleaseKeeps ==
    ASSUME DepsInv, NEW p \in procs, Release(p)
    PROVE  DepsInv'
<1> DEFINE me == co[p]
           next == [me EXCEPT !.at = "run", !.word = NoWord]
<1>1. me \in Memory /\ Sound(me, Delivered, plan.deps) /\ me.at = "release"
  BY DEF DepsInv, Typed, Release
<1>2. next \in Memory /\ Sound(next, Delivered, plan.deps)
  BY <1>1, Values DEF Memory, Places, Sound
<1>3. co' = [co EXCEPT ![p] = next]
  BY <1>1 DEF Release, DepsInv, Typed
<1> QED
  BY <1>2, <1>3, MemoryKeeps DEF Release, compiled, journal, DepsInv, Typed

LEMMA EndWaveKeeps ==
    ASSUME DepsInv, NEW p \in procs, EndWave(p)
    PROVE  DepsInv'
<1> DEFINE me == co[p]
           s == [me.snap EXCEPT !.version = @ + 1]
           from == [me EXCEPT !.snap = s]
<1>1. me \in Memory /\ Sound(me, Delivered, plan.deps) /\ me.at = "run"
  BY DEF DepsInv, Typed, EndWave
<1>2. s \in Snapshot /\ Known(s, Delivered)
  <2>1. me.snap \in Snapshot /\ Known(me.snap, Delivered)
    BY <1>1 DEF Memory, Sound, Known
  <2> QED
    BY <2>1 DEF Snapshot, Known
<1>3. from \in Memory /\ from.snap = s /\ from.job = me.job /\ me.wave + 1 \in Nat
  BY <1>1, <1>2 DEF Memory
<1> HIDE DEF from, s
<1>4. /\ Before(from, me.wave + 1) \in Memory
      /\ Sound(Before(from, me.wave + 1), Delivered, plan.deps)
  <2>1. \A n \in Nodes : me.job[n] # NoJob => plan.deps[n] \subseteq Delivered
    BY <1>1 DEF Sound
  <2> QED
    BY <1>2, <1>3, <2>1, BeforeIsSound
<1>5. Save(p, s, Before(from, me.wave + 1)) /\ UNCHANGED <<compiled, run, marker>>
  BY DEF EndWave, from, s
<1> QED
  BY <1>2, <1>4, <1>5, SaveKeeps

LEMMA EndPlanKeeps ==
    ASSUME DepsInv, NEW p \in procs, EndPlan(p)
    PROVE  DepsInv'
<1> DEFINE me == co[p]
           s == [me.snap EXCEPT !.state = terminalState(me.snap.nodes), !.version = @ + 1]
           done == [me EXCEPT !.at = "finish", !.snap = s]
<1>1. me \in Memory /\ Sound(me, Delivered, plan.deps) /\ me.at = "end"
  BY DEF DepsInv, Typed, EndPlan
<1>2. s \in Snapshot /\ Known(s, Delivered) /\ s.state \in TerminalPlans
  <2>1. terminalState(me.snap.nodes) \in TerminalPlans
    BY DEF terminalState, TerminalPlans
  <2>2. me.snap \in Snapshot /\ Known(me.snap, Delivered)
    BY <1>1 DEF Memory, Sound, Known
  <2>3. terminalState(me.snap.nodes) \in PlanStates
    BY <2>1 DEF TerminalPlans, PlanStates
  <2>4. s \in Snapshot /\ s.nodes = me.snap.nodes /\ s.state = terminalState(me.snap.nodes)
    BY <2>2, <2>3, NextVersion
  <2> HIDE DEF s
  <2> QED
    BY <2>1, <2>2, <2>4 DEF Known
<1> HIDE DEF s
<1>3. done \in Memory /\ Sound(done, Delivered, plan.deps)
  BY <1>1, <1>2 DEF Memory, Places, Sound, Known
<1> HIDE DEF done
<1>4. Save(p, s, done) \/ Save(p, s, Away)
  BY DEF EndPlan, s, done
<1> QED
  BY <1>2, <1>3, <1>4, AwayIsSound, SaveKeeps DEF EndPlan

LEMMA FinishKeeps ==
    ASSUME DepsInv, NEW p \in procs, Finish(p)
    PROVE  DepsInv'
<1> DEFINE me == co[p]
<1>1. me.run \in Runs /\ me.snap.state \in TerminalPlans
  BY DEF Finish, DepsInv, Typed, Memory, Sound
<1>2. run' \in [Runs -> RunStates]
  <2>1. CASE run[me.run] # "open"
    BY <1>1, <2>1 DEF Finish, DepsInv, Typed
  <2>2. CASE run[me.run] = "open"
    BY <1>1, <2>2 DEF Finish, DepsInv, Typed, RunStates, TerminalPlans
  <2> QED
    BY <2>1, <2>2
<1> QED
  BY <1>2, AwayIsSound, MemoryKeeps DEF Finish, compiled, DepsInv, Typed

LEMMA KilledKeeps ==
    ASSUME DepsInv, NEW p \in procs, Killed(p)
    PROVE  DepsInv'
BY AwayIsSound, MemoryKeeps DEF Killed, compiled, journal, DepsInv, Typed

LEMMA DepsUnchanged ==
    ASSUME DepsInv, UNCHANGED <<compiled, journal, marker, co>>
    PROVE  DepsInv'
BY DEF DepsInv, Typed, Delivered, compiled, journal

LEMMA DepsStep == DepsInv /\ [Next]_vars => DepsInv'
<1> SUFFICES ASSUME DepsInv, [Next]_vars PROVE DepsInv'
  OBVIOUS
<1>1. ASSUME NEW p \in procs, Step(p) PROVE DepsInv'
  BY <1>1, SeedKeeps, LoadKeeps, AnnounceKeeps, StartWaveKeeps, ReleaseKeeps, EndWaveKeeps,
     EndPlanKeeps, FinishKeeps, PlanNodeKeeps, RecordKeeps, HeartbeatKeeps, ChildEndsKeeps
  DEF Step
<1>2. CASE \E r \in Runs, n \in Nodes : LeaseExpires(r, n)
  BY <1>2, DepsUnchanged DEF LeaseExpires
<1>3. CASE UNCHANGED vars
  BY <1>3, DepsUnchanged DEF vars
<1> QED
  BY <1>1, <1>2, <1>3, InvokeKeeps, RetryKeeps, KilledKeeps DEF Next

\* The coordinator: a node is dispatched only after everything it depends on was journaled
\* as delivered, whatever overlaps, kills, expired leases and retries came before.
THEOREM DependenciesAreFirst == Spec => []DependenciesFirst
<1>1. DepsInv => DependenciesFirst
  BY DEF DepsInv, Sound, DependenciesFirst
<1> QED
  BY <1>1, DepsInit, DepsStep, PTL DEF Spec

-----------------------------------------------------------------------------
(* Every wave is worked off before a plan ends                              *)

Ended(c, n) == c.snap.nodes[n].state \in TerminalNodes
Started(c, n) == c.snap.nodes[n].state = "running" /\ c.job[n] # NoJob

(* A coordinator's memory, for the waves w: the nodes of the waves before   *)
(* have ended, those of its own are still to be planned, have ended or are  *)
(* at work, and it calls a plan delivered when all nodes are.               *)
Whole(c, D, w) ==
    /\ c.snap.state = "delivered" => Nodes \subseteq D
    /\ c.at \in {"plan", "announce", "run", "release", "end"} =>
          \A v \in 1..Len(w) : v < c.wave \/ c.at = "end" =>
              \A n \in Nodes : n \in w[v] => Ended(c, n)
    /\ c.at \in {"plan", "announce"} =>
          /\ \A n \in Nodes : n \in w[c.wave] => n \in c.todo \/ Ended(c, n) \/ Started(c, n)
          /\ \A n \in c.todo : Ended(c, n) => c.at = "announce" /\ n = c.word.node
    /\ c.at = "announce" =>
          \/ Ended(c, c.word.node)
          \/ c.snap.nodes[c.word.node].state = "running" /\ c.word.type = "node_started"
    /\ c.at \in {"run", "release"} =>
          \A n \in Nodes : n \in w[c.wave] => Ended(c, n) \/ Started(c, n)

WholeInv ==
    /\ waves = Waves(plan.deps, plan.safe)
    /\ \A p \in procs : co[p].at # "away" => plan \in Executed
    /\ \A p \in procs : Whole(co[p], Delivered, waves)
    /\ \A r \in Runs : proj[r].state = "delivered" => Nodes \subseteq Delivered
    /\ \A r \in Runs : run[r] = "completed" => Nodes \subseteq Delivered

LEMMA AwayIsWhole == \A D, w : Whole(Away, D, w)
BY DEF Away, Whole, NoSnapshot

LEMMA WholeGrows ==
    ASSUME NEW c, NEW D, NEW E, NEW w, D \subseteq E, Whole(c, D, w)
    PROVE  Whole(c, E, w)
BY DEF Whole

LEMMA WholeInit == Init => WholeInv
<1> SUFFICES ASSUME Init PROVE WholeInv
  OBVIOUS
<1>1. /\ waves = Waves(plan.deps, plan.safe)
      /\ \A p \in procs : co[p] = Away /\ co[p].at = "away"
      /\ \A r \in Runs : proj[r].state = "ready" /\ run[r] = "none"
  BY DEF Init, Away, NoSnapshot
<1> QED
  BY <1>1, AwayIsWhole DEF WholeInv

\* A step of p that leaves it with the memory next.
LEMMA WholeMemory ==
    ASSUME DepsInv, WholeInv, NEW p \in procs, NEW next, co' = [co EXCEPT ![p] = next],
           Whole(next, Delivered', waves), next.at # "away" => plan \in Executed,
           Delivered \subseteq Delivered', UNCHANGED compiled,
           \A r \in Runs : proj'[r].state = "delivered" => Nodes \subseteq Delivered',
           \A r \in Runs : run'[r] = "completed" => Nodes \subseteq Delivered'
    PROVE  WholeInv'
<1>1. \A q \in procs : co'[q] = co[q] \/ co'[q] = next
  BY DEF DepsInv, Typed
<1>2. \A q \in procs : Whole(co'[q], Delivered', waves)
  BY <1>1, WholeGrows DEF WholeInv
<1>3. plan' = plan /\ waves' = waves
  BY DEF compiled
<1> QED
  BY <1>1, <1>2, <1>3 DEF WholeInv

LEMMA WholeStay ==
    ASSUME DepsInv, WholeInv, NEW p \in procs, NEW next, co' = [co EXCEPT ![p] = next],
           Whole(next, Delivered, waves), next.at # "away" => plan \in Executed,
           UNCHANGED <<compiled, run, proj, events>>
    PROVE  WholeInv'
<1>1. Delivered' = Delivered
  BY DEF Delivered
<1> QED
  BY <1>1, WholeMemory DEF WholeInv

LEMMA WholeSave ==
    ASSUME DepsInv, WholeInv, NEW p \in procs, NEW s, NEW next, Save(p, s, next),
           s.state = "delivered" => Nodes \subseteq Delivered,
           Whole(next, Delivered, waves), plan \in Executed,
           UNCHANGED <<compiled, run>>
    PROVE  WholeInv'
<1>1. Delivered' = Delivered
  BY DEF Save, Throws, Delivered
<1>2. \A r \in Runs : proj'[r] = proj[r] \/ proj'[r] = s
  BY DEF Save, Throws, DepsInv, Typed
<1>3. co' = [co EXCEPT ![p] = next] \/ co' = [co EXCEPT ![p] = Away]
  BY DEF Save, Throws
<1>4. \A r \in Runs : proj'[r].state = "delivered" => Nodes \subseteq Delivered'
  BY <1>1, <1>2 DEF WholeInv
<1>5. \A r \in Runs : run'[r] = "completed" => Nodes \subseteq Delivered'
  BY <1>1 DEF WholeInv
<1> QED
  BY <1>1, <1>3, <1>4, <1>5, AwayIsWhole, WholeMemory

LEMMA WholeEmit ==
    ASSUME DepsInv, WholeInv, NEW p \in procs, NEW n, NEW rec, NEW type, NEW note, NEW next,
           Emit(p, n, rec, type, note, next), Delivered \subseteq Delivered',
           Whole(next, Delivered, waves), plan \in Executed,
           UNCHANGED <<compiled, run>>
    PROVE  WholeInv'
<1>1. Whole(next, Delivered', waves)
  BY WholeGrows
<1>2. \A r \in Runs : proj'[r] = proj[r] \/ proj'[r].state = "running"
  BY DEF Emit, Throws, DepsInv, Typed, Snapshot
<1>3. co' = [co EXCEPT ![p] = next] \/ co' = [co EXCEPT ![p] = Away]
  BY DEF Emit, Throws
<1>4. \A r \in Runs : proj'[r].state = "delivered" => Nodes \subseteq Delivered'
  BY <1>2 DEF WholeInv
<1>5. \A r \in Runs : run'[r] = "completed" => Nodes \subseteq Delivered'
  BY DEF WholeInv
<1> QED
  BY <1>1, <1>3, <1>4, <1>5, AwayIsWhole, WholeMemory

-----------------------------------------------------------------------------
LEMMA WholeInvoke ==
    ASSUME DepsInv, WholeInv, NEW p \in procs, NEW o \in Owners, Invoke(p, o) \/ Retry(p, o)
    PROVE  WholeInv'
<1>1. plan \in Executed /\ UNCHANGED <<compiled, proj, events>>
  BY DEF Invoke, Retry, Invocation
<1>2. Delivered' = Delivered
  BY <1>1 DEF Delivered
<1>3. \A r \in Runs : run'[r] = run[r] \/ run'[r] = "open"
  BY DEF Invoke, Retry, DepsInv, Typed
<1>4. PICK next : /\ co' = [co EXCEPT ![p] = next]
                  /\ next.at \in {"load", "seed"} /\ next.snap.state = "ready"
  <2>1. CASE Invoke(p, o)
    <3> DEFINE next == [Away EXCEPT !.at = "load", !.owner = o,
                                    !.run = IF Latest = 0 THEN 1 ELSE Latest]
    <3>1. co' = [co EXCEPT ![p] = next]
      BY <2>1 DEF Invoke
    <3>2. next.at = "load" /\ next.snap.state = "ready"
      BY DEF Away, NoSnapshot
    <3> QED
      BY <3>1, <3>2
  <2>2. CASE Retry(p, o)
    <3> DEFINE prev == proj[Latest]
               s == [state |-> "ready", version |-> prev.version + 1,
                     attempt |-> prev.attempt + 1,
                     nodes |-> [n \in Nodes |-> Reopened(prev.nodes[n])]]
               next == [Away EXCEPT !.at = "seed", !.owner = o, !.run = Latest + 1, !.snap = s]
    <3>1. co' = [co EXCEPT ![p] = next]
      BY <2>2 DEF Retry
    <3>2. next.at = "seed" /\ next.snap.state = "ready"
      BY DEF Away
    <3> QED
      BY <3>1, <3>2
  <2> QED
    BY <2>1, <2>2
<1>5. Whole(next, Delivered', waves)
  BY <1>4 DEF Whole
<1>6. \A r \in Runs : proj'[r].state = "delivered" => Nodes \subseteq Delivered'
  BY <1>1, <1>2 DEF WholeInv
<1>7. \A r \in Runs : run'[r] = "completed" => Nodes \subseteq Delivered'
  BY <1>2, <1>3 DEF WholeInv
<1> QED
  BY <1>1, <1>2, <1>4, <1>5, <1>6, <1>7, WholeMemory

LEMMA WholeSeed ==
    ASSUME DepsInv, WholeInv, NEW p \in procs, Seed(p)
    PROVE  WholeInv'
<1> DEFINE me == co[p]
           next == [me EXCEPT !.at = "load"]
<1>1. me \in Memory /\ Whole(me, Delivered, waves) /\ me.at = "seed" /\ plan \in Executed
  BY DEF DepsInv, Typed, WholeInv, Seed
<1>2. Whole(next, Delivered, waves)
  BY <1>1 DEF Memory, Whole
<1>3. me.snap.state = "delivered" => Nodes \subseteq Delivered
  BY <1>1 DEF Whole
<1> QED
  BY <1>1, <1>2, <1>3, WholeSave DEF Seed

\* A wave begins when the nodes of all waves before it have ended.
LEMMA BeforeIsWhole ==
    ASSUME NEW me \in Memory, NEW w \in Nat, NEW D, Len(waves) \in Nat,
           me.snap.state = "delivered" => Nodes \subseteq D,
           \A v \in 1..Len(waves) : v < w => \A n \in Nodes : n \in waves[v] => Ended(me, n)
    PROVE  Whole(Before(me, w), D, waves)
<1> DEFINE c == Before(me, w)
<1>1. CASE w > Len(waves)
  <2>1. c.at = "end" /\ c.snap = me.snap
    BY <1>1 DEF Before, Memory
  <2> QED
    BY <1>1, <2>1 DEF Whole, Ended
<1>2. CASE ~(w > Len(waves))
  <2>1. /\ c.at = "plan" /\ c.snap = me.snap /\ c.wave = w
        /\ c.todo = Unplanned(me.snap, w)
    BY <1>2 DEF Before, Memory
  <2> HIDE DEF c
  <2>2. \A n \in Nodes : Ended(c, n) <=> Ended(me, n)
    BY <2>1 DEF Ended
  <2>3. \A n \in c.todo : ~Ended(c, n)
    BY <2>1 DEF Unplanned, Ended
  <2>4. \A n \in Nodes : n \in waves[w] => n \in c.todo \/ Ended(c, n)
    BY <2>1 DEF Unplanned, Ended
  <2>5. Whole(c, D, waves)
    BY <2>1, <2>2, <2>3, <2>4 DEF Whole
  <2> QED
    BY <2>5 DEF c
<1> QED
  BY <1>1, <1>2

LEMMA WholeLoad ==
    ASSUME DepsInv, WholeInv, Len(waves) \in Nat, NEW p \in procs, Load(p)
    PROVE  WholeInv'
<1> DEFINE me == co[p]
           s == proj[me.run]
<1>1. me \in Memory /\ me.at = "load" /\ plan \in Executed
  BY DEF DepsInv, Typed, WholeInv, Load
<1>2. s \in Snapshot /\ (s.state = "delivered" => Nodes \subseteq Delivered)
  BY <1>1 DEF DepsInv, Typed, Memory, WholeInv
<1>3. UNCHANGED <<compiled, run>>
  BY DEF Load
<1>4. CASE Save(p, initialSnapshot, Before([me EXCEPT !.snap = initialSnapshot], 1))
  <2> DEFINE from == [me EXCEPT !.snap = initialSnapshot]
  <2>1. from \in Memory /\ from.snap = initialSnapshot
    BY <1>1, Values DEF Memory
  <2>2. initialSnapshot.state = "ready"
    BY DEF initialSnapshot, NoSnapshot
  <2> HIDE DEF from
  <2>3. Whole(Before(from, 1), Delivered, waves)
    BY <2>1, <2>2, BeforeIsWhole
  <2> QED
    BY <1>1, <1>3, <1>4, <2>2, <2>3, WholeSave DEF from
<1>5. CASE /\ co' = [co EXCEPT ![p] =
                    IF s.state \in TerminalPlans THEN [me EXCEPT !.at = "finish", !.snap = s]
                    ELSE Before([me EXCEPT !.snap = s], 1)]
           /\ UNCHANGED <<proj, saved, events>>
  <2> DEFINE from == [me EXCEPT !.snap = s]
             done == [me EXCEPT !.at = "finish", !.snap = s]
  <2>1. from \in Memory /\ from.snap = s
    BY <1>1, <1>2 DEF Memory
  <2>2. Whole(done, Delivered, waves)
    BY <1>1, <1>2 DEF Memory, Whole
  <2> HIDE DEF from, done
  <2>3. Whole(Before(from, 1), Delivered, waves)
    BY <1>2, <2>1, BeforeIsWhole
  <2>4. co' = [co EXCEPT ![p] = done] \/ co' = [co EXCEPT ![p] = Before(from, 1)]
    BY <1>5 DEF from, done
  <2> QED
    BY <1>1, <1>3, <1>5, <2>2, <2>3, <2>4, WholeStay DEF compiled
<1> QED
  BY <1>4, <1>5 DEF Load

LEMMA WholePlanNode ==
    ASSUME DepsInv, WholeInv, NEW p \in procs, NEW n \in Nodes, PlanNode(p, n)
    PROVE  WholeInv'
<1> DEFINE me == co[p]
           rec(state) == [me.snap.nodes[n] EXCEPT !.state = state]
           nodes(state) == [me.snap.nodes EXCEPT ![n] = rec(state)]
           snap(state) == [me.snap EXCEPT !.nodes = nodes(state)]
           decided(state, type, note) ==
               [me EXCEPT !.at = "announce", !.snap = snap(state),
                          !.word = [node |-> n, type |-> type, note |-> note]]
<1>1. /\ me \in Memory /\ Whole(me, Delivered, waves) /\ me.at = "plan"
      /\ plan \in Executed /\ n \in me.todo
  BY DEF DepsInv, Typed, WholeInv, PlanNode
<1>2. PICK state, type, note :
         /\ Decide(p, n, state, type, note)
         /\ state \in TerminalNodes \/ (state = "running" /\ type = "node_started")
  <2>1. \/ Decide(p, n, "stalled", "node_stalled", Note("no lease", {}))
        \/ Decide(p, n, "skipped", "node_skipped", Note("blocked", blockedBy(p, n)))
        \/ Decide(p, n, "delivered", "support_completed", NoNote)
        \/ Decide(p, n, "stalled", "node_stalled", Note("no claim", {}))
        \/ Decide(p, n, "running", "node_started", NoNote)
    BY DEF PlanNode
  <2>2. {"stalled", "skipped", "delivered"} \subseteq TerminalNodes
    BY DEF TerminalNodes, NodeStates
  <2> QED
    BY <2>1, <2>2
<1>3. co' = [co EXCEPT ![p] = decided(state, type, note)]
  BY <1>1, <1>2 DEF Decide, DepsInv, Typed
<1> DEFINE next == decided(state, type, note)
<1>4. /\ next.at = "announce" /\ next.word.node = n /\ next.word.type = type
      /\ next.wave = me.wave /\ next.todo = me.todo /\ next.job = me.job
      /\ next.snap.state = me.snap.state
      /\ \A m \in Nodes : next.snap.nodes[m].state = IF m = n THEN state
                                                    ELSE me.snap.nodes[m].state
  <2>1. /\ snap(state).state = me.snap.state
        /\ \A m \in Nodes : snap(state).nodes[m].state = IF m = n THEN state
                                                        ELSE me.snap.nodes[m].state
    BY <1>1 DEF Memory, Snapshot, NodeRec
  <2> HIDE DEF snap
  <2> QED
    BY <1>1, <2>1 DEF Memory
<1>5. me.todo \subseteq Nodes
  BY <1>1 DEF Memory
<1> HIDE DEF next
<1>6. Whole(next, Delivered, waves)
  <2>1. \A m \in Nodes : m # n => /\ Ended(next, m) <=> Ended(me, m)
                                  /\ Started(next, m) <=> Started(me, m)
    BY <1>4 DEF Ended, Started
  <2>2. ~Ended(me, n)
    BY <1>1 DEF Whole
  <2>3. Ended(next, n) \/ (next.snap.nodes[n].state = "running" /\ type = "node_started")
    BY <1>2, <1>4 DEF Ended
  <2>4. \A v \in 1..Len(waves) : v < me.wave =>
            \A m \in Nodes : m \in waves[v] => Ended(next, m)
    BY <1>1, <2>1, <2>2 DEF Whole
  <2>5. \A m \in Nodes :
           m \in waves[me.wave] => m \in me.todo \/ Ended(next, m) \/ Started(next, m)
    BY <1>1, <2>1 DEF Whole
  <2>6. \A m \in me.todo : Ended(next, m) => m = n
    BY <1>1, <1>5, <2>1 DEF Whole
  <2>7. next.snap.state = "delivered" => Nodes \subseteq Delivered
    BY <1>1, <1>4 DEF Whole
  <2> QED
    BY <1>4, <2>3, <2>4, <2>5, <2>6, <2>7 DEF Whole
<1> QED
  BY <1>1, <1>3, <1>6, WholeStay DEF PlanNode, compiled, journal, next

LEMMA WholeAnnounce ==
    ASSUME DepsInv, WholeInv, NEW p \in procs, Announce(p)
    PROVE  WholeInv'
<1> DEFINE me == co[p]
           n == me.word.node
           started == me.word.type = "node_started"
           next == [me EXCEPT !.at = "plan", !.todo = @ \ {n}, !.word = NoWord,
                              !.job[n] = IF started THEN [state |-> "run", cost |-> 0] ELSE @]
<1>1. /\ me \in Memory /\ Sound(me, Delivered, plan.deps) /\ Whole(me, Delivered, waves)
      /\ me.at = "announce" /\ plan \in Executed
  BY DEF DepsInv, Typed, WholeInv, Announce
<1>2. n \in Nodes /\ me.todo \subseteq Nodes
  BY <1>1 DEF Sound, Memory
<1>3. /\ next.at = "plan" /\ next.snap = me.snap /\ next.wave = me.wave
      /\ next.todo = me.todo \ {n}
      /\ \A m \in Nodes : next.job[m] = IF m = n /\ started THEN [state |-> "run", cost |-> 0]
                                       ELSE me.job[m]
  BY <1>1, <1>2 DEF Memory
<1> HIDE DEF next
<1>4. Whole(next, Delivered, waves)
  <2>1. \A m \in Nodes : Ended(next, m) <=> Ended(me, m)
    BY <1>3 DEF Ended
  <2>2. [state |-> "run", cost |-> 0] # NoJob
    BY DEF NoJob
  <2>3. \A m \in Nodes : Started(me, m) => Started(next, m)
    BY <1>3, <2>2 DEF Started
  <2>4. Ended(next, n) \/ Started(next, n)
    BY <1>1, <1>2, <1>3, <2>1, <2>2 DEF Whole, Started
  <2>5. \A v \in 1..Len(waves) : v < me.wave =>
            \A m \in Nodes : m \in waves[v] => Ended(next, m)
    BY <1>1, <2>1 DEF Whole
  <2>6. \A m \in Nodes :
           m \in waves[me.wave] => m \in next.todo \/ Ended(next, m) \/ Started(next, m)
    BY <1>1, <1>3, <2>1, <2>3, <2>4 DEF Whole
  <2>7. \A m \in next.todo : ~Ended(next, m)
    BY <1>1, <1>2, <1>3, <2>1 DEF Whole
  <2>8. next.snap.state = "delivered" => Nodes \subseteq Delivered
    BY <1>1, <1>3 DEF Whole
  <2> QED
    BY <1>3, <2>5, <2>6, <2>7, <2>8 DEF Whole
<1>5. Emit(p, n, me.snap.nodes[n], me.word.type, me.word.note, next)
  BY DEF Announce, next
<1>6. Delivered \subseteq Delivered' /\ UNCHANGED <<compiled, run>>
  BY AnnounceKeeps DEF Announce
<1> QED
  BY <1>1, <1>4, <1>5, <1>6, WholeEmit

LEMMA WholeStartWave ==
    ASSUME DepsInv, WholeInv, NEW p \in procs, StartWave(p)
    PROVE  WholeInv'
<1> DEFINE me == co[p]
           s == [me.snap EXCEPT !.state = "running", !.version = @ + 1]
           job == [n \in Nodes |-> IF n \in Runnable(p) THEN Dispatched(p, n) ELSE NoJob]
           next == [me EXCEPT !.at = "run", !.snap = s, !.job = job]
<1>1. /\ me \in Memory /\ Whole(me, Delivered, waves) /\ me.at = "plan" /\ me.todo = {}
      /\ plan \in Executed
  BY DEF DepsInv, Typed, WholeInv, StartWave
<1>2. s.nodes = me.snap.nodes /\ s.state = "running"
  <2>1. me.snap \in Snapshot /\ "running" \in PlanStates
    BY <1>1 DEF Memory, PlanStates
  <2> QED
    BY <2>1, NextVersion
<1>3. ASSUME NEW n \in Nodes, me.job[n] # NoJob PROVE job[n] # NoJob
  <2>1. Dispatched(p, n) \in Working \cup Answers
    BY SurfacedIsAnswer, Values DEF Dispatched, DepsInv, Typed, Working
  <2>2. Dispatched(p, n) # NoJob
    BY <2>1 DEF Working, Answers, NoJob
  <2> QED
    BY <1>3, <2>2 DEF Runnable
<1> HIDE DEF job, s
<1>4. /\ next.at = "run" /\ next.snap = s /\ next.job = job /\ next.wave = me.wave
  BY <1>1 DEF Memory
<1> HIDE DEF next
<1>5. Whole(next, Delivered, waves)
  <2>1. \A n \in Nodes : Ended(next, n) <=> Ended(me, n)
    BY <1>2, <1>4 DEF Ended
  <2>2. \A n \in Nodes : Started(me, n) => Started(next, n)
    BY <1>2, <1>3, <1>4 DEF Started
  <2>3. \A v \in 1..Len(waves) : v < me.wave =>
            \A n \in Nodes : n \in waves[v] => Ended(next, n)
    BY <1>1, <2>1 DEF Whole
  <2>4. \A n \in Nodes : n \in waves[me.wave] => Ended(next, n) \/ Started(next, n)
    BY <1>1, <2>1, <2>2 DEF Whole
  <2> QED
    BY <1>2, <1>4, <2>3, <2>4 DEF Whole
<1>6. Save(p, s, next) /\ UNCHANGED <<compiled, run>>
  BY DEF StartWave, job, s, next
<1> QED
  BY <1>1, <1>2, <1>5, <1>6, WholeSave

\* A step that changes one job of p.
LEMMA WholeJob ==
    ASSUME DepsInv, WholeInv, NEW p \in procs, NEW n \in Nodes, NEW j \in Working \cup Answers,
           co[p].at = "run", co' = [co EXCEPT ![p].job[n] = j], UNCHANGED <<compiled, journal>>
    PROVE  WholeInv'
<1> DEFINE me == co[p]
           next == [me EXCEPT !.job = [me.job EXCEPT ![n] = j]]
<1>1. me \in Memory /\ Whole(me, Delivered, waves) /\ plan \in Executed
  BY DEF DepsInv, Typed, WholeInv
<1>2. j # NoJob
  BY DEF Working, Answers, NoJob
<1>3. /\ next.at = "run" /\ next.snap = me.snap /\ next.wave = me.wave
      /\ \A m \in Nodes : next.job[m] = IF m = n THEN j ELSE me.job[m]
  BY <1>1 DEF Memory
<1>4. co' = [co EXCEPT ![p] = next]
  BY DEF DepsInv, Typed
<1> HIDE DEF next
<1>5. Whole(next, Delivered, waves)
  <2>1. \A m \in Nodes : Ended(next, m) <=> Ended(me, m)
    BY <1>3 DEF Ended
  <2>2. \A m \in Nodes : Started(me, m) => Started(next, m)
    BY <1>2, <1>3 DEF Started
  <2> QED
    BY <1>1, <1>3, <2>1, <2>2 DEF Whole
<1> QED
  BY <1>1, <1>4, <1>5, WholeStay DEF compiled, journal

LEMMA WholeHeartbeat ==
    ASSUME DepsInv, WholeInv, NEW p \in procs, NEW n \in Nodes, HeartbeatFails(p, n)
    PROVE  WholeInv'
<1> DEFINE j == [co[p].job[n] EXCEPT !.state = "abort"]
<1>1. co[p] \in Memory /\ co[p].at = "run" /\ co[p].job[n].state = "run"
  BY DEF DepsInv, Typed, HeartbeatFails
<1>2. j \in Working
  BY <1>1 DEF Memory, Working, Answers, NoJob
<1>3. co' = [co EXCEPT ![p].job[n] = j]
  BY <1>1 DEF HeartbeatFails, DepsInv, Typed, Memory
<1> QED
  BY <1>1, <1>2, <1>3, WholeJob DEF HeartbeatFails

LEMMA WholeChildEnds ==
    ASSUME DepsInv, WholeInv, NEW p \in procs, NEW n \in Nodes, NEW result \in Results,
           ChildEnds(p, n, result)
    PROVE  WholeInv'
<1>1. /\ [state |-> "failed", cost |-> 0] \in Answers
      /\ Surfaced(lease[co[p].run][n], co[p].owner, result) \in Answers
  BY Values, SurfacedIsAnswer DEF Answers
<1>2. PICK j \in Answers : co' = [co EXCEPT ![p].job[n] = j]
  BY <1>1 DEF ChildEnds
<1> QED
  BY <1>2, WholeJob DEF ChildEnds

LEMMA WholeRecord ==
    ASSUME DepsInv, WholeInv, NEW p \in procs, NEW n \in Nodes, Record(p, n)
    PROVE  WholeInv'
<1> DEFINE me == co[p]
           rec == Verdict(n, me.job[n])
           type == IF OverGrant(n, me.job[n]) THEN "budget_exceeded" ELSE rec.state
           word == [node |-> n, type |-> type, note |-> NoNote]
           next == [me EXCEPT !.at = "release", !.snap.nodes[n] = rec, !.word = word]
<1>1. me \in Memory /\ Whole(me, Delivered, waves) /\ me.at = "run" /\ plan \in Executed
  BY DEF DepsInv, Typed, WholeInv, Record
<1>2. me.job[n] \in Answers
  BY <1>1 DEF Record, Active, Runnable, Memory, Working
<1>3. rec.state \in TerminalNodes
  BY <1>2 DEF Verdict, Answers, TerminalNodes, NodeStates
<1> HIDE DEF rec, word
<1>4. /\ next.at = "release" /\ next.wave = me.wave /\ next.job = me.job
      /\ next.snap.state = me.snap.state
      /\ \A m \in Nodes : next.snap.nodes[m] = IF m = n THEN rec ELSE me.snap.nodes[m]
  BY <1>1 DEF Memory, Snapshot
<1> HIDE DEF next
<1>5. Whole(next, Delivered, waves)
  <2>1. \A m \in Nodes : Ended(me, m) => Ended(next, m)
    BY <1>3, <1>4 DEF Ended
  <2>2. \A m \in Nodes : Started(me, m) => Started(next, m) \/ Ended(next, m)
    BY <1>3, <1>4 DEF Started, Ended
  <2>3. next.snap.state = "delivered" => Nodes \subseteq Delivered
    BY <1>1, <1>4 DEF Whole
  <2> QED
    BY <1>1, <1>4, <2>1, <2>2, <2>3 DEF Whole
<1>6. Emit(p, n, rec, type, NoNote, next)
  BY DEF Record, rec, word, next
<1>7. Delivered \subseteq Delivered' /\ UNCHANGED <<compiled, run>>
  BY RecordKeeps DEF Record
<1> QED
  BY <1>1, <1>5, <1>6, <1>7, WholeEmit

LEMMA WholeRelease ==
    ASSUME DepsInv, WholeInv, NEW p \in procs, Release(p)
    PROVE  WholeInv'
<1> DEFINE me == co[p]
           next == [me EXCEPT !.at = "run", !.word = NoWord]
<1>1. /\ me \in Memory /\ Whole(me, Delivered, waves) /\ me.at = "release"
      /\ plan \in Executed
  BY DEF DepsInv, Typed, WholeInv, Release
<1>2. co' = [co EXCEPT ![p] = next]
  BY <1>1 DEF Release, DepsInv, Typed
<1>3. /\ next.at = "run" /\ next.snap = me.snap /\ next.wave = me.wave /\ next.job = me.job
  BY <1>1 DEF Memory
<1> HIDE DEF next
<1>4. \A n \in Nodes : /\ Ended(next, n) <=> Ended(me, n)
                       /\ Started(next, n) <=> Started(me, n)
  BY <1>3 DEF Ended, Started
<1>5. Whole(next, Delivered, waves)
  BY <1>1, <1>3, <1>4 DEF Whole
<1> QED
  BY <1>1, <1>2, <1>5, WholeStay DEF Release, compiled, journal

LEMMA WholeEndWave ==
    ASSUME DepsInv, WholeInv, Len(waves) \in Nat, NEW p \in procs, EndWave(p)
    PROVE  WholeInv'
<1> DEFINE me == co[p]
           s == [me.snap EXCEPT !.version = @ + 1]
           from == [me EXCEPT !.snap = s]
<1>1. /\ me \in Memory /\ Whole(me, Delivered, waves) /\ me.at = "run" /\ plan \in Executed
  BY DEF DepsInv, Typed, WholeInv, EndWave
<1>2. s.nodes = me.snap.nodes /\ s.state = me.snap.state /\ s \in Snapshot
  <2>1. me.snap \in Snapshot
    BY <1>1 DEF Memory
  <2> QED
    BY <2>1 DEF Snapshot
<1>3. from \in Memory /\ from.snap = s /\ me.wave + 1 \in Nat /\ me.wave \in Nat
  BY <1>1, <1>2 DEF Memory
<1>4. \A n \in Nodes : ~Started(me, n)
  BY DEF EndWave, Runnable, Started
<1> HIDE DEF from, s
<1>5. \A n \in Nodes : Ended(from, n) <=> Ended(me, n)
  BY <1>2, <1>3 DEF Ended
<1>6. ASSUME NEW v \in 1..Len(waves), v < me.wave + 1, NEW n \in Nodes, n \in waves[v]
      PROVE  Ended(from, n)
  <2>1. v < me.wave \/ v = me.wave
    BY <1>3, <1>6
  <2> QED
    BY <1>1, <1>4, <1>5, <1>6, <2>1 DEF Whole
<1>7. s.state = "delivered" => Nodes \subseteq Delivered
  BY <1>1, <1>2 DEF Whole
<1>8. Whole(Before(from, me.wave + 1), Delivered, waves)
  BY <1>3, <1>6, <1>7, BeforeIsWhole
<1>9. Save(p, s, Before(from, me.wave + 1)) /\ UNCHANGED <<compiled, run>>
  BY DEF EndWave, from, s
<1> QED
  BY <1>1, <1>7, <1>8, <1>9, WholeSave

\* The waves of a plan that is executed hold all of its nodes: it has no cycle.
LEMMA PlannedWhole ==
    ASSUME NEW pl \in Executed
    PROVE  /\ Len(Waves(pl.deps, pl.safe)) \in Nat
           /\ \A n \in Nodes : \E v \in 1..Len(Waves(pl.deps, pl.safe)) :
                 n \in Waves(pl.deps, pl.safe)[v]
<1> DEFINE w == Waves(pl.deps, pl.safe)
<1>1. pl.deps \in [Nodes -> SUBSET Nodes] /\ Acyclic(pl.deps)
  BY MultiTargetAssumption
<1>2. IsFiniteSet(Nodes) /\ Nodes \subseteq Nat
  BY MultiTargetAssumption
<1>3. w \in Seq(SUBSET Nodes) /\ WavesAreOrdered(pl, w)
  BY <1>1, <1>2, WavesOrdered
<1> HIDE DEF w
<1>4. DOMAIN w = 1..Len(w) /\ Len(w) \in Nat
  BY <1>3, LenProperties
<1>5. UNION {w[i] : i \in DOMAIN w} = Nodes
  BY <1>1, <1>3 DEF WavesAreOrdered
<1>6. \A n \in Nodes : \E v \in 1..Len(w) : n \in w[v]
  BY <1>4, <1>5
<1> QED
  BY <1>4, <1>6 DEF w

LEMMA WholeEndPlan ==
    ASSUME DepsInv, WholeInv, NEW p \in procs, EndPlan(p)
    PROVE  WholeInv'
<1> DEFINE me == co[p]
           s == [me.snap EXCEPT !.state = terminalState(me.snap.nodes), !.version = @ + 1]
           done == [me EXCEPT !.at = "finish", !.snap = s]
<1>1. /\ me \in Memory /\ Sound(me, Delivered, plan.deps) /\ Whole(me, Delivered, waves)
      /\ me.at = "end" /\ plan \in Executed /\ waves = Waves(plan.deps, plan.safe)
  BY DEF DepsInv, Typed, WholeInv, EndPlan
<1>2. s.state = terminalState(me.snap.nodes)
  <2>1. me.snap \in Snapshot /\ terminalState(me.snap.nodes) \in PlanStates
    BY <1>1 DEF Memory, terminalState, PlanStates
  <2> QED
    BY <2>1, NextVersion
<1>3. \A n \in Nodes : Ended(me, n)
  <2>1. \A n \in Nodes : \E v \in 1..Len(waves) : n \in waves[v]
    BY <1>1, PlannedWhole
  <2> QED
    BY <1>1, <2>1 DEF Whole
<1>4. s.state = "delivered" => Nodes \subseteq Delivered
  <2>1. ASSUME terminalState(me.snap.nodes) = "delivered", NEW n \in Nodes
        PROVE  n \in Delivered
    <3>1. me.snap.nodes[n].state \notin {"failed", "stalled", "withheld", "skipped"}
      BY <2>1 DEF terminalState
    <3>2. me.snap.nodes[n].state = "delivered"
      BY <1>3, <3>1 DEF Ended, TerminalNodes, NodeStates
    <3> QED
      BY <1>1, <3>2 DEF Sound
  <2> QED
    BY <1>2, <2>1
<1> HIDE DEF s
<1>5. Whole(done, Delivered, waves)
  BY <1>1, <1>4 DEF Memory, Whole
<1> HIDE DEF done
<1>6. (Save(p, s, done) \/ Save(p, s, Away)) /\ UNCHANGED <<compiled, run>>
  BY DEF EndPlan, s, done
<1> QED
  BY <1>1, <1>4, <1>5, <1>6, AwayIsWhole, WholeSave

LEMMA WholeFinish ==
    ASSUME DepsInv, WholeInv, NEW p \in procs, Finish(p)
    PROVE  WholeInv'
<1> DEFINE me == co[p]
<1>1. me.run \in Runs /\ Whole(me, Delivered, waves) /\ me.snap.state \in TerminalPlans
  BY DEF DepsInv, Typed, Memory, WholeInv, Sound, Finish
<1>2. Delivered' = Delivered
  BY DEF Finish, Delivered
<1>3. \A r \in Runs : run'[r] = run[r] \/ (run'[r] = "completed" => me.snap.state = "delivered")
  BY <1>1 DEF Finish, DepsInv, Typed, TerminalPlans
<1>4. \A r \in Runs : run'[r] = "completed" => Nodes \subseteq Delivered'
  BY <1>1, <1>2, <1>3 DEF WholeInv, Whole
<1>5. \A r \in Runs : proj'[r].state = "delivered" => Nodes \subseteq Delivered'
  BY <1>2 DEF Finish, WholeInv
<1>6. Away.at = "away" /\ co' = [co EXCEPT ![p] = Away] /\ UNCHANGED compiled
  BY DEF Away, Finish
<1> QED
  BY <1>2, <1>4, <1>5, <1>6, AwayIsWhole, WholeMemory

LEMMA WholeKilled ==
    ASSUME DepsInv, WholeInv, NEW p \in procs, Killed(p)
    PROVE  WholeInv'
<1>1. Away.at = "away"
  BY DEF Away
<1> QED
  BY <1>1, AwayIsWhole, WholeStay DEF Killed, journal, compiled

LEMMA WholeUnchanged ==
    ASSUME WholeInv, UNCHANGED <<compiled, journal, co>>
    PROVE  WholeInv'
BY DEF WholeInv, Delivered, compiled, journal

LEMMA WholeStep == DepsInv /\ WholeInv /\ [Next]_vars => WholeInv'
<1> SUFFICES ASSUME DepsInv, WholeInv, [Next]_vars PROVE WholeInv'
  OBVIOUS
<1>1. ASSUME NEW p \in procs, Step(p) PROVE WholeInv'
  <2>1. ASSUME co[p].at # "away" PROVE Len(waves) \in Nat
    BY <2>1, PlannedWhole DEF WholeInv
  <2>2. Load(p) \/ EndWave(p) => co[p].at # "away"
    BY DEF Load, EndWave
  <2> QED
    BY <1>1, <2>1, <2>2, WholeSeed, WholeLoad, WholeAnnounce, WholeStartWave, WholeRelease,
       WholeEndWave, WholeEndPlan, WholeFinish, WholePlanNode, WholeRecord, WholeHeartbeat,
       WholeChildEnds
    DEF Step
<1>2. CASE \E r \in Runs, n \in Nodes : LeaseExpires(r, n)
  BY <1>2, WholeUnchanged DEF LeaseExpires
<1>3. CASE UNCHANGED vars
  BY <1>3, WholeUnchanged DEF vars
<1> QED
  BY <1>1, <1>2, <1>3, WholeInvoke, WholeKilled DEF Next

\* The coordinator: a Run is completed only when every node was journaled as delivered,
\* whoever else was at work.
THEOREM CompletedDelivered == Spec => []CompletedIsDelivered
<1>1. DepsInv /\ WholeInv => CompletedIsDelivered
  BY DeliveredNodes DEF DepsInv, WholeInv, CompletedIsDelivered
<1> QED
  BY <1>1, DepsInit, DepsStep, WholeInit, WholeStep, PTL DEF Spec

-----------------------------------------------------------------------------
(* Leases and rivals                                                        *)

Tenure == [owner : Owners \cup {NoOwner}, live : BOOLEAN]
Leases == [Runs -> [Nodes -> Tenure]]

\* What Typed leaves out.
RestTyped ==
    /\ saved \in [Runs -> SUBSET Snapshot]
    /\ lease \in Leases
    /\ rivals \in [procs -> [Nodes -> SUBSET procs]]
    /\ overlaps \in 0..MaxDisturbances
    /\ kills \in 0..MaxDisturbances
    /\ expired \in 0..MaxDisturbances

\* A port call that saves snapshot s, or throws, keeps what was saved a snapshot.
LEMMA SavedKeeps ==
    ASSUME RestTyped, NEW p \in procs, co[p].run \in Runs, NEW s \in Snapshot, NEW next,
           Save(p, s, next)
    PROVE  saved' \in [Runs -> SUBSET Snapshot]
BY DEF Save, Throws, RestTyped

\* A lease is given or taken away.
LEMMA LeaseSet ==
    ASSUME lease \in Leases, NEW r \in Runs, NEW n, NEW l \in Tenure,
           lease' = [lease EXCEPT ![r][n] = l]
    PROVE  /\ lease' \in Leases
           /\ \A x \in Runs, m \in Nodes :
                 lease'[x][m] = IF x = r /\ m = n THEN l ELSE lease[x][m]
<1> DEFINE row == [lease[r] EXCEPT ![n] = l]
<1>1. row \in [Nodes -> Tenure] /\ \A m \in Nodes : row[m] = IF m = n THEN l ELSE lease[r][m]
  BY DEF Leases
<1>2. lease' = [lease EXCEPT ![r] = row]
  BY DEF Leases
<1> HIDE DEF row
<1> QED
  BY <1>1, <1>2 DEF Leases

LEMMA Disturbed ==
    ASSUME RestTyped, Disturbable
    PROVE  /\ overlaps + 1 \in 0..MaxDisturbances
           /\ kills + 1 \in 0..MaxDisturbances
           /\ expired + 1 \in 0..MaxDisturbances
BY MultiTargetAssumption DEF RestTyped, Disturbable

LEMMA SavedSnapshots ==
    ASSUME DepsInv, RestTyped, NEW p \in procs, Step(p)
    PROVE  saved' \in [Runs -> SUBSET Snapshot]
<1> DEFINE me == co[p]
<1>1. me \in Memory /\ me.run \in Runs /\ me.snap \in Snapshot
  BY DEF DepsInv, Typed, Memory
<1>2. Seed(p) => saved' \in [Runs -> SUBSET Snapshot]
  BY <1>1, SavedKeeps DEF Seed
<1>3. Load(p) => saved' \in [Runs -> SUBSET Snapshot]
  BY <1>1, Values, SavedKeeps DEF Load, RestTyped
<1>4. StartWave(p) => saved' \in [Runs -> SUBSET Snapshot]
  <2>1. [me.snap EXCEPT !.state = "running", !.version = @ + 1] \in Snapshot
    BY <1>1, NextVersion DEF PlanStates
  <2> QED
    BY <1>1, <2>1, SavedKeeps DEF StartWave
<1>5. EndWave(p) => saved' \in [Runs -> SUBSET Snapshot]
  <2>1. [me.snap EXCEPT !.version = @ + 1] \in Snapshot
    BY <1>1 DEF Snapshot
  <2> QED
    BY <1>1, <2>1, SavedKeeps DEF EndWave
<1>6. EndPlan(p) => saved' \in [Runs -> SUBSET Snapshot]
  <2>1. terminalState(me.snap.nodes) \in PlanStates
    BY DEF terminalState, PlanStates
  <2>2. [me.snap EXCEPT !.state = terminalState(me.snap.nodes), !.version = @ + 1] \in Snapshot
    BY <1>1, <2>1, NextVersion
  <2> QED
    BY <1>1, <2>2, SavedKeeps DEF EndPlan
<1>7. \/ Announce(p) \/ Release(p) \/ Finish(p)
      \/ \E n \in Nodes : PlanNode(p, n) \/ Record(p, n) \/ HeartbeatFails(p, n)
      \/ \E n \in Nodes, result \in Results : ChildEnds(p, n, result)
      => saved' = saved
  BY DEF Announce, Emit, Throws, Release, Finish, PlanNode, Record, HeartbeatFails, ChildEnds,
         journal
<1> QED
  BY <1>2, <1>3, <1>4, <1>5, <1>6, <1>7 DEF Step, RestTyped

\* What a step of a coordinator does to leases, rivals and counters.
LEMMA StepRest ==
    ASSUME DepsInv, RestTyped, NEW p \in procs, Step(p)
    PROVE  /\ lease' \in Leases
           /\ rivals' \in [procs -> [Nodes -> SUBSET procs]]
           /\ UNCHANGED <<overlaps, kills, expired>>
<1> DEFINE me == co[p]
<1>1. me \in Memory /\ me.run \in Runs /\ me.owner \in Owners \cup {NoOwner}
  BY DEF DepsInv, Typed, Memory
<1>2. UNCHANGED <<overlaps, kills, expired>>
  BY DEF Step, Seed, Load, Announce, StartWave, Release, EndWave, EndPlan, Finish, PlanNode,
         Record, HeartbeatFails, ChildEnds
<1>3. lease' \in Leases
  <2>1. CASE \E n \in Nodes : PlanNode(p, n)
    <3> DEFINE l == [owner |-> me.owner, live |-> TRUE]
    <3>1. PICK n \in Nodes : PlanNode(p, n)
      BY <2>1
    <3>2. \/ lease' = lease
          \/ lease' = [lease EXCEPT ![me.run][n] = l]
      BY <3>1 DEF PlanNode
    <3>3. l \in Tenure
      BY <1>1 DEF Tenure
    <3> HIDE DEF l
    <3> QED
      BY <1>1, <3>2, <3>3, LeaseSet DEF RestTyped
  <2>2. CASE Release(p)
    <3> DEFINE n == me.word.node
    <3>1. lease' = lease \/ lease' = [lease EXCEPT ![me.run][n] = Free]
      BY <2>2 DEF Release
    <3>2. Free \in Tenure
      BY DEF Free, Tenure
    <3> QED
      BY <1>1, <3>1, <3>2, LeaseSet DEF RestTyped
  <2>3. CASE ~Release(p) /\ ~(\E n \in Nodes : PlanNode(p, n))
    BY <2>3 DEF RestTyped, Step, Seed, Load, Announce, StartWave, EndWave, EndPlan, Finish,
                Record, HeartbeatFails, ChildEnds
  <2> QED
    BY <2>1, <2>2, <2>3
<1>4. rivals' \in [procs -> [Nodes -> SUBSET procs]]
  <2>1. StartWave(p) => rivals' \in [procs -> [Nodes -> SUBSET procs]]
    <3> DEFINE begun ==
             {n \in Nodes :
                [m \in Nodes |-> IF m \in Runnable(p) THEN Dispatched(p, m) ELSE NoJob][n].state
                    = "run"}
    <3> HIDE DEF begun
    <3> DEFINE who(q, n) == IF q = p THEN {o \in Running(me.run, n) \ {p} : n \in begun}
                            ELSE IF n \in begun /\ q \in Running(me.run, n)
                                 THEN rivals[q][n] \cup {p}
                            ELSE rivals[q][n] \ {p}
    <3>1. StartWave(p) =>
              rivals' = rivals \/ rivals' = [q \in procs |-> [n \in Nodes |-> who(q, n)]]
      BY DEF StartWave, begun
    <3>2. \A q \in procs, n \in Nodes : who(q, n) \in SUBSET procs
      BY DEF Running, RestTyped
    <3> HIDE DEF who
    <3> QED
      BY <3>1, <3>2 DEF RestTyped
  <2>2. ~StartWave(p) => rivals' = rivals
    BY DEF Step, Seed, Load, Announce, Release, EndWave, EndPlan, Finish, PlanNode, Record,
           HeartbeatFails, ChildEnds
  <2> QED
    BY <2>1, <2>2 DEF RestTyped
<1> QED
  BY <1>2, <1>3, <1>4

LEMMA RestInit == Init => RestTyped
BY MultiTargetAssumption DEF Init, RestTyped, Leases, Tenure, Free

LEMMA RestStep == DepsInv /\ RestTyped /\ [Next]_vars => RestTyped'
<1> SUFFICES ASSUME DepsInv, RestTyped, [Next]_vars PROVE RestTyped'
  OBVIOUS
<1>1. ASSUME NEW p \in procs, Step(p) PROVE RestTyped'
  BY <1>1, SavedSnapshots, StepRest DEF RestTyped
<1>2. ASSUME NEW p \in procs, Killed(p) PROVE RestTyped'
  BY <1>2, Disturbed DEF Killed, journal, RestTyped
<1>3. ASSUME NEW p \in procs, NEW o \in Owners, Invoke(p, o) \/ Retry(p, o) PROVE RestTyped'
  BY <1>3, Disturbed DEF Invoke, Retry, Invocation, RestTyped
<1>4. ASSUME NEW r \in Runs, NEW n \in Nodes, LeaseExpires(r, n) PROVE RestTyped'
  <2>1. lease' = [lease EXCEPT ![r][n].live = FALSE] /\ expired' \in 0..MaxDisturbances
    BY <1>4, Disturbed DEF LeaseExpires
  <2>2. lease' \in Leases
    <3> DEFINE l == [lease[r][n] EXCEPT !.live = FALSE]
    <3>1. l \in Tenure
      <4>1. lease[r][n] \in Tenure
        BY DEF RestTyped, Leases
      <4> QED
        BY <4>1 DEF Tenure
    <3>2. lease' = [lease EXCEPT ![r][n] = l]
      BY <2>1
    <3> HIDE DEF l
    <3> QED
      BY <3>1, <3>2, LeaseSet DEF RestTyped
  <2> QED
    BY <1>4, <2>1, <2>2 DEF LeaseExpires, journal, RestTyped
<1>5. CASE UNCHANGED vars
  BY <1>5 DEF vars, journal, RestTyped
<1> QED
  BY <1>1, <1>2, <1>3, <1>4, <1>5 DEF Next

(* Tables, memories and counters keep their types.                           *)
THEOREM TypeCorrect == Spec => []TypeOK
<1>1. DepsInv /\ RestTyped => TypeOK
  <2> SUFFICES ASSUME DepsInv, RestTyped PROVE TypeOK
    OBVIOUS
  <2>1. ASSUME NEW p \in procs
        PROVE  /\ co[p].at \in Places /\ co[p].owner \in Owners \cup {NoOwner}
               /\ co[p].run \in Runs /\ co[p].snap \in Snapshot /\ co[p].todo \subseteq Nodes
               /\ co[p].job \in [Nodes -> Jobs]
    <3>1. {NoJob} \cup Working \cup Answers \subseteq Jobs
      BY Values DEF NoJob, Working, Answers, Jobs
    <3>2. co[p] \in Memory
      BY DEF DepsInv, Typed
    <3> QED
      BY <3>1, <3>2 DEF Memory
  <2>2. marker \in [Nodes -> [attempt : Nat, result : Jobs]]
    <3>1. Answers \subseteq Jobs
      BY DEF Answers, Jobs
    <3> QED
      BY <3>1 DEF DepsInv, Typed
  <2> QED
    BY <2>1, <2>2 DEF DepsInv, Typed, RestTyped, Leases, Tenure, TypeOK, Places
<1> QED
  BY <1>1, DepsInit, DepsStep, RestInit, RestStep, PTL DEF Spec

-----------------------------------------------------------------------------
(* Of two dispatches of a node at most one is surfaced as delivered         *)

\* Where a coordinator's wave has not started.
Beginning == {"away", "seed", "load", "plan", "announce"}

(* A dispatch in memory c is surfaced as delivered: a rival in memory d,    *)
(* with the lease l of the node, does not hold it, and is not.              *)
Fenced(c, d, n, l) ==
    c.job[n].state = "delivered" /\ d.job[n].state \in {"run", "abort", "delivered"} =>
        d.job[n].state # "delivered" /\ ~Holds(l, d.owner)

\* What a coordinator has in memory before its wave starts, and its owner.
Quiet(c) ==
    /\ c.at = "away" <=> c.owner = NoOwner
    /\ c.at \in Beginning => \A n \in Nodes : c.job[n].state \in {"none", "run"}
    /\ c.at \in {"away", "seed", "load"} => \A n \in Nodes : c.job[n].state = "none"

FenceInv ==
    /\ \A p \in procs : Quiet(co[p])
    /\ \A p, q \in procs : p # q /\ co[p].owner = co[q].owner => co[p].owner = NoOwner
    /\ \A p, q \in procs, n \in Nodes :
          /\ p # q /\ co[p].run = co[q].run
          /\ co[p].at \notin Beginning /\ co[q].at \notin Beginning
          /\ q \in rivals[p][n] \/ p \in rivals[q][n]
          => Fenced(co[p], co[q], n, lease[co[p].run][n])

LEMMA FenceInit == Init => FenceInv
BY DEF Init, FenceInv, Quiet, Away, NoJob, Beginning

(* A step of p that goes on with its wave, or before it, and gives no lease *)
(* to somebody whose wave has started.                                      *)
LEMMA FenceStays ==
    ASSUME DepsInv, FenceInv, NEW p \in procs, NEW next,
           co' = [co EXCEPT ![p] = next], rivals' = rivals,
           next.owner = co[p].owner, next.run = co[p].run, Quiet(next),
           next.at \notin Beginning =>
               \/ co[p].at \notin Beginning /\ next.job = co[p].job
               \/ \A n \in Nodes : next.job[n].state = "none",
           \A r \in Runs, n \in Nodes, q \in procs :
               co[q].at \notin Beginning /\ Holds(lease'[r][n], co[q].owner)
                   => Holds(lease[r][n], co[q].owner)
    PROVE  FenceInv'
<1>1. co'[p] = next /\ \A q \in procs \ {p} : co'[q] = co[q]
  BY DEF DepsInv, Typed
<1>2. \A q \in procs : Quiet(co'[q]) /\ co'[q].owner = co[q].owner /\ co'[q].run = co[q].run
  BY <1>1 DEF FenceInv
<1>3. ASSUME NEW a \in procs, NEW b \in procs, NEW n \in Nodes, a # b, co[a].run = co[b].run,
             co'[a].at \notin Beginning, co'[b].at \notin Beginning,
             b \in rivals[a][n] \/ a \in rivals[b][n]
      PROVE  Fenced(co'[a], co'[b], n, lease'[co[a].run][n])
  <2>1. co[a].run \in Runs
    BY DEF DepsInv, Typed, Memory
  <2>2. CASE \E c \in {a, b} : c = p /\ \A m \in Nodes : next.job[m].state = "none"
    BY <1>1, <1>3, <2>2 DEF Fenced
  <2>3. CASE \A c \in {a, b} : co[c].at \notin Beginning /\ co'[c].job = co[c].job
    <3>1. Fenced(co[a], co[b], n, lease[co[a].run][n])
      BY <1>3, <2>3 DEF FenceInv
    <3> QED
      BY <1>2, <1>3, <2>1, <2>3, <3>1 DEF Fenced
  <2> QED
    BY <1>1, <1>3, <2>2, <2>3
<1> QED
  BY <1>1, <1>2, <1>3 DEF FenceInv

\* A step of p that ends its command.
LEMMA FenceAway ==
    ASSUME DepsInv, FenceInv, NEW p \in procs, co' = [co EXCEPT ![p] = Away],
           UNCHANGED <<lease, rivals>>
    PROVE  FenceInv'
<1>1. co'[p] = Away /\ \A q \in procs \ {p} : co'[q] = co[q]
  BY DEF DepsInv, Typed
<1>2. Quiet(Away) /\ Away.at \in Beginning /\ Away.owner = NoOwner
  BY DEF Quiet, Away, NoJob, Beginning
<1> QED
  BY <1>1, <1>2 DEF FenceInv

\* A port call that goes on with next, or throws.
LEMMA FenceCall ==
    ASSUME DepsInv, FenceInv, NEW p \in procs, NEW next,
           co' = [co EXCEPT ![p] = next] \/ co' = [co EXCEPT ![p] = Away],
           UNCHANGED <<lease, rivals>>,
           next.owner = co[p].owner, next.run = co[p].run, Quiet(next),
           next.at \notin Beginning =>
               \/ co[p].at \notin Beginning /\ next.job = co[p].job
               \/ \A n \in Nodes : next.job[n].state = "none"
    PROVE  FenceInv'
<1>1. CASE co' = [co EXCEPT ![p] = next]
  <2>1. lease' = lease /\ rivals' = rivals
    OBVIOUS
  <2> QED
    BY <1>1, <2>1, FenceStays
<1>2. CASE co' = [co EXCEPT ![p] = Away]
  BY <1>2, FenceAway
<1> QED
  BY <1>1, <1>2

LEMMA FenceSeed == ASSUME DepsInv, FenceInv, NEW p \in procs, Seed(p) PROVE FenceInv'
<1> DEFINE me == co[p]
           next == [me EXCEPT !.at = "load"]
<1>1. me \in Memory /\ Quiet(me) /\ me.at = "seed"
  BY DEF DepsInv, Typed, FenceInv, Seed
<1>2. next.owner = me.owner /\ next.run = me.run /\ Quiet(next) /\ next.at = "load"
  BY <1>1 DEF Memory, Quiet
<1> HIDE DEF next
<1>3. co' = [co EXCEPT ![p] = next] \/ co' = [co EXCEPT ![p] = Away]
  BY DEF Seed, Save, Throws, next
<1> QED
  BY <1>2, <1>3, FenceCall DEF Seed, Beginning

LEMMA BeforeIsQuiet ==
    ASSUME NEW me \in Memory, NEW w, me.owner # NoOwner
    PROVE  /\ Quiet(Before(me, w))
           /\ Before(me, w).owner = me.owner /\ Before(me, w).run = me.run
           /\ \/ Before(me, w).at = "plan"
              \/ Before(me, w).at = "end" /\ Before(me, w).job = me.job
<1>1. CASE w > Len(waves)
  BY <1>1 DEF Before, Memory, Quiet, Beginning
<1>2. CASE ~(w > Len(waves))
  BY <1>2 DEF Before, Memory, Quiet, NoJob
<1> QED
  BY <1>1, <1>2

LEMMA FenceLoad == ASSUME DepsInv, FenceInv, NEW p \in procs, Load(p) PROVE FenceInv'
<1> DEFINE me == co[p]
           s == proj[me.run]
           fresh == [me EXCEPT !.snap = initialSnapshot]
           from == [me EXCEPT !.snap = s]
           done == [me EXCEPT !.at = "finish", !.snap = s]
<1>1. /\ me \in Memory /\ Quiet(me) /\ me.at = "load" /\ me.owner # NoOwner
      /\ s \in Snapshot /\ \A n \in Nodes : me.job[n].state = "none"
  BY DEF DepsInv, Typed, FenceInv, Load, Quiet, Memory
<1>2. /\ fresh \in Memory /\ fresh.owner = me.owner /\ fresh.run = me.run /\ fresh.job = me.job
      /\ from \in Memory /\ from.owner = me.owner /\ from.run = me.run /\ from.job = me.job
  BY <1>1, Values DEF Memory
<1>3. done.owner = me.owner /\ done.run = me.run /\ done.job = me.job /\ done.at = "finish"
  BY <1>1 DEF Memory
<1> HIDE DEF fresh, from, done
<1>4. Quiet(done)
  BY <1>1, <1>3 DEF Quiet, Beginning
<1>5. PICK next \in {Before(fresh, 1), Before(from, 1), done} :
         co' = [co EXCEPT ![p] = next] \/ co' = [co EXCEPT ![p] = Away]
  BY DEF Load, Save, Throws, fresh, from, done
<1>6. /\ next.owner = me.owner /\ next.run = me.run /\ Quiet(next)
      /\ next.at \notin Beginning => \A n \in Nodes : next.job[n].state = "none"
  BY <1>1, <1>2, <1>3, <1>4, BeforeIsQuiet DEF Beginning
<1> QED
  BY <1>5, <1>6, FenceCall DEF Load

LEMMA FencePlanNode ==
    ASSUME DepsInv, RestTyped, FenceInv, NEW p \in procs, NEW n \in Nodes, PlanNode(p, n)
    PROVE  FenceInv'
<1> DEFINE me == co[p]
           l == [owner |-> me.owner, live |-> TRUE]
<1>1. me \in Memory /\ Quiet(me) /\ me.at = "plan" /\ me.run \in Runs
  BY DEF DepsInv, Typed, FenceInv, PlanNode, Memory
<1>2. PICK next : /\ co' = [co EXCEPT ![p] = next]
                  /\ next.at = "announce" /\ next.owner = me.owner /\ next.run = me.run
                  /\ next.job = me.job
  <2>1. PICK state, type, note : Decide(p, n, state, type, note)
    BY DEF PlanNode
  <2> DEFINE next == [me EXCEPT !.at = "announce", !.snap.nodes[n].state = state,
                                !.word = [node |-> n, type |-> type, note |-> note]]
  <2>2. co' = [co EXCEPT ![p] = next]
    BY <2>1 DEF Decide, DepsInv, Typed
  <2>3. next.at = "announce" /\ next.owner = me.owner /\ next.run = me.run /\ next.job = me.job
    BY <1>1 DEF Memory
  <2> QED
    BY <2>2, <2>3
<1>3. Quiet(next)
  BY <1>1, <1>2 DEF Quiet, Beginning
<1>4. ASSUME NEW r \in Runs, NEW m \in Nodes, NEW q \in procs, co[q].at \notin Beginning,
             Holds(lease'[r][m], co[q].owner)
      PROVE  Holds(lease[r][m], co[q].owner)
  <2>1. co[q].owner # me.owner
    <3>1. q # p /\ me.owner # NoOwner
      BY <1>1, <1>4 DEF Quiet, Beginning
    <3> QED
      BY <3>1 DEF FenceInv
  <2>2. l \in Tenure /\ l.owner = me.owner
    BY <1>1 DEF Memory, Tenure
  <2> HIDE DEF l
  <2>3. lease' = lease \/ lease' = [lease EXCEPT ![me.run][n] = l]
    BY DEF PlanNode, l
  <2>4. CASE lease' = [lease EXCEPT ![me.run][n] = l]
    <3>1. lease'[r][m] = l \/ lease'[r][m] = lease[r][m]
      BY <1>1, <2>2, <2>4, LeaseSet DEF RestTyped
    <3> QED
      BY <1>4, <2>1, <2>2, <3>1 DEF Holds
  <2> QED
    BY <1>4, <2>3, <2>4
<1>5. rivals' = rivals /\ next.at \in Beginning
  BY <1>2 DEF PlanNode, Beginning
<1> QED
  BY <1>2, <1>3, <1>4, <1>5, FenceStays

LEMMA FenceAnnounce == ASSUME DepsInv, FenceInv, NEW p \in procs, Announce(p) PROVE FenceInv'
<1> DEFINE me == co[p]
           n == me.word.node
           started == me.word.type = "node_started"
           next == [me EXCEPT !.at = "plan", !.todo = @ \ {n}, !.word = NoWord,
                              !.job[n] = IF started THEN [state |-> "run", cost |-> 0] ELSE @]
<1>1. me \in Memory /\ Quiet(me) /\ me.at = "announce"
  BY DEF DepsInv, Typed, FenceInv, Announce
<1>2. /\ next.at = "plan" /\ next.owner = me.owner /\ next.run = me.run
      /\ \A m \in Nodes : next.job[m] \in {me.job[m], [state |-> "run", cost |-> 0]}
  BY <1>1 DEF Memory
<1> HIDE DEF next
<1>3. Quiet(next)
  BY <1>1, <1>2 DEF Quiet, Beginning
<1>4. co' = [co EXCEPT ![p] = next] \/ co' = [co EXCEPT ![p] = Away]
  BY DEF Announce, Emit, Throws, next
<1> QED
  BY <1>2, <1>3, <1>4, FenceCall DEF Announce, Beginning

\* A step of p that changes the job of node n, and calls it delivered only under its lease.
LEMMA FenceJob ==
    ASSUME DepsInv, FenceInv, NEW p \in procs, NEW n \in Nodes, NEW j,
           co[p].at = "run", co' = [co EXCEPT ![p].job[n] = j], UNCHANGED <<lease, rivals>>,
           Active(p, n), j.state \in {"abort", "delivered", "withheld", "failed"},
           j.state = "delivered" => Holds(lease[co[p].run][n], co[p].owner)
    PROVE  FenceInv'
<1> DEFINE me == co[p]
           jobs == [me.job EXCEPT ![n] = j]
           next == [me EXCEPT !.job = jobs]
<1>1. me \in Memory /\ Quiet(me) /\ me.owner # NoOwner /\ me.run \in Runs
  BY DEF DepsInv, Typed, FenceInv, Quiet, Memory
<1>2. /\ next.at = "run" /\ next.owner = me.owner /\ next.run = me.run
      /\ \A m \in Nodes : next.job[m] = IF m = n THEN j ELSE me.job[m]
  BY <1>1 DEF Memory
<1>3. co' = [co EXCEPT ![p] = next]
  BY DEF DepsInv, Typed
<1> HIDE DEF next
<1>4. co'[p] = next /\ \A q \in procs \ {p} : co'[q] = co[q]
  BY <1>3 DEF DepsInv, Typed
<1>5. \A q \in procs : Quiet(co'[q]) /\ co'[q].owner = co[q].owner /\ co'[q].run = co[q].run
  BY <1>1, <1>2, <1>4 DEF FenceInv, Quiet, Beginning
<1>6. me.at \notin Beginning /\ next.at \notin Beginning
  BY <1>2 DEF Beginning
<1>7. ASSUME NEW a \in procs, NEW b \in procs, NEW m \in Nodes, a # b, co[a].run = co[b].run,
             co'[a].at \notin Beginning, co'[b].at \notin Beginning,
             b \in rivals[a][m] \/ a \in rivals[b][m]
      PROVE  Fenced(co'[a], co'[b], m, lease[co[a].run][m])
  <2>1. co[a].at \notin Beginning /\ co[b].at \notin Beginning
    BY <1>4, <1>6, <1>7
  <2>2. /\ Fenced(co[a], co[b], m, lease[co[a].run][m])
        /\ Fenced(co[b], co[a], m, lease[co[a].run][m])
    BY <1>7, <2>1 DEF FenceInv
  <2>3. co[a].owner # co[b].owner \/ co[a].owner = NoOwner
    BY <1>7 DEF FenceInv
  <2>4. CASE m # n \/ p \notin {a, b}
    <3>1. co'[a].job[m] = co[a].job[m] /\ co'[b].job[m] = co[b].job[m]
      BY <1>2, <1>4, <2>4
    <3> QED
      BY <1>5, <2>2, <3>1 DEF Fenced
  <2>5. CASE m = n /\ a = p
    <3>1. co'[a].job[m] = j /\ co'[b] = co[b]
      BY <1>2, <1>4, <1>7, <2>5
    <3>2. co[a].job[m].state \in {"run", "abort"}
      BY <2>5 DEF Active
    <3> QED
      BY <1>1, <2>2, <2>3, <2>5, <3>1, <3>2 DEF Fenced, Holds
  <2>6. CASE m = n /\ b = p
    <3>1. co'[b].job[m] = j /\ co'[a] = co[a] /\ co'[b].owner = co[b].owner
      BY <1>2, <1>4, <1>7, <2>6
    <3>2. co[b].job[m].state \in {"run", "abort"}
      BY <2>6 DEF Active
    <3> QED
      BY <1>1, <1>7, <2>2, <2>3, <2>6, <3>1, <3>2 DEF Fenced, Holds
  <2> QED
    BY <1>7, <2>4, <2>5, <2>6
<1> QED
  BY <1>5, <1>7 DEF FenceInv

LEMMA FenceHeartbeat ==
    ASSUME DepsInv, FenceInv, NEW p \in procs, NEW n \in Nodes, HeartbeatFails(p, n)
    PROVE  FenceInv'
<1> DEFINE j == [co[p].job[n] EXCEPT !.state = "abort"]
<1>1. co[p] \in Memory /\ co[p].at = "run" /\ co[p].job[n].state = "run" /\ Active(p, n)
  BY DEF DepsInv, Typed, HeartbeatFails, Active
<1>2. j.state = "abort"
  BY <1>1 DEF Memory, Working, Answers, NoJob
<1>3. co' = [co EXCEPT ![p].job[n] = j]
  BY <1>1 DEF HeartbeatFails, DepsInv, Typed, Memory
<1> HIDE DEF j
<1> QED
  BY <1>1, <1>2, <1>3, FenceJob DEF HeartbeatFails

LEMMA FenceChildEnds ==
    ASSUME DepsInv, FenceInv, NEW p \in procs, NEW n \in Nodes, NEW result \in Results,
           ChildEnds(p, n, result)
    PROVE  FenceInv'
<1> DEFINE l == lease[co[p].run][n]
<1>1. result \in Answers /\ Surfaced(l, co[p].owner, result) \in Answers
  BY Values, SurfacedIsAnswer
<1>2. Surfaced(l, co[p].owner, result).state = "delivered" => Holds(l, co[p].owner)
  BY <1>1 DEF Surfaced, Answers
<1>3. PICK j : /\ co' = [co EXCEPT ![p].job[n] = j]
               /\ j.state \in {"delivered", "withheld", "failed"}
               /\ j.state = "delivered" => Holds(l, co[p].owner)
  <2>1. CASE co' = [co EXCEPT ![p].job[n] = [state |-> "failed", cost |-> 0]]
    <3> DEFINE f == [state |-> "failed", cost |-> 0]
    <3>1. f.state = "failed" /\ co' = [co EXCEPT ![p].job[n] = f]
      BY <2>1
    <3> HIDE DEF f
    <3> QED
      BY <3>1
  <2>2. CASE co' = [co EXCEPT ![p].job[n] = Surfaced(l, co[p].owner, result)]
    BY <1>1, <1>2, <2>2 DEF Answers
  <2> QED
    BY <2>1, <2>2 DEF ChildEnds
<1> QED
  BY <1>3, FenceJob DEF ChildEnds

\* A step of p that goes on with its wave.
LEMMA FenceGoesOn ==
    ASSUME DepsInv, FenceInv, NEW p \in procs, NEW next,
           co[p].at \notin Beginning, next.at \notin Beginning \cup {"away"},
           co' = [co EXCEPT ![p] = next] \/ co' = [co EXCEPT ![p] = Away],
           UNCHANGED <<lease, rivals>>,
           next.owner = co[p].owner, next.run = co[p].run, next.job = co[p].job
    PROVE  FenceInv'
<1>1. Quiet(next)
  BY DEF FenceInv, Quiet, Beginning
<1> QED
  BY <1>1, FenceCall

LEMMA FenceRecord ==
    ASSUME DepsInv, FenceInv, NEW p \in procs, NEW n \in Nodes, Record(p, n)
    PROVE  FenceInv'
<1> DEFINE me == co[p]
           rec == Verdict(n, me.job[n])
           type == IF OverGrant(n, me.job[n]) THEN "budget_exceeded" ELSE rec.state
           word == [node |-> n, type |-> type, note |-> NoNote]
           next == [me EXCEPT !.at = "release", !.snap.nodes[n] = rec, !.word = word]
<1>1. me \in Memory /\ me.at = "run"
  BY DEF DepsInv, Typed, Record
<1> HIDE DEF rec, word
<1>2. next.at = "release" /\ next.owner = me.owner /\ next.run = me.run /\ next.job = me.job
  BY <1>1 DEF Memory
<1> HIDE DEF next
<1>3. co' = [co EXCEPT ![p] = next] \/ co' = [co EXCEPT ![p] = Away]
  BY DEF Record, Emit, Throws, rec, word, next
<1> QED
  BY <1>1, <1>2, <1>3, FenceGoesOn DEF Record, Beginning

LEMMA FenceRelease ==
    ASSUME DepsInv, RestTyped, FenceInv, NEW p \in procs, Release(p)
    PROVE  FenceInv'
<1> DEFINE me == co[p]
           n == me.word.node
           next == [me EXCEPT !.at = "run", !.word = NoWord]
<1>1. me \in Memory /\ me.at = "release" /\ Quiet(me) /\ me.run \in Runs
  BY DEF DepsInv, Typed, FenceInv, Release, Memory
<1>2. /\ next.at = "run" /\ next.owner = me.owner /\ next.run = me.run /\ next.job = me.job
      /\ Quiet(next)
  BY <1>1 DEF Memory, Quiet, Beginning
<1>3. co' = [co EXCEPT ![p] = next]
  BY <1>1 DEF Release, DepsInv, Typed
<1> HIDE DEF next
<1>4. \A r \in Runs, m \in Nodes : \A o : Holds(lease'[r][m], o) => Holds(lease[r][m], o)
  <2>1. CASE lease' = [lease EXCEPT ![me.run][n] = Free]
    <3>1. Free \in Tenure /\ \A o : ~Holds(Free, o)
      BY DEF Free, Tenure, Holds
    <3>2. \A r \in Runs, m \in Nodes : lease'[r][m] = Free \/ lease'[r][m] = lease[r][m]
      BY <1>1, <2>1, <3>1, LeaseSet DEF RestTyped
    <3> QED
      BY <3>1, <3>2
  <2> QED
    BY <2>1 DEF Release
<1>5. rivals' = rivals /\ me.at \notin Beginning
  BY <1>1 DEF Release, Beginning
<1> QED
  BY <1>2, <1>3, <1>4, <1>5, FenceStays

LEMMA FenceEndWave == ASSUME DepsInv, FenceInv, NEW p \in procs, EndWave(p) PROVE FenceInv'
<1> DEFINE me == co[p]
           s == [me.snap EXCEPT !.version = @ + 1]
           from == [me EXCEPT !.snap = s]
           next == Before(from, me.wave + 1)
<1>1. me \in Memory /\ me.at = "run" /\ Quiet(me) /\ me.owner # NoOwner
  BY DEF DepsInv, Typed, FenceInv, EndWave, Quiet
<1>2. from \in Memory /\ from.owner = me.owner /\ from.run = me.run /\ from.job = me.job
  <2>1. s \in Snapshot
    BY <1>1 DEF Memory, Snapshot
  <2> HIDE DEF s
  <2> QED
    BY <1>1, <2>1 DEF Memory
<1> HIDE DEF from
<1>3. /\ Quiet(next) /\ next.owner = me.owner /\ next.run = me.run
      /\ next.at = "plan" \/ (next.at = "end" /\ next.job = me.job)
  BY <1>1, <1>2, BeforeIsQuiet
<1>4. co' = [co EXCEPT ![p] = next] \/ co' = [co EXCEPT ![p] = Away]
  BY DEF EndWave, Save, Throws, from
<1> HIDE DEF next
<1> QED
  BY <1>1, <1>3, <1>4, FenceCall DEF EndWave, Beginning

LEMMA FenceEndPlan == ASSUME DepsInv, FenceInv, NEW p \in procs, EndPlan(p) PROVE FenceInv'
<1> DEFINE me == co[p]
           s == [me.snap EXCEPT !.state = terminalState(me.snap.nodes), !.version = @ + 1]
           done == [me EXCEPT !.at = "finish", !.snap = s]
<1>1. me \in Memory /\ me.at = "end"
  BY DEF DepsInv, Typed, EndPlan
<1> HIDE DEF s
<1>2. done.at = "finish" /\ done.owner = me.owner /\ done.run = me.run /\ done.job = me.job
  BY <1>1 DEF Memory
<1> HIDE DEF done
<1>3. co' = [co EXCEPT ![p] = done] \/ co' = [co EXCEPT ![p] = Away]
  BY DEF EndPlan, Save, Throws, s, done
<1> QED
  BY <1>1, <1>2, <1>3, FenceGoesOn DEF EndPlan, Beginning

LEMMA FenceInvoke ==
    ASSUME DepsInv, FenceInv, NEW p \in procs, NEW o \in Owners, Invoke(p, o) \/ Retry(p, o)
    PROVE  FenceInv'
<1>1. PICK next : /\ co' = [co EXCEPT ![p] = next]
                  /\ next.at \in {"load", "seed"} /\ next.owner = o
                  /\ \A n \in Nodes : next.job[n] = NoJob
  <2>1. CASE Invoke(p, o)
    <3> DEFINE next == [Away EXCEPT !.at = "load", !.owner = o,
                                    !.run = IF Latest = 0 THEN 1 ELSE Latest]
    <3>1. co' = [co EXCEPT ![p] = next]
      BY <2>1 DEF Invoke
    <3>2. next.at = "load" /\ next.owner = o /\ \A n \in Nodes : next.job[n] = NoJob
      BY DEF Away
    <3> QED
      BY <3>1, <3>2
  <2>2. CASE Retry(p, o)
    <3> DEFINE prev == proj[Latest]
               s == [state |-> "ready", version |-> prev.version + 1,
                     attempt |-> prev.attempt + 1,
                     nodes |-> [n \in Nodes |-> Reopened(prev.nodes[n])]]
               next == [Away EXCEPT !.at = "seed", !.owner = o, !.run = Latest + 1, !.snap = s]
    <3>1. co' = [co EXCEPT ![p] = next]
      BY <2>2 DEF Retry
    <3>2. next.at = "seed" /\ next.owner = o /\ \A n \in Nodes : next.job[n] = NoJob
      BY DEF Away
    <3> QED
      BY <3>1, <3>2
  <2> QED
    BY <2>1, <2>2
<1>2. UNCHANGED <<lease, rivals>> /\ \A q \in procs : co[q].owner # o
  BY DEF Invoke, Retry, Invocation
<1>3. o # NoOwner
  BY MultiTargetAssumption
<1>4. Quiet(next) /\ next.at \in Beginning
  BY <1>1, <1>3 DEF Quiet, NoJob, Beginning
<1>5. co'[p] = next /\ \A q \in procs \ {p} : co'[q] = co[q]
  BY <1>1 DEF DepsInv, Typed
<1> QED
  BY <1>1, <1>2, <1>4, <1>5 DEF FenceInv

LEMMA FenceExpires ==
    ASSUME DepsInv, RestTyped, FenceInv, NEW r \in Runs, NEW n \in Nodes, LeaseExpires(r, n)
    PROVE  FenceInv'
<1> DEFINE l == [lease[r][n] EXCEPT !.live = FALSE]
<1>1. l \in Tenure /\ \A o : ~Holds(l, o)
  <2>1. lease[r][n] \in Tenure
    BY DEF RestTyped, Leases
  <2> QED
    BY <2>1 DEF Tenure, Holds
<1>2. lease' = [lease EXCEPT ![r][n] = l] /\ UNCHANGED <<co, rivals>>
  BY DEF LeaseExpires
<1> HIDE DEF l
<1>3. \A x \in Runs, m \in Nodes : lease'[x][m] = l \/ lease'[x][m] = lease[x][m]
  BY <1>1, <1>2, LeaseSet DEF RestTyped
<1>4. \A q \in procs : co[q].run \in Runs
  BY DEF DepsInv, Typed, Memory
<1> QED
  BY <1>1, <1>2, <1>3, <1>4 DEF FenceInv, Fenced

LEMMA FenceStartWave ==
    ASSUME DepsInv, RestTyped, FenceInv, NEW p \in procs, StartWave(p)
    PROVE  FenceInv'
<1> DEFINE me == co[p]
           s == [me.snap EXCEPT !.state = "running", !.version = @ + 1]
           job == [n \in Nodes |-> IF n \in Runnable(p) THEN Dispatched(p, n) ELSE NoJob]
           begun == {n \in Nodes : job[n].state = "run"}
           next == [me EXCEPT !.at = "run", !.snap = s, !.job = job]
           held(q, n) == IF q = p THEN {o \in Running(me.run, n) \ {p} : n \in begun}
                         ELSE IF n \in begun /\ q \in Running(me.run, n)
                              THEN rivals[q][n] \cup {p}
                         ELSE rivals[q][n] \ {p}
<1>1. me \in Memory /\ me.at = "plan" /\ Quiet(me) /\ me.owner # NoOwner /\ me.run \in Runs
  BY DEF DepsInv, Typed, FenceInv, StartWave, Quiet, Memory
<1>2. next.at = "run" /\ next.owner = me.owner /\ next.run = me.run /\ next.job = job
  BY <1>1 DEF Memory
<1>3. co' = [co EXCEPT ![p] = next] \/ co' = [co EXCEPT ![p] = Away]
  BY DEF StartWave, Save, Throws
<1>4. lease' = lease
  BY DEF StartWave
<1> HIDE DEF next, job
<1>5. rivals' = IF co'[p].at = "away" THEN rivals
                ELSE [q \in procs |-> [n \in Nodes |-> held(q, n)]]
  BY DEF StartWave, job
<1> HIDE DEF held
<1>6. CASE co' = [co EXCEPT ![p] = Away]
  <2>1. rivals' = rivals
    BY <1>5, <1>6 DEF DepsInv, Typed, Away
  <2> QED
    BY <1>4, <1>6, <2>1, FenceAway
<1>7. CASE co' = [co EXCEPT ![p] = next]
  <2>1. co'[p] = next /\ \A q \in procs \ {p} : co'[q] = co[q]
    BY <1>7 DEF DepsInv, Typed
  <2>2. \A q \in procs : Quiet(co'[q]) /\ co'[q].owner = co[q].owner /\ co'[q].run = co[q].run
    BY <1>1, <1>2, <2>1 DEF FenceInv, Quiet, Beginning
  <2>3. \A q \in procs, n \in Nodes : rivals'[q][n] = held(q, n)
    BY <1>2, <1>5, <2>1
  \* A pair with p in it: p's job runs, and the other's runs too.
  <2>4. ASSUME NEW q \in procs, NEW n \in Nodes, q # p, q \in rivals'[p][n] \/ p \in rivals'[q][n]
        PROVE  job[n].state = "run" /\ co[q].job[n].state \in {"run", "abort"}
    <3>1. CASE q \in rivals'[p][n]
      <4>1. q \in held(p, n)
        BY <2>3, <3>1
      <4>2. n \in begun /\ q \in Running(me.run, n)
        BY <4>1 DEF held
      <4> QED
        BY <4>2 DEF Running, Active
    <3>2. CASE p \in rivals'[q][n]
      <4>1. p \in held(q, n)
        BY <2>3, <3>2
      <4>2. n \in begun /\ q \in Running(me.run, n)
        BY <2>4, <4>1 DEF held
      <4> QED
        BY <4>2 DEF Running, Active
    <3> QED
      BY <2>4, <3>1, <3>2
  <2>5. ASSUME NEW a \in procs, NEW b \in procs, NEW n \in Nodes, a # b, co[a].run = co[b].run,
               co'[a].at \notin Beginning, co'[b].at \notin Beginning,
               b \in rivals'[a][n] \/ a \in rivals'[b][n]
        PROVE  Fenced(co'[a], co'[b], n, lease[co[a].run][n])
    <3>1. CASE p \in {a, b}
      <4>1. co'[a].job[n].state # "delivered"
        BY <1>2, <2>1, <2>4, <2>5, <3>1
      <4> QED
        BY <4>1 DEF Fenced
    <3>2. CASE p \notin {a, b}
      <4>1. ASSUME NEW c \in procs, NEW d \in procs, c # p, d # p, d \in rivals'[c][n]
            PROVE  d \in rivals[c][n]
        <5>1. d \in held(c, n)
          BY <2>3, <4>1
        <5> QED
          BY <4>1, <5>1 DEF held
      <4>2. b \in rivals[a][n] \/ a \in rivals[b][n]
        BY <2>5, <3>2, <4>1
      <4> QED
        BY <2>1, <2>5, <3>2, <4>2 DEF FenceInv
    <3> QED
      BY <3>1, <3>2
  <2> QED
    BY <1>4, <2>2, <2>5 DEF FenceInv
<1> QED
  BY <1>3, <1>6, <1>7

LEMMA FenceStep == DepsInv /\ RestTyped /\ FenceInv /\ [Next]_vars => FenceInv'
<1> SUFFICES ASSUME DepsInv, RestTyped, FenceInv, [Next]_vars PROVE FenceInv'
  OBVIOUS
<1>1. ASSUME NEW p \in procs, Step(p) PROVE FenceInv'
  <2>1. Finish(p) => FenceInv'
    BY FenceAway DEF Finish
  <2> QED
    BY <1>1, <2>1, FenceSeed, FenceLoad, FenceAnnounce, FenceStartWave, FenceRelease,
       FenceEndWave,
       FenceEndPlan, FencePlanNode, FenceRecord, FenceHeartbeat, FenceChildEnds DEF Step
<1>2. ASSUME NEW p \in procs, Killed(p) PROVE FenceInv'
  BY <1>2, FenceAway DEF Killed
<1>3. ASSUME NEW p \in procs, NEW o \in Owners, Invoke(p, o) \/ Retry(p, o) PROVE FenceInv'
  BY <1>3, FenceInvoke
<1>4. ASSUME NEW r \in Runs, NEW n \in Nodes, LeaseExpires(r, n) PROVE FenceInv'
  BY <1>4, FenceExpires
<1>5. CASE UNCHANGED vars
  BY <1>5 DEF vars, FenceInv
<1> QED
  BY <1>1, <1>2, <1>3, <1>4, <1>5 DEF Next

(* However commands overlap, are killed and lose their leases: of two       *)
(* dispatches of one node that ran at the same time in one Run, the second  *)
(* to be surfaced as delivered would need a lease that is the first's.      *)
THEOREM LeasesFence == Spec => []LeaseFences
<1>1. FenceInv => LeaseFences
  <2> SUFFICES ASSUME FenceInv, NEW p \in procs, NEW q \in procs, NEW n \in Nodes,
                      p # q, q \in rivals[p][n], co[p].run = co[q].run,
                      co[p].job[n].state = "delivered", co[q].job[n].state = "delivered"
               PROVE  FALSE
    BY DEF LeaseFences
  <2>1. co[p].at \notin Beginning /\ co[q].at \notin Beginning
    BY DEF FenceInv, Quiet
  <2> QED
    BY <2>1 DEF FenceInv, Fenced
<1> QED
  BY <1>1, DepsInit, DepsStep, RestInit, RestStep, FenceInit, FenceStep, PTL DEF Spec

-----------------------------------------------------------------------------
(* While no two commands overlap, delivered nodes are not run again         *)

\* Snapshot s calls delivered what the events es do.
Keeps(s, es) ==
    \A n \in Nodes :
        (\E e \in es : e.node = n /\ e.type \in Deliveries) => s.nodes[n].state = "delivered"

\* The same of Run r, and of the Run it retries when s was made by a retry.
Faithful(s, es, r) ==
    /\ Keeps(s, es[r])
    /\ s.attempt > 1 => r > 1 /\ Keeps(s, es[r - 1])

\* A coordinator's memory c beside the projections pr and the events es.
Fit(c, pr, es) ==
    /\ c.at \notin {"away", "load"} => Faithful(c.snap, es, c.run) /\ c.snap.version > 0
    /\ c.at \notin {"away", "load", "seed"} =>
          pr[c.run].version > 0 /\ pr[c.run].attempt = c.snap.attempt
    /\ c.at = "plan" => \A n \in c.todo : c.snap.nodes[n].state # "delivered"
    /\ c.at = "announce" =>
          /\ \A n \in c.todo \ {c.word.node} : c.snap.nodes[n].state # "delivered"
          /\ c.word.type = "node_started" => c.snap.nodes[c.word.node].state = "running"
          /\ c.word.type \in Deliveries => c.snap.nodes[c.word.node].state = "delivered"

\* The Runs of the chain, one coordinator at work, and it on the last Run.
Chained ==
    /\ \A r \in Runs : run[r] = "none" <=> r > Latest
    /\ \A r \in Runs :
          /\ Faithful(proj[r], events, r)
          /\ proj[r].version = 0 => events[r] = {} /\ saved[r] = {}
          /\ r > Latest => proj[r].attempt = 1 /\ events[r] = {}
    /\ \A p \in procs : co[p].at # "away" => co[p].run = Latest
    /\ \A p \in procs : Fit(co[p], proj, events)
    /\ \A p, q \in procs : co[p].at # "away" /\ co[q].at # "away" => p = q

ChainInv == overlaps = 0 => Chained

LEMMA ChainInit == Init => ChainInv
<1> SUFFICES ASSUME Init PROVE Chained
  BY DEF ChainInv
<1>1. Latest = 0
  <2>1. {r \in Runs : run[r] # "none"} = {}
    BY DEF Init
  <2> QED
    BY <2>1, FS_EmptySet DEF Latest
<1>2. \A r \in Runs : Faithful(proj[r], events, r) /\ proj[r].attempt = 1
  BY DEF Init, Faithful, Keeps, NoSnapshot
<1>3. \A p \in procs : Fit(co[p], proj, events) /\ co[p].at = "away"
  BY DEF Init, Fit, Away
<1>4. \A r \in Runs : r > Latest /\ run[r] = "none" /\ events[r] = {} /\ saved[r] = {}
  BY <1>1 DEF Init, Runs
<1> QED
  BY <1>2, <1>3, <1>4 DEF Chained

\* What a step of the coordinator at work may do.
LEMMA ChainWork ==
    ASSUME DepsInv, Chained, NEW p \in procs, co[p].at # "away",
           NEW next, co' = [co EXCEPT ![p] = next],
           next.at = "away" \/ next.run = co[p].run, Fit(next, proj', events'),
           \A x \in Runs : run'[x] = "none" <=> run[x] = "none",
           \A x \in Runs \ {co[p].run} :
               proj'[x] = proj[x] /\ events'[x] = events[x] /\ saved'[x] = saved[x],
           Faithful(proj'[co[p].run], events', co[p].run),
           proj'[co[p].run].version = 0 => events'[co[p].run] = {} /\ saved'[co[p].run] = {}
    PROVE  Chained'
<1> DEFINE k == co[p].run
<1>1. Latest' = Latest
  <2>1. {r \in Runs : run'[r] # "none"} = {r \in Runs : run[r] # "none"}
    OBVIOUS
  <2> QED
    BY <2>1 DEF Latest
<1>2. k = Latest /\ k \in Runs /\ Runs \subseteq Nat
  BY Values DEF Chained, DepsInv, Typed, Memory
<1>3. co'[p] = next /\ \A q \in procs \ {p} : co'[q] = co[q] /\ co'[q].at = "away"
  BY DEF DepsInv, Typed, Chained
<1>4. ASSUME NEW x \in Runs
      PROVE  /\ Faithful(proj'[x], events', x)
             /\ proj'[x].version = 0 => events'[x] = {} /\ saved'[x] = {}
             /\ x > Latest => proj'[x].attempt = 1 /\ events'[x] = {}
  <2>1. CASE x = k
    BY <1>2, <2>1
  <2>2. CASE x # k
    <3>1. Faithful(proj[x], events, x) /\ proj'[x] = proj[x] /\ events'[x] = events[x]
      BY <2>2 DEF Chained
    <3>2. proj[x].attempt > 1 => x - 1 # k
      BY <1>2 DEF Chained
    <3>3. x > 1 => x - 1 \in Runs
      BY <1>2, MultiTargetAssumption DEF Runs
    <3>4. Faithful(proj'[x], events', x)
      <4>1. proj[x].attempt > 1 => events'[x - 1] = events[x - 1]
        BY <3>1, <3>2, <3>3 DEF Faithful
      <4> QED
        BY <3>1, <4>1 DEF Faithful
    <3> QED
      BY <2>2, <3>4 DEF Chained
  <2> QED
    BY <2>1, <2>2
<1>5. \A q \in procs : Fit(co'[q], proj', events')
  BY <1>3 DEF Fit
<1> QED
  BY <1>1, <1>2, <1>3, <1>4, <1>5 DEF Chained

\* The coordinator at work stops.
LEMMA ChainAway ==
    ASSUME DepsInv, Chained, NEW p \in procs, co[p].at # "away", co' = [co EXCEPT ![p] = Away],
           UNCHANGED <<proj, events, saved>>,
           \A x \in Runs : run'[x] = "none" <=> run[x] = "none"
    PROVE  Chained'
<1>1. co[p].run \in Runs
  BY DEF DepsInv, Typed, Memory
<1>2. Away.at = "away" /\ Fit(Away, proj', events')
  BY DEF Away, Fit
<1>3. /\ Faithful(proj[co[p].run], events, co[p].run)
      /\ proj[co[p].run].version = 0 => events[co[p].run] = {} /\ saved[co[p].run] = {}
  BY <1>1 DEF Chained
<1> QED
  BY <1>2, <1>3, ChainWork

\* The coordinator at work goes on, in memory only.
LEMMA ChainOn ==
    ASSUME DepsInv, Chained, NEW p \in procs, co[p].at # "away",
           NEW next, co' = [co EXCEPT ![p] = next], next.run = co[p].run,
           Fit(next, proj, events), UNCHANGED <<run, proj, events, saved>>
    PROVE  Chained'
<1>1. co[p].run \in Runs
  BY DEF DepsInv, Typed, Memory
<1>2. /\ Faithful(proj[co[p].run], events, co[p].run)
      /\ proj[co[p].run].version = 0 => events[co[p].run] = {} /\ saved[co[p].run] = {}
  BY <1>1 DEF Chained
<1> QED
  BY <1>2, ChainWork

\* The coordinator at work saves s, or stops.
LEMMA ChainSave ==
    ASSUME DepsInv, RestTyped, Chained, NEW p \in procs, co[p].at # "away",
           NEW s \in Snapshot, s.version > 0, Faithful(s, events, co[p].run),
           NEW next, Save(p, s, next), run' = run,
           \/ next = Away
           \/ next.at = "load" /\ next.run = co[p].run
           \/ /\ next.at \notin {"away", "announce"} /\ next.run = co[p].run /\ next.snap = s
              /\ next.at = "plan" => \A n \in next.todo : s.nodes[n].state # "delivered"
              /\ proj[co[p].run].version > 0 => proj[co[p].run].attempt = s.attempt
    PROVE  Chained'
<1> DEFINE r == co[p].run
           same == {t \in saved[r] : t.version = s.version}
<1>1. r \in Runs /\ proj[r].version \in Nat
  BY DEF DepsInv, Typed, Memory, Snapshot
<1>2. /\ Faithful(proj[r], events, r)
      /\ proj[r].version = 0 => events[r] = {} /\ saved[r] = {}
  BY <1>1 DEF Chained
<1>3. CASE same \ {s} # {}
  <2>1. co' = [co EXCEPT ![p] = Away] /\ UNCHANGED <<proj, saved, events>>
    BY <1>3 DEF Save, Throws
  <2> QED
    BY <2>1, ChainAway
<1>4. CASE same = {}
  <2>1. /\ co' = [co EXCEPT ![p] = next] /\ events' = events
        /\ saved' = [saved EXCEPT ![r] = @ \cup {s}] /\ proj' = [proj EXCEPT ![r] = s]
    BY <1>4 DEF Save
  <2>2. proj'[r] = s /\ \A x \in Runs \ {r} : proj'[x] = proj[x] /\ saved'[x] = saved[x]
    BY <1>1, <2>1 DEF DepsInv, Typed, RestTyped
  <2>3. Fit(next, proj', events')
    BY <2>1, <2>2 DEF Fit, Away
  <2>4. next.at = "away" \/ next.run = r
    BY DEF Away
  <2>5. Faithful(proj'[r], events', r) /\ proj'[r].version # 0
    BY <2>1, <2>2
  <2> QED
    BY <2>1, <2>2, <2>3, <2>4, <2>5, ChainWork
<1>5. CASE same = {s}
  <2>1. /\ co' = [co EXCEPT ![p] = next] /\ UNCHANGED <<events, proj>>
        /\ saved' = [saved EXCEPT ![r] = @ \cup {s}]
    BY <1>5 DEF Save
  <2>2. s \in saved[r] /\ proj[r].version > 0
    BY <1>1, <1>2, <1>5
  <2>3. saved' = saved
    BY <2>1, <2>2 DEF RestTyped
  <2>4. Fit(next, proj, events)
    BY <2>2 DEF Fit, Away
  <2>5. CASE next = Away
    BY <2>1, <2>3, <2>5, ChainAway
  <2>6. CASE next # Away
    BY <2>1, <2>3, <2>4, <2>6, ChainOn
  <2> QED
    BY <2>5, <2>6
<1> QED
  BY <1>3, <1>4, <1>5

\* The coordinator at work journals a node's record, or stops.
LEMMA ChainEmit ==
    ASSUME DepsInv, Chained, NEW p \in procs, co[p].at \notin {"away", "load", "seed"},
           NEW n \in Nodes, NEW rec \in NodeRec, NEW type, NEW note,
           NEW next, Emit(p, n, rec, type, note, next), run' = run,
           type \in Deliveries => rec.state = "delivered",
           co[p].snap.nodes[n].state = "delivered" => rec.state = "delivered",
           next.at \notin {"away", "announce"}, next.run = co[p].run,
           next.snap.attempt = co[p].snap.attempt, next.snap.version = co[p].snap.version,
           next.snap.nodes[n].state = rec.state,
           \A m \in Nodes \ {n} : next.snap.nodes[m].state = co[p].snap.nodes[m].state,
           next.at = "plan" => \A m \in next.todo : next.snap.nodes[m].state # "delivered"
    PROVE  Chained'
<1> DEFINE me == co[p]
           r == me.run
           e == [type |-> type, node |-> n, rec |-> rec, note |-> note]
           same == {f \in events[r] : f.type = type /\ f.node = n}
<1>1. r \in Runs /\ proj[r] \in Snapshot /\ Runs \subseteq Nat /\ me.snap \in Snapshot
  BY Values DEF DepsInv, Typed, Memory
<1>2. /\ Faithful(proj[r], events, r) /\ Faithful(me.snap, events, r)
      /\ proj[r].version > 0 /\ proj[r].attempt = me.snap.attempt /\ me.snap.version > 0
  BY <1>1 DEF Chained, Fit
<1>3. CASE same \ {e} # {}
  <2>1. co' = [co EXCEPT ![p] = Away] /\ UNCHANGED <<proj, saved, events>>
    BY <1>3 DEF Emit, Throws
  <2> QED
    BY <2>1, ChainAway
<1>4. CASE same \ {e} = {}
  <2>1. /\ co' = [co EXCEPT ![p] = next] /\ saved' = saved
        /\ events' = [events EXCEPT ![r] = @ \cup {e}]
        /\ proj' = IF same = {}
                   THEN [proj EXCEPT ![r].nodes[n] = rec, ![r].state = "running"] ELSE proj
    BY <1>4 DEF Emit
  <2>2. /\ events'[r] = events[r] \cup {e}
        /\ \A x \in Runs \ {r} : events'[x] = events[x]
    BY <1>1, <2>1 DEF DepsInv, Typed
  <2>3. r > 1 => events'[r - 1] = events[r - 1]
    <3>1. r > 1 => r - 1 \in Runs \ {r}
      BY <1>1, MultiTargetAssumption DEF Runs
    <3> QED
      BY <2>2, <3>1
  <2>4. e.node = n /\ e.type = type
    OBVIOUS
  <2> HIDE DEF e, same
  <2>5. Faithful(next.snap, events', r)
    <3>1. \A m \in Nodes :
             me.snap.nodes[m].state = "delivered" => next.snap.nodes[m].state = "delivered"
      OBVIOUS
    <3>2. Keeps(next.snap, events'[r])
      BY <1>2, <2>2, <2>4, <3>1 DEF Faithful, Keeps
    <3>3. me.snap.attempt > 1 => r > 1 /\ Keeps(next.snap, events'[r - 1])
      BY <1>2, <2>3, <3>1 DEF Faithful, Keeps
    <3> QED
      BY <3>2, <3>3 DEF Faithful
  <2>6. /\ Faithful(proj'[r], events', r)
        /\ proj'[r].version = proj[r].version /\ proj'[r].attempt = proj[r].attempt
        /\ \A x \in Runs \ {r} : proj'[x] = proj[x]
    <3>1. CASE same = {}
      <4> DEFINE nodes == [proj[r].nodes EXCEPT ![n] = rec]
                 t == [proj[r] EXCEPT !.nodes = nodes, !.state = "running"]
      <4>1. proj' = [proj EXCEPT ![r] = t]
        BY <1>1, <2>1, <3>1 DEF Snapshot, DepsInv, Typed
      <4>2. t.version = proj[r].version /\ t.attempt = proj[r].attempt /\ t.nodes = nodes
        BY <1>1 DEF Snapshot
      <4>3. \A m \in Nodes : nodes[m] = IF m = n THEN rec ELSE proj[r].nodes[m]
        BY <1>1 DEF Snapshot
      <4> HIDE DEF t, nodes
      <4>4. Faithful(t, events', r)
        <5>1. \A m \in Nodes :
                 (\E f \in events'[r] : f.node = m /\ f.type \in Deliveries)
                     => t.nodes[m].state = "delivered"
          BY <1>2, <2>2, <2>4, <4>2, <4>3 DEF Faithful, Keeps
        <5>2. proj[r].attempt > 1 => r > 1 /\ Keeps(t, events'[r - 1])
          BY <1>2, <2>3, <4>2, <4>3 DEF Faithful, Keeps
        <5> QED
          BY <4>2, <5>1, <5>2 DEF Faithful, Keeps
      <4> QED
        BY <1>1, <4>1, <4>2, <4>4 DEF DepsInv, Typed
    <3>2. CASE same # {}
      <4>1. e \in events[r] /\ proj' = proj
        BY <1>4, <2>1, <3>2 DEF same
      <4>2. events' = events
        BY <2>1, <4>1 DEF DepsInv, Typed
      <4> QED
        BY <1>2, <4>1, <4>2
    <3> QED
      BY <3>1, <3>2
  <2>7. Fit(next, proj', events')
    BY <1>2, <2>5, <2>6 DEF Fit
  <2>8. next.at = "away" \/ next.run = r
    OBVIOUS
  <2>9. \A x \in Runs \ {r} : proj'[x] = proj[x] /\ events'[x] = events[x] /\ saved'[x] = saved[x]
    BY <2>1, <2>2, <2>6
  <2>10. proj'[r].version # 0
    BY <1>1, <1>2, <2>6
  <2> QED
    BY <2>1, <2>6, <2>7, <2>8, <2>9, <2>10, ChainWork
<1> QED
  BY <1>3, <1>4

LEMMA ChainSeed ==
    ASSUME DepsInv, RestTyped, Chained, NEW p \in procs, Seed(p) PROVE Chained'
<1> DEFINE me == co[p]
           next == [me EXCEPT !.at = "load"]
<1>1. me \in Memory /\ me.at = "seed" /\ me.snap \in Snapshot
  BY DEF DepsInv, Typed, Seed, Memory
<1>2. next.at = "load" /\ next.run = me.run
  BY <1>1 DEF Memory
<1>3. Faithful(me.snap, events, me.run) /\ me.snap.version > 0
  BY <1>1 DEF Chained, Fit
<1> HIDE DEF next
<1>4. Save(p, me.snap, next) /\ run' = run
  BY DEF Seed, next
<1> QED
  BY <1>1, <1>2, <1>3, <1>4, ChainSave

\* At the beginning of a wave no node to plan is delivered.
LEMMA BeforeIsFresh ==
    ASSUME NEW me \in Memory, NEW w
    PROVE  LET next == Before(me, w)
           IN  /\ next.at \in {"plan", "end"} /\ next.run = me.run /\ next.snap = me.snap
               /\ next.at = "plan" => \A n \in next.todo : next.snap.nodes[n].state # "delivered"
<1>1. CASE w > Len(waves)
  BY <1>1 DEF Before, Memory
<1>2. CASE ~(w > Len(waves))
  BY <1>2 DEF Before, Memory, Unplanned, TerminalNodes, NodeStates
<1> QED
  BY <1>1, <1>2

LEMMA ChainLoad ==
    ASSUME DepsInv, RestTyped, Chained, NEW p \in procs, Load(p) PROVE Chained'
<1> DEFINE me == co[p]
           s == proj[me.run]
           fresh == [me EXCEPT !.snap = initialSnapshot]
           from == [me EXCEPT !.snap = s]
           done == [me EXCEPT !.at = "finish", !.snap = s]
           next == IF s.state \in TerminalPlans THEN done ELSE Before(from, 1)
<1>1. me \in Memory /\ me.at = "load" /\ s \in Snapshot /\ me.run \in Runs
  BY DEF DepsInv, Typed, Load, Memory
<1>2. Faithful(s, events, me.run) /\ (s.version = 0 => events[me.run] = {})
  BY <1>1 DEF Chained
<1>3. run' = run
  BY DEF Load
<1>4. CASE s.version = 0
  <2>1. Save(p, initialSnapshot, Before(fresh, 1))
    BY <1>1, <1>4 DEF Load
  <2>2. fresh \in Memory /\ fresh.run = me.run /\ fresh.snap = initialSnapshot
    BY <1>1, Values DEF Memory
  <2> HIDE DEF fresh
  <2>3. /\ Before(fresh, 1).at \in {"plan", "end"} /\ Before(fresh, 1).run = me.run
        /\ Before(fresh, 1).snap = initialSnapshot
        /\ Before(fresh, 1).at = "plan" =>
              \A n \in Before(fresh, 1).todo : initialSnapshot.nodes[n].state # "delivered"
    BY <2>2, BeforeIsFresh
  <2>4. /\ initialSnapshot \in Snapshot /\ initialSnapshot.version > 0
        /\ Faithful(initialSnapshot, events, me.run)
    BY <1>2, <1>4, Values DEF initialSnapshot, NoSnapshot, Faithful, Keeps
  <2> QED
    BY <1>1, <1>3, <1>4, <2>1, <2>3, <2>4, ChainSave
<1>5. CASE s.version # 0
  <2>1. co' = [co EXCEPT ![p] = next] /\ UNCHANGED <<run, proj, events, saved>>
    BY <1>1, <1>5 DEF Load
  <2>2. from \in Memory /\ from.run = me.run /\ from.snap = s
    BY <1>1 DEF Memory
  <2>3. done.at = "finish" /\ done.run = me.run /\ done.snap = s
    BY <1>1 DEF Memory
  <2> HIDE DEF from, done
  <2>4. /\ next.at \in {"plan", "end", "finish"} /\ next.run = me.run /\ next.snap = s
        /\ next.at = "plan" => \A n \in next.todo : s.nodes[n].state # "delivered"
    BY <2>2, <2>3, BeforeIsFresh
  <2> HIDE DEF next
  <2>5. s.version > 0
    BY <1>1, <1>5 DEF Snapshot
  <2>6. Fit(next, proj, events)
    BY <1>2, <2>4, <2>5 DEF Fit
  <2> QED
    BY <1>1, <2>1, <2>4, <2>6, ChainOn
<1> QED
  BY <1>4, <1>5

LEMMA ChainPlanNode ==
    ASSUME DepsInv, Chained, NEW p \in procs, NEW n \in Nodes, PlanNode(p, n) PROVE Chained'
<1> DEFINE me == co[p]
           rec(state) == [me.snap.nodes[n] EXCEPT !.state = state]
           nodes(state) == [me.snap.nodes EXCEPT ![n] = rec(state)]
           snap(state) == [me.snap EXCEPT !.nodes = nodes(state)]
           decided(state, type, note) ==
               [me EXCEPT !.at = "announce", !.snap = snap(state),
                          !.word = [node |-> n, type |-> type, note |-> note]]
<1>1. me \in Memory /\ me.at = "plan" /\ n \in me.todo /\ me.snap \in Snapshot
  BY DEF DepsInv, Typed, PlanNode, Memory
<1>2. /\ Faithful(me.snap, events, me.run) /\ me.snap.version > 0
      /\ proj[me.run].version > 0 /\ proj[me.run].attempt = me.snap.attempt
      /\ \A m \in me.todo : me.snap.nodes[m].state # "delivered"
  BY <1>1 DEF Chained, Fit
<1>3. PICK state, type, note :
         /\ Decide(p, n, state, type, note)
         /\ type = "node_started" => state = "running"
         /\ type \in Deliveries => state = "delivered"
  <2>1. PICK note :
           \/ Decide(p, n, "stalled", "node_stalled", note)
           \/ Decide(p, n, "skipped", "node_skipped", note)
           \/ Decide(p, n, "delivered", "support_completed", note)
           \/ Decide(p, n, "running", "node_started", note)
    BY DEF PlanNode
  <2>2. /\ "node_stalled" \notin Deliveries /\ "node_skipped" \notin Deliveries
        /\ "node_started" \notin Deliveries
    BY DEF Deliveries
  <2>3. CASE Decide(p, n, "stalled", "node_stalled", note)
    BY <2>2, <2>3
  <2>4. CASE Decide(p, n, "skipped", "node_skipped", note)
    BY <2>2, <2>4
  <2>5. CASE Decide(p, n, "delivered", "support_completed", note)
    BY <2>5
  <2>6. CASE Decide(p, n, "running", "node_started", note)
    BY <2>2, <2>6
  <2> QED
    BY <2>1, <2>3, <2>4, <2>5, <2>6
<1>4. co' = [co EXCEPT ![p] = decided(state, type, note)]
  BY <1>1, <1>3 DEF Decide, DepsInv, Typed
<1>5. /\ snap(state).version = me.snap.version /\ snap(state).attempt = me.snap.attempt
      /\ \A m \in Nodes : snap(state).nodes[m].state = IF m = n THEN state
                                                       ELSE me.snap.nodes[m].state
  BY <1>1 DEF Snapshot, NodeRec
<1> HIDE DEF snap
<1> DEFINE next == decided(state, type, note)
<1>6. /\ next.at = "announce" /\ next.run = me.run /\ next.snap = snap(state)
      /\ next.todo = me.todo /\ next.word.node = n /\ next.word.type = type
  BY <1>1 DEF Memory
<1> HIDE DEF decided, next
<1>7. Faithful(snap(state), events, me.run)
  <2>1. \A m \in Nodes :
           me.snap.nodes[m].state = "delivered" => snap(state).nodes[m].state = "delivered"
    BY <1>1, <1>2, <1>5
  <2> QED
    BY <1>2, <1>5, <2>1 DEF Faithful, Keeps
<1>8. \A m \in next.todo : m \in Nodes
  BY <1>1, <1>6 DEF Memory
<1>9. Fit(next, proj, events)
  BY <1>2, <1>3, <1>5, <1>6, <1>7, <1>8 DEF Fit
<1>10. UNCHANGED <<run, proj, events, saved>> /\ co' = [co EXCEPT ![p] = next]
  BY <1>4 DEF PlanNode, journal, next
<1> QED
  BY <1>1, <1>6, <1>9, <1>10, ChainOn

LEMMA ChainAnnounce ==
    ASSUME DepsInv, Chained, NEW p \in procs, Announce(p) PROVE Chained'
<1> DEFINE me == co[p]
           n == me.word.node
           rec == me.snap.nodes[n]
           started == me.word.type = "node_started"
           next == [me EXCEPT !.at = "plan", !.todo = @ \ {n}, !.word = NoWord,
                              !.job[n] = IF started THEN [state |-> "run", cost |-> 0] ELSE @]
<1>1. me \in Memory /\ me.at = "announce" /\ n \in Nodes /\ me.snap \in Snapshot
  BY DEF DepsInv, Typed, Sound, Announce, Memory
<1>2. rec \in NodeRec
  BY <1>1 DEF Snapshot
<1>3. /\ next.at = "plan" /\ next.run = me.run /\ next.snap = me.snap
      /\ next.todo = me.todo \ {n}
  BY <1>1 DEF Memory
<1> HIDE DEF next
<1>4. Emit(p, n, rec, me.word.type, me.word.note, next) /\ run' = run
  BY DEF Announce, next
<1>5. /\ me.word.type \in Deliveries => rec.state = "delivered"
      /\ \A m \in next.todo : me.snap.nodes[m].state # "delivered"
  BY <1>1, <1>3 DEF Chained, Fit
<1> HIDE DEF rec
<1>6. /\ next.snap.nodes[n].state = rec.state
      /\ me.snap.nodes[n].state = "delivered" => rec.state = "delivered"
  BY <1>3 DEF rec
<1> QED
  BY <1>1, <1>2, <1>3, <1>4, <1>5, <1>6, ChainEmit

LEMMA ChainStartWave ==
    ASSUME DepsInv, RestTyped, Chained, NEW p \in procs, StartWave(p) PROVE Chained'
<1> DEFINE me == co[p]
           s == [me.snap EXCEPT !.state = "running", !.version = @ + 1]
           job == [n \in Nodes |-> IF n \in Runnable(p) THEN Dispatched(p, n) ELSE NoJob]
           next == [me EXCEPT !.at = "run", !.snap = s, !.job = job]
<1>1. me \in Memory /\ me.at = "plan" /\ me.snap \in Snapshot
  BY DEF DepsInv, Typed, StartWave, Memory
<1>2. /\ Faithful(me.snap, events, me.run) /\ me.snap.version > 0
      /\ proj[me.run].attempt = me.snap.attempt
  BY <1>1 DEF Chained, Fit
<1>3. /\ s \in Snapshot /\ s.nodes = me.snap.nodes /\ s.attempt = me.snap.attempt
      /\ s.version > 0
  <2>1. s \in Snapshot /\ s.nodes = me.snap.nodes
    BY <1>1, NextVersion DEF PlanStates
  <2>2. s.attempt = me.snap.attempt /\ s.version > 0
    BY <1>1, <1>2 DEF Snapshot
  <2> QED
    BY <2>1, <2>2
<1> HIDE DEF s, job
<1>4. next.at = "run" /\ next.run = me.run /\ next.snap = s
  BY <1>1 DEF Memory
<1> HIDE DEF next
<1>5. Save(p, s, next) /\ run' = run
  BY DEF StartWave, s, job, next
<1>6. Faithful(s, events, me.run)
  BY <1>2, <1>3 DEF Faithful, Keeps
<1> QED
  BY <1>1, <1>2, <1>3, <1>4, <1>5, <1>6, ChainSave

\* The coordinator at work goes on with its wave, in memory only.
LEMMA ChainGoesOn ==
    ASSUME DepsInv, Chained, NEW p \in procs, co[p].at \in {"run", "release"},
           NEW next, co' = [co EXCEPT ![p] = next], next.at = "run",
           next.run = co[p].run, next.snap = co[p].snap, UNCHANGED <<run, proj, events, saved>>
    PROVE  Chained'
<1>1. Fit(next, proj, events)
  <2>1. Fit(co[p], proj, events)
    BY DEF Chained
  <2> QED
    BY <2>1 DEF Fit
<1> QED
  BY <1>1, ChainOn

LEMMA ChainChild ==
    ASSUME DepsInv, Chained, NEW p \in procs, NEW n \in Nodes,
           HeartbeatFails(p, n) \/ \E result \in Results : ChildEnds(p, n, result)
    PROVE  Chained'
<1>1. PICK job : co' = [co EXCEPT ![p] = [co[p] EXCEPT !.job = job]]
  BY DEF HeartbeatFails, ChildEnds, DepsInv, Typed, Memory
<1> DEFINE next == [co[p] EXCEPT !.job = job]
<1>2. co[p] \in Memory /\ co[p].at = "run" /\ UNCHANGED <<run, proj, events, saved>>
  BY DEF DepsInv, Typed, HeartbeatFails, ChildEnds, journal
<1>3. next.at = "run" /\ next.run = co[p].run /\ next.snap = co[p].snap
  BY <1>2 DEF Memory
<1> HIDE DEF next
<1>4. co' = [co EXCEPT ![p] = next]
  BY <1>1 DEF next
<1> QED
  BY <1>2, <1>3, <1>4, ChainGoesOn

LEMMA ChainRecord ==
    ASSUME DepsInv, Chained, NEW p \in procs, NEW n \in Nodes, Record(p, n) PROVE Chained'
<1> DEFINE me == co[p]
           rec == Verdict(n, me.job[n])
           type == IF OverGrant(n, me.job[n]) THEN "budget_exceeded" ELSE rec.state
           word == [node |-> n, type |-> type, note |-> NoNote]
           nodes == [me.snap.nodes EXCEPT ![n] = rec]
           snap == [me.snap EXCEPT !.nodes = nodes]
           next == [me EXCEPT !.at = "release", !.snap = snap, !.word = word]
<1>1. me \in Memory /\ me.at = "run" /\ me.snap.nodes[n].state = "running"
  BY DEF DepsInv, Typed, Record
<1>2. me.job[n] \in Answers
  BY <1>1 DEF Record, Active, Runnable, Memory, Working
<1>3. rec \in Answers
  BY <1>2 DEF Verdict, Answers
<1>4. type \in Deliveries => rec.state = "delivered"
  BY <1>3 DEF Answers, Deliveries
<1> HIDE DEF rec, type
<1>5. /\ snap.version = me.snap.version /\ snap.attempt = me.snap.attempt
      /\ \A m \in Nodes : snap.nodes[m] = IF m = n THEN rec ELSE me.snap.nodes[m]
  BY <1>1 DEF Memory, Snapshot
<1> HIDE DEF snap, word
<1>6. next.at = "release" /\ next.snap = snap /\ next.run = me.run
  BY <1>1 DEF Memory
<1>7. next = [me EXCEPT !.at = "release", !.snap.nodes[n] = rec, !.word = word]
  BY <1>1 DEF Memory, Snapshot, snap
<1> HIDE DEF next
<1>8. Emit(p, n, rec, type, NoNote, next) /\ run' = run
  BY <1>7 DEF Record, rec, type, word
<1>9. rec \in NodeRec
  BY <1>3, Values
<1>10. /\ next.snap.nodes[n].state = rec.state
       /\ \A m \in Nodes \ {n} : next.snap.nodes[m].state = me.snap.nodes[m].state
       /\ next.snap.attempt = me.snap.attempt /\ next.snap.version = me.snap.version
  BY <1>5, <1>6
<1> QED
  BY <1>1, <1>4, <1>6, <1>8, <1>9, <1>10, ChainEmit

LEMMA ChainRelease ==
    ASSUME DepsInv, Chained, NEW p \in procs, Release(p) PROVE Chained'
<1> DEFINE next == [co[p] EXCEPT !.at = "run", !.word = NoWord]
<1>1. co[p] \in Memory /\ co[p].at = "release" /\ UNCHANGED <<run, proj, events, saved>>
  BY DEF DepsInv, Typed, Release, journal
<1>2. next.at = "run" /\ next.run = co[p].run /\ next.snap = co[p].snap
  BY <1>1 DEF Memory
<1>3. co' = [co EXCEPT ![p] = next]
  BY <1>1 DEF Release, DepsInv, Typed
<1> HIDE DEF next
<1> QED
  BY <1>1, <1>2, <1>3, ChainGoesOn

LEMMA ChainEndWave ==
    ASSUME DepsInv, RestTyped, Chained, NEW p \in procs, EndWave(p) PROVE Chained'
<1> DEFINE me == co[p]
           s == [me.snap EXCEPT !.version = @ + 1]
           from == [me EXCEPT !.snap = s]
           next == Before(from, me.wave + 1)
<1>1. me \in Memory /\ me.at = "run" /\ me.snap \in Snapshot
  BY DEF DepsInv, Typed, EndWave, Memory
<1>2. /\ Faithful(me.snap, events, me.run) /\ me.snap.version > 0
      /\ proj[me.run].attempt = me.snap.attempt
  BY <1>1 DEF Chained, Fit
<1>3. /\ s \in Snapshot /\ s.nodes = me.snap.nodes /\ s.attempt = me.snap.attempt
      /\ s.version > 0
  BY <1>1, <1>2 DEF Snapshot
<1> HIDE DEF s
<1>4. from \in Memory /\ from.run = me.run /\ from.snap = s
  BY <1>1, <1>3 DEF Memory
<1> HIDE DEF from
<1>5. /\ next.at \in {"plan", "end"} /\ next.run = me.run /\ next.snap = s
      /\ next.at = "plan" => \A n \in next.todo : s.nodes[n].state # "delivered"
  BY <1>4, BeforeIsFresh
<1>6. Save(p, s, next) /\ run' = run
  BY DEF EndWave, s, from
<1> HIDE DEF next
<1>7. Faithful(s, events, me.run)
  BY <1>2, <1>3 DEF Faithful, Keeps
<1> QED
  BY <1>1, <1>2, <1>3, <1>5, <1>6, <1>7, ChainSave

LEMMA ChainEndPlan ==
    ASSUME DepsInv, RestTyped, Chained, NEW p \in procs, EndPlan(p) PROVE Chained'
<1> DEFINE me == co[p]
           s == [me.snap EXCEPT !.state = terminalState(me.snap.nodes), !.version = @ + 1]
           done == [me EXCEPT !.at = "finish", !.snap = s]
<1>1. me \in Memory /\ me.at = "end" /\ me.snap \in Snapshot
  BY DEF DepsInv, Typed, EndPlan, Memory
<1>2. /\ Faithful(me.snap, events, me.run) /\ me.snap.version > 0
      /\ proj[me.run].attempt = me.snap.attempt
  BY <1>1 DEF Chained, Fit
<1>3. /\ s \in Snapshot /\ s.nodes = me.snap.nodes /\ s.attempt = me.snap.attempt
      /\ s.version > 0
  <2>1. terminalState(me.snap.nodes) \in PlanStates
    BY DEF terminalState, PlanStates
  <2>2. s \in Snapshot /\ s.nodes = me.snap.nodes
    BY <1>1, <2>1, NextVersion
  <2>3. s.attempt = me.snap.attempt /\ s.version > 0
    BY <1>1, <1>2 DEF Snapshot
  <2> QED
    BY <2>2, <2>3
<1>4. PICK next \in {done, Away} : Save(p, s, next) /\ run' = run
  BY DEF EndPlan
<1> HIDE DEF s
<1>5. done.at = "finish" /\ done.run = me.run /\ done.snap = s
  BY <1>1 DEF Memory
<1> HIDE DEF done
<1>6. Faithful(s, events, me.run)
  BY <1>2, <1>3 DEF Faithful, Keeps
<1> QED
  BY <1>1, <1>2, <1>3, <1>4, <1>5, <1>6, ChainSave

LEMMA ChainFinish ==
    ASSUME DepsInv, Chained, NEW p \in procs, Finish(p) PROVE Chained'
<1>1. /\ co[p].at = "finish" /\ co[p].snap.state \in TerminalPlans
      /\ co' = [co EXCEPT ![p] = Away] /\ UNCHANGED <<proj, events, saved>>
  BY DEF Finish, DepsInv, Sound
<1>2. \A x \in Runs : run'[x] = "none" <=> run[x] = "none"
  BY <1>1 DEF Finish, DepsInv, Typed, TerminalPlans
<1> QED
  BY <1>1, <1>2, ChainAway

LEMMA LatestGrows ==
    ASSUME Typed, \A r \in Runs : run[r] = "none" <=> r > Latest, Latest + 1 \in Runs,
           Latest \in Nat, run' = [run EXCEPT ![Latest + 1] = "open"]
    PROVE  /\ Latest' = Latest + 1
           /\ \A r \in Runs : run'[r] = "none" <=> r > Latest'
<1> DEFINE known == {r \in Runs : run[r] # "none"}
<1>1. IsFiniteSet(known) /\ Latest + 1 \notin known
  <2>1. IsFiniteSet(Runs)
    BY MultiTargetAssumption, FS_Interval DEF Runs
  <2> QED
    BY <2>1, FS_Subset
<1>2. {r \in Runs : run'[r] # "none"} = known \cup {Latest + 1}
  BY DEF Typed
<1>3. Latest' = Latest + 1
  BY <1>1, <1>2, FS_AddElement DEF Latest
<1>4. \A r \in Runs : r \in Int
  BY DEF Runs
<1> QED
  BY <1>3, <1>4 DEF Typed

\* A command starts while nobody is at work.
LEMMA ChainBegins ==
    ASSUME DepsInv, Chained, NEW p \in procs, \A q \in procs : co[q].at = "away",
           NEW next, co' = [co EXCEPT ![p] = next], next.run = Latest',
           Latest' >= Latest, Latest' \in Nat, \A r \in Runs : run'[r] = "none" <=> r > Latest',
           UNCHANGED <<proj, events, saved>>, Fit(next, proj, events)
    PROVE  Chained'
<1>1. co'[p] = next /\ \A q \in procs \ {p} : co'[q] = co[q]
  BY DEF DepsInv, Typed
<1>2. \A q \in procs : Fit(co'[q], proj', events')
  BY <1>1 DEF Chained
<1>3. \A r \in Runs : r > Latest' => r > Latest
  BY LatestIsRun, Values, MultiTargetAssumption DEF Runs
<1>4. \A r \in Runs : Faithful(proj'[r], events', r)
  BY DEF Chained
<1> QED
  BY <1>1, <1>2, <1>3, <1>4 DEF Chained

LEMMA ChainInvoke ==
    ASSUME DepsInv, Chained, NEW p \in procs, NEW o \in Owners, Invoke(p, o),
           \A q \in procs : co[q].at = "away"
    PROVE  Chained'
<1> DEFINE r == IF Latest = 0 THEN 1 ELSE Latest
           next == [Away EXCEPT !.at = "load", !.owner = o, !.run = r]
<1>1. Latest \in 0..MaxRuns /\ \A x \in Runs : run[x] = "none" <=> x > Latest
  BY LatestIsRun DEF Chained
<1>2. /\ co' = [co EXCEPT ![p] = next] /\ run' = [run EXCEPT ![r] = "open"]
      /\ UNCHANGED <<proj, events, saved>>
  BY DEF Invoke
<1>3. next.at = "load" /\ next.run = r
  BY DEF Away
<1>4. Fit(next, proj, events)
  BY <1>3 DEF Fit
<1> HIDE DEF next
<1>5. CASE Latest = 0
  <2>1. Latest + 1 \in Runs /\ Latest \in Nat /\ r = Latest + 1
    BY <1>5, Values
  <2>2. Latest' = Latest + 1 /\ \A x \in Runs : run'[x] = "none" <=> x > Latest'
    BY <1>1, <1>2, <2>1, LatestGrows DEF DepsInv
  <2>3. next.run = Latest' /\ Latest' >= Latest /\ Latest' \in Nat
    BY <1>3, <2>1, <2>2
  <2> QED
    BY <1>2, <1>4, <2>2, <2>3, ChainBegins
<1>6. CASE Latest # 0
  <2>1. r = Latest /\ Latest \in Nat /\ run[r] = "open"
    BY <1>1, <1>6, MultiTargetAssumption DEF Invoke
  <2>2. run' = run
    BY <1>2, <2>1 DEF DepsInv, Typed
  <2>3. Latest' = Latest
    BY <2>2 DEF Latest
  <2>4. next.run = Latest' /\ Latest' >= Latest /\ Latest' \in Nat
    BY <1>3, <2>1, <2>3
  <2>5. \A x \in Runs : run'[x] = "none" <=> x > Latest'
    BY <1>1, <2>2, <2>3
  <2> QED
    BY <1>2, <1>4, <2>4, <2>5, ChainBegins
<1> QED
  BY <1>5, <1>6

LEMMA ChainRetry ==
    ASSUME DepsInv, Chained, NEW p \in procs, NEW o \in Owners, Retry(p, o),
           \A q \in procs : co[q].at = "away"
    PROVE  Chained'
<1> DEFINE prev == proj[Latest]
           nodes == [n \in Nodes |-> Reopened(prev.nodes[n])]
           s == [state |-> "ready", version |-> prev.version + 1,
                 attempt |-> prev.attempt + 1, nodes |-> nodes]
           next == [Away EXCEPT !.at = "seed", !.owner = o, !.run = Latest + 1, !.snap = s]
<1>1. /\ Latest \in Runs /\ Latest + 1 \in Runs /\ Latest \in Nat /\ Latest > 0
      /\ \A x \in Runs : run[x] = "none" <=> x > Latest
  BY MultiTargetAssumption DEF Retry, Runs, Chained
<1>2. /\ co' = [co EXCEPT ![p] = next]
      /\ run' = [run EXCEPT ![Latest + 1] = "open"]
      /\ UNCHANGED <<proj, events, saved>>
  BY DEF Retry
<1>3. prev \in Snapshot /\ Faithful(prev, events, Latest) /\ events[Latest + 1] = {}
  BY <1>1 DEF DepsInv, Typed, Chained
<1>4. \A n \in Nodes : prev.nodes[n].state = "delivered" => nodes[n].state = "delivered"
  BY DEF Reopened
<1> HIDE DEF nodes
<1>5. s.version > 0 /\ s.nodes = nodes
  BY <1>3 DEF Snapshot
<1> HIDE DEF s
<1>6. next.at = "seed" /\ next.run = Latest + 1 /\ next.snap = s
  BY DEF Away
<1> HIDE DEF next
<1>7. Faithful(s, events, Latest + 1)
  BY <1>1, <1>3, <1>4, <1>5 DEF Faithful, Keeps
<1>8. Fit(next, proj, events)
  BY <1>5, <1>6, <1>7 DEF Fit
<1>9. Latest' = Latest + 1 /\ \A x \in Runs : run'[x] = "none" <=> x > Latest'
  BY <1>1, <1>2, LatestGrows DEF DepsInv
<1>10. next.run = Latest' /\ Latest' >= Latest /\ Latest' \in Nat
  BY <1>1, <1>6, <1>9
<1> QED
  BY <1>2, <1>8, <1>9, <1>10, ChainBegins

LEMMA ChainStep == DepsInv /\ RestTyped /\ ChainInv /\ [Next]_vars => ChainInv'
<1> SUFFICES ASSUME DepsInv, RestTyped, ChainInv, [Next]_vars, overlaps' = 0 PROVE Chained'
  BY DEF ChainInv
<1>1. ASSUME overlaps' = overlaps PROVE Chained
  BY <1>1 DEF ChainInv
<1>2. ASSUME NEW p \in procs, Step(p) PROVE Chained'
  <2>1. Chained
    BY <1>1, <1>2, StepRest
  <2> QED
    BY <1>2, <2>1, ChainSeed, ChainLoad, ChainPlanNode, ChainAnnounce, ChainStartWave, ChainChild,
       ChainRecord, ChainRelease, ChainEndWave, ChainEndPlan, ChainFinish DEF Step
<1>3. ASSUME NEW p \in procs, Killed(p) PROVE Chained'
  <2>1. Chained /\ co[p].at # "away" /\ co' = [co EXCEPT ![p] = Away]
    BY <1>1, <1>3 DEF Killed
  <2>2. UNCHANGED <<run, proj, events, saved>>
    BY <1>3 DEF Killed, journal
  <2> QED
    BY <2>1, <2>2, ChainAway
<1>4. ASSUME NEW p \in procs, NEW o \in Owners, Invoke(p, o) \/ Retry(p, o) PROVE Chained'
  <2>1. overlaps \in Nat
    BY MultiTargetAssumption DEF RestTyped
  <2>2. overlaps' = overlaps /\ \A q \in procs : co[q].at = "away"
    BY <1>4, <2>1 DEF Invoke, Retry, Invocation
  <2> QED
    BY <1>1, <1>4, <2>2, ChainInvoke, ChainRetry
<1>5. ASSUME NEW r \in Runs, NEW n \in Nodes, LeaseExpires(r, n) PROVE Chained'
  <2>1. Chained /\ UNCHANGED <<run, proj, events, saved, co>>
    BY <1>1, <1>5 DEF LeaseExpires, journal
  <2> QED
    BY <2>1 DEF Chained, Latest
<1>6. CASE UNCHANGED vars
  <2>1. Chained /\ UNCHANGED <<run, proj, events, saved, co>>
    BY <1>1, <1>6 DEF vars, journal
  <2> QED
    BY <2>1 DEF Chained, Latest
<1> QED
  BY <1>2, <1>3, <1>4, <1>5, <1>6 DEF Next

\* Only the announcement of node n makes its child run.
LEMMA ActiveByAnnounce ==
    ASSUME DepsInv, FenceInv, [Next]_vars, NEW p \in procs, NEW n \in Nodes,
           ~Active(p, n), Active(p, n)'
    PROVE  Announce(p) /\ co[p].word.type = "node_started" /\ n = co[p].word.node
<1> DEFINE me == co[p]
           Busy(j) == j.state \in {"run", "abort"}
<1>1. me \in Memory /\ Quiet(me) /\ ~Busy(me.job[n]) /\ Busy(co'[p].job[n])
  BY DEF DepsInv, Typed, FenceInv, Active
<1>2. co'[p] # me /\ co'[p] # Away
  BY <1>1 DEF Away, NoJob
<1>3. ASSUME NEW q \in procs, q # p PROVE ~Step(q) /\ ~Killed(q)
  <2>1. \A next : co' = [co EXCEPT ![q] = next] => co'[p] = me
    BY <1>3 DEF DepsInv, Typed
  <2>2. ~(Seed(q) \/ Load(q) \/ Announce(q) \/ StartWave(q) \/ EndWave(q) \/ EndPlan(q))
    BY <1>2, <2>1 DEF Seed, Load, Announce, StartWave, EndWave, EndPlan, Save, Emit, Throws
  <2>3. ~(Release(q) \/ Finish(q) \/ Killed(q))
    BY <1>2, <1>3 DEF Release, Finish, Killed, DepsInv, Typed
  <2>4. ASSUME NEW m \in Nodes PROVE ~PlanNode(q, m)
    BY <1>2, <1>3 DEF PlanNode, Decide, DepsInv, Typed
  <2>5. ASSUME NEW m \in Nodes PROVE ~Record(q, m)
    BY <1>2, <2>1 DEF Record, Emit, Throws
  <2>6. ASSUME NEW m \in Nodes PROVE ~HeartbeatFails(q, m)
    BY <1>2, <1>3 DEF HeartbeatFails, DepsInv, Typed
  <2>7. ASSUME NEW m \in Nodes, NEW result \in Results PROVE ~ChildEnds(q, m, result)
    BY <1>2, <1>3 DEF ChildEnds, DepsInv, Typed
  <2> QED
    BY <2>2, <2>3, <2>4, <2>5, <2>6, <2>7 DEF Step
<1>4. ASSUME NEW q \in procs, NEW o \in Owners PROVE ~Invoke(q, o) /\ ~Retry(q, o)
  <2>1. ASSUME NEW next, co' = [co EXCEPT ![q] = next], next.job = Away.job PROVE FALSE
    <3>1. co'[p] = next \/ co'[p] = me
      BY <2>1 DEF DepsInv, Typed
    <3> QED
      BY <1>1, <2>1, <3>1 DEF Away, NoJob
  <2>2. ~Invoke(q, o)
    <3> DEFINE next == [Away EXCEPT !.at = "load", !.owner = o,
                                    !.run = IF Latest = 0 THEN 1 ELSE Latest]
    <3>1. Invoke(q, o) => co' = [co EXCEPT ![q] = next]
      BY DEF Invoke
    <3>2. next.job = Away.job
      BY DEF Away
    <3> HIDE DEF next
    <3> QED
      BY <2>1, <3>1, <3>2
  <2>3. ~Retry(q, o)
    <3> DEFINE s == [state |-> "ready", version |-> proj[Latest].version + 1,
                     attempt |-> proj[Latest].attempt + 1,
                     nodes |-> [m \in Nodes |-> Reopened(proj[Latest].nodes[m])]]
               next == [Away EXCEPT !.at = "seed", !.owner = o, !.run = Latest + 1, !.snap = s]
    <3>1. Retry(q, o) => co' = [co EXCEPT ![q] = next]
      BY DEF Retry
    <3>2. next.job = Away.job
      BY DEF Away
    <3> HIDE DEF next
    <3> QED
      BY <2>1, <3>1, <3>2
  <2> QED
    BY <2>2, <2>3
\* A step of p leaves the jobs alone, clears them all, or changes one.
<1>5. Step(p) => Announce(p)
  <2>1. ASSUME NEW next, co' = [co EXCEPT ![p] = next] PROVE co'[p] = next
    BY <2>1 DEF DepsInv, Typed
  <2>2. ASSUME NEW next, co' = [co EXCEPT ![p] = next] \/ co' = [co EXCEPT ![p] = Away],
               next.job[n] = me.job[n] \/ next.job[n] = NoJob
        PROVE  FALSE
    BY <1>1, <1>2, <2>1, <2>2 DEF NoJob
  <2>3. ASSUME NEW from \in Memory, NEW w, from.job = me.job
        PROVE  Before(from, w).job[n] = me.job[n] \/ Before(from, w).job[n] = NoJob
    BY <2>3 DEF Before, Memory
  <2>4. ~Seed(p)
    <3> DEFINE next == [me EXCEPT !.at = "load"]
    <3>1. next.job = me.job
      BY <1>1 DEF Memory
    <3> HIDE DEF next
    <3>2. Seed(p) => co' = [co EXCEPT ![p] = next] \/ co' = [co EXCEPT ![p] = Away]
      BY DEF Seed, Save, Throws, next
    <3> QED
      BY <2>2, <3>1, <3>2
  <2>5. ~Load(p)
    <3> DEFINE s == proj[me.run]
               fresh == [me EXCEPT !.snap = initialSnapshot]
               from == [me EXCEPT !.snap = s]
               done == [me EXCEPT !.at = "finish", !.snap = s]
    <3>1. s \in Snapshot
      BY DEF DepsInv, Typed, Memory
    <3> HIDE DEF s
    <3>2. /\ fresh \in Memory /\ fresh.job = me.job /\ from \in Memory /\ from.job = me.job
          /\ done.job = me.job
      BY <1>1, <3>1, Values DEF Memory
    <3> HIDE DEF fresh, from, done
    <3>3. Load(p) => \E next \in {Before(fresh, 1), Before(from, 1), done} :
                        co' = [co EXCEPT ![p] = next] \/ co' = [co EXCEPT ![p] = Away]
      BY DEF Load, Save, Throws, s, fresh, from, done
    <3> QED
      BY <2>2, <2>3, <3>2, <3>3
  <2>6. ASSUME NEW m \in Nodes PROVE ~PlanNode(p, m)
    <3> SUFFICES ASSUME PlanNode(p, m) PROVE FALSE
      OBVIOUS
    <3>1. PICK state, type, note : Decide(p, m, state, type, note)
      BY DEF PlanNode
    <3> DEFINE next == [me EXCEPT !.at = "announce", !.snap.nodes[m].state = state,
                                  !.word = [node |-> m, type |-> type, note |-> note]]
    <3>2. co' = [co EXCEPT ![p] = next]
      BY <3>1 DEF Decide, DepsInv, Typed
    <3>3. next.job = me.job
      BY <1>1 DEF Memory
    <3> HIDE DEF next
    <3> QED
      BY <2>2, <3>2, <3>3
  <2>7. ~StartWave(p)
    <3> DEFINE s == [me.snap EXCEPT !.state = "running", !.version = @ + 1]
               job == [m \in Nodes |-> IF m \in Runnable(p) THEN Dispatched(p, m) ELSE NoJob]
               next == [me EXCEPT !.at = "run", !.snap = s, !.job = job]
    <3>1. me.at = "plan" \/ ~StartWave(p)
      BY DEF StartWave
    <3>2. me.at = "plan" => job[n] = NoJob
      BY <1>1 DEF Quiet, Beginning, Runnable, Memory, Working, Answers
    <3>3. next.job = job
      BY <1>1 DEF Memory
    <3> HIDE DEF job, s, next
    <3>4. StartWave(p) => co' = [co EXCEPT ![p] = next] \/ co' = [co EXCEPT ![p] = Away]
      BY DEF StartWave, Save, Throws, s, job, next
    <3> QED
      BY <2>2, <3>1, <3>2, <3>3, <3>4
  <2>8. ASSUME NEW m \in Nodes PROVE ~HeartbeatFails(p, m)
    <3>1. HeartbeatFails(p, m) => m # n /\ co'[p].job[n] = me.job[n]
      BY <1>1 DEF HeartbeatFails, DepsInv, Typed, Memory
    <3> QED
      BY <1>1, <3>1
  <2>9. ASSUME NEW m \in Nodes, NEW result \in Results PROVE ~ChildEnds(p, m, result)
    <3>1. ChildEnds(p, m, result) => m # n /\ co'[p].job[n] = me.job[n]
      BY <1>1 DEF ChildEnds, Active, DepsInv, Typed, Memory
    <3> QED
      BY <1>1, <3>1
  <2>10. ASSUME NEW m \in Nodes PROVE ~Record(p, m)
    <3> DEFINE rec == Verdict(m, me.job[m])
               type == IF OverGrant(m, me.job[m]) THEN "budget_exceeded" ELSE rec.state
               word == [node |-> m, type |-> type, note |-> NoNote]
               next == [me EXCEPT !.at = "release", !.snap.nodes[m] = rec, !.word = word]
    <3>1. next.job = me.job
      BY <1>1 DEF Memory
    <3> HIDE DEF rec, word, next
    <3>2. Record(p, m) => co' = [co EXCEPT ![p] = next] \/ co' = [co EXCEPT ![p] = Away]
      BY DEF Record, Emit, Throws, rec, word, next
    <3> QED
      BY <2>2, <3>1, <3>2
  <2>11. ~Release(p)
    <3>1. Release(p) => co'[p].job = me.job
      BY <1>1 DEF Release, DepsInv, Typed, Memory
    <3> QED
      BY <1>1, <3>1
  <2>12. ~EndWave(p)
    <3> DEFINE s == [me.snap EXCEPT !.version = @ + 1]
               from == [me EXCEPT !.snap = s]
    <3>1. s \in Snapshot
      BY <1>1 DEF Memory, Snapshot
    <3> HIDE DEF s
    <3>2. from \in Memory /\ from.job = me.job
      BY <1>1, <3>1 DEF Memory
    <3> HIDE DEF from
    <3>3. EndWave(p) => \/ co' = [co EXCEPT ![p] = Before(from, me.wave + 1)]
                        \/ co' = [co EXCEPT ![p] = Away]
      BY DEF EndWave, Save, Throws, s, from
    <3> QED
      BY <2>2, <2>3, <3>2, <3>3
  <2>13. ~EndPlan(p)
    <3> DEFINE s == [me.snap EXCEPT !.state = terminalState(me.snap.nodes), !.version = @ + 1]
               done == [me EXCEPT !.at = "finish", !.snap = s]
    <3>1. done.job = me.job
      BY <1>1 DEF Memory
    <3> HIDE DEF s, done
    <3>2. EndPlan(p) => co' = [co EXCEPT ![p] = done] \/ co' = [co EXCEPT ![p] = Away]
      BY DEF EndPlan, Save, Throws, s, done
    <3> QED
      BY <2>2, <3>1, <3>2
  <2>14. ~Finish(p)
    BY <1>2, <2>1 DEF Finish
  <2> QED
    BY <2>4, <2>5, <2>6, <2>7, <2>8, <2>9, <2>10, <2>11, <2>12, <2>13, <2>14 DEF Step
<1>6. Announce(p)
  <2>1. ~Killed(p)
    BY <1>2 DEF Killed, DepsInv, Typed
  <2>2. ~(\E r \in Runs, m \in Nodes : LeaseExpires(r, m)) /\ ~(UNCHANGED vars)
    BY <1>2 DEF LeaseExpires, vars
  <2> QED
    BY <1>3, <1>4, <1>5, <2>1, <2>2 DEF Next
<1>7. me.word.type = "node_started" /\ n = me.word.node
  <2> DEFINE m == me.word.node
             started == me.word.type = "node_started"
             next == [me EXCEPT !.at = "plan", !.todo = @ \ {m}, !.word = NoWord,
                                !.job[m] = IF started THEN [state |-> "run", cost |-> 0] ELSE @]
  <2>1. n # m \/ ~started => next.job[n] = me.job[n]
    BY <1>1 DEF Memory
  <2> HIDE DEF next
  <2>2. co' = [co EXCEPT ![p] = next] \/ co' = [co EXCEPT ![p] = Away]
    BY <1>6 DEF Announce, Emit, Throws, next
  <2>3. co'[p] = next \/ co'[p] = Away
    BY <2>2 DEF DepsInv, Typed
  <2> QED
    BY <1>1, <1>2, <2>1, <2>3
<1> QED
  BY <1>6, <1>7

(* As long as no two commands overlap, no kill, resumption or retry makes a *)
(* coordinator start a node that its Run, or the Run it retries, has        *)
(* journaled as delivered.                                                  *)
THEOREM NeverRunAgain == Spec => NeverAgain
<1>1. DepsInv /\ FenceInv /\ ChainInv /\ [Next]_vars =>
         \A p \in procs, n \in Nodes :
            LET r == co[p].run
                kept == {r} \cup IF co[p].snap.attempt > 1 THEN {r - 1} ELSE {}
            IN  overlaps = 0 /\ ~Active(p, n) /\ Active(p, n)' =>
                    \A k \in kept : \A e \in events[k] :
                        ~(e.node = n /\ e.type \in {"delivered", "support_completed"})
  <2> SUFFICES ASSUME DepsInv, FenceInv, ChainInv, [Next]_vars, NEW p \in procs, NEW n \in Nodes,
                      overlaps = 0, ~Active(p, n), Active(p, n)',
                      NEW k \in {co[p].run} \cup
                                (IF co[p].snap.attempt > 1 THEN {co[p].run - 1} ELSE {}),
                      NEW e \in events[k]
               PROVE  ~(e.node = n /\ e.type \in {"delivered", "support_completed"})
    OBVIOUS
  <2>1. co[p].at = "announce" /\ co[p].word.type = "node_started" /\ n = co[p].word.node
    BY ActiveByAnnounce DEF Announce
  <2>2. Fit(co[p], proj, events)
    BY DEF ChainInv, Chained
  <2>3. co[p].snap.nodes[n].state = "running" /\ Faithful(co[p].snap, events, co[p].run)
    BY <2>1, <2>2 DEF Fit
  <2> QED
    BY <2>3 DEF Faithful, Keeps, Deliveries
<1> QED
  BY <1>1, DepsInit, DepsStep, RestInit, RestStep, FenceInit, FenceStep, ChainInit, ChainStep, PTL
     DEF Spec, NeverAgain

-----------------------------------------------------------------------------
(* Costs                                                                    *)

\* A Gauntlet node that has not failed costs at most its grant.
Afforded(nodes) ==
    \A n \in plan.gauntlet : nodes[n].state = "failed" \/ nodes[n].cost <= grants[n]

\* A failed node is not planned in the wave.
Replannable(c) ==
    \A n \in c.todo : c.at = "plan" \/ (c.at = "announce" /\ n # c.word.node) =>
        c.snap.nodes[n].state # "failed"

(* What the journals of the Runs, and each coordinator's snapshot, say a   *)
(* node has cost.                                                          *)
CapInv ==
    /\ grants = Grants(plan)
    /\ \A r \in Runs : Afforded(proj[r].nodes)
    /\ \A p \in procs : Afforded(co[p].snap.nodes) /\ Replannable(co[p])

LEMMA GrantValues ==
    ASSUME plan \in Plans, grants = Grants(plan)
    PROVE  /\ GrantsAreExact(plan, grants)
           /\ plan.gauntlet \subseteq Nodes /\ IsFiniteSet(plan.gauntlet) /\ plan.cap \in Nat
           /\ \A n \in plan.gauntlet : n \in Nodes /\ grants[n] \in Nat
<1>1. Reservable(plan) /\ IsFiniteSet(Nodes) /\ Nodes \subseteq Int
  BY MultiTargetAssumption
<1>2. GrantsAreExact(plan, grants)
  BY <1>1, GrantsExact
<1>3. plan.gauntlet \subseteq Nodes /\ plan.cap \in Nat
  BY <1>1 DEF Reservable
<1>4. IsFiniteSet(plan.gauntlet)
  BY <1>1, <1>3, FS_Subset
<1>5. ASSUME NEW n \in plan.gauntlet PROVE grants[n] \in Nat
  <2>1. n \in Nodes
    BY <1>3
  <2>2. CASE Rejected(plan)
    BY <1>2, <2>1, <2>2 DEF GrantsAreExact
  <2>3. CASE ~Rejected(plan)
    <3>1. grants[n] \in plan.minimum[n]..plan.requested[n]
      BY <1>2, <2>3 DEF GrantsAreExact
    <3>2. plan.minimum[n] \in Nat /\ plan.requested[n] \in Int
      BY <1>1, <2>1 DEF Reservable
    <3> QED
      BY <3>1, <3>2
  <2> QED
    BY <2>2, <2>3
<1> QED
  BY <1>2, <1>3, <1>4, <1>5

\* Together the grants stay within the cap.
LEMMA GrantsWithinCap ==
    ASSUME plan \in Plans, grants = Grants(plan)
    PROVE  Total(grants, plan.gauntlet) <= plan.cap
<1>1. /\ GrantsAreExact(plan, grants) /\ plan.cap \in Nat
      /\ plan.gauntlet \subseteq Nodes /\ IsFiniteSet(plan.gauntlet)
  BY GrantValues
<1>2. CASE Rejected(plan)
  <2>1. \A n \in plan.gauntlet : grants[n] = 0
    BY <1>1, <1>2 DEF GrantsAreExact
  <2> QED
    BY <1>1, <2>1, TotalZero
<1>3. CASE ~Rejected(plan)
  <2> DEFINE asked == Total(plan.requested, plan.gauntlet)
  <2>1. Total(grants, plan.gauntlet) = Least(plan.cap, asked)
    BY <1>1, <1>3 DEF GrantsAreExact
  <2>2. asked \in Nat
    <3>1. ASSUME NEW n \in plan.gauntlet PROVE plan.requested[n] \in Nat
      <4>1. /\ plan.minimum[n] \in Nat /\ plan.requested[n] \in Int
            /\ ~(plan.requested[n] < plan.minimum[n])
        BY <1>1, <1>3, MultiTargetAssumption DEF Reservable, Rejected
      <4> QED
        BY <4>1
    <3> QED
      BY <1>1, <3>1, TotalType DEF Amounts
  <2> HIDE DEF asked
  <2> QED
    BY <1>1, <2>1, <2>2 DEF Least
<1> QED
  BY <1>2, <1>3

LEMMA CapInit == DepsInv /\ Init => CapInv
<1> SUFFICES ASSUME DepsInv, Init PROVE CapInv
  OBVIOUS
<1>1. grants = Grants(plan) /\ plan \in Plans
  BY DEF Init
<1>2. \A n \in plan.gauntlet : n \in Nodes /\ grants[n] \in Nat
  BY <1>1, GrantValues
<1>3. Afforded(NoSnapshot.nodes)
  BY <1>2 DEF Afforded, NoSnapshot, Pending
<1>4. Away.snap = NoSnapshot /\ Replannable(Away)
  BY DEF Away, Replannable
<1> QED
  BY <1>1, <1>3, <1>4 DEF Init, CapInv

\* A step that changes p's memory and no journal.
LEMMA CapMemory ==
    ASSUME DepsInv, CapInv, NEW p \in procs, NEW next,
           Afforded(next.snap.nodes), Replannable(next),
           co' = [co EXCEPT ![p] = next], UNCHANGED <<compiled, proj>>
    PROVE  CapInv'
<1>1. \A q \in procs : co'[q] = IF q = p THEN next ELSE co[q]
  BY DEF DepsInv, Typed
<1>2. UNCHANGED <<plan, grants, proj>>
  BY DEF compiled
<1> QED
  BY <1>1, <1>2 DEF CapInv, Afforded, Replannable

LEMMA AwayIsAfforded ==
    ASSUME DepsInv, CapInv
    PROVE  Afforded(Away.snap.nodes) /\ Replannable(Away) /\ Afforded(initialSnapshot.nodes)
<1>1. \A n \in plan.gauntlet : n \in Nodes /\ grants[n] \in Nat
  BY GrantValues DEF DepsInv, Typed, CapInv
<1>2. Afforded(NoSnapshot.nodes)
  BY <1>1 DEF Afforded, NoSnapshot, Pending
<1> QED
  BY <1>2 DEF Away, Replannable, initialSnapshot, NoSnapshot

LEMMA CapSave ==
    ASSUME DepsInv, CapInv, NEW p \in procs, NEW s, Afforded(s.nodes),
           NEW next, Afforded(next.snap.nodes), Replannable(next), Save(p, s, next),
           UNCHANGED compiled
    PROVE  CapInv'
<1>1. \A q \in procs : co'[q] = co[q] \/ co'[q] = next \/ co'[q] = Away
  BY DEF Save, Throws, DepsInv, Typed
<1>2. \A r \in Runs : proj'[r] = proj[r] \/ proj'[r] = s
  BY DEF Save, Throws, DepsInv, Typed
<1>3. UNCHANGED <<plan, grants>>
  BY DEF compiled
<1>4. Afforded(Away.snap.nodes) /\ Replannable(Away)
  BY AwayIsAfforded
<1> QED
  BY <1>1, <1>2, <1>3, <1>4 DEF CapInv, Afforded, Replannable

LEMMA CapEmit ==
    ASSUME DepsInv, CapInv, NEW p \in procs, NEW n \in Nodes, NEW rec,
           n \in plan.gauntlet => rec.state = "failed" \/ rec.cost <= grants[n],
           NEW type, NEW note, NEW next, Afforded(next.snap.nodes), Replannable(next),
           Emit(p, n, rec, type, note, next), UNCHANGED compiled
    PROVE  CapInv'
<1>1. \A q \in procs : co'[q] = co[q] \/ co'[q] = next \/ co'[q] = Away
  BY DEF Emit, Throws, DepsInv, Typed
<1>2. ASSUME NEW r \in Runs
      PROVE  \A m \in Nodes : proj'[r].nodes[m] = proj[r].nodes[m]
                              \/ (m = n /\ proj'[r].nodes[m] = rec)
  <2> DEFINE s == proj[co[p].run]
             t == [s EXCEPT !.nodes = [s.nodes EXCEPT ![n] = rec], !.state = "running"]
  <2>1. /\ proj[r] \in Snapshot /\ s \in Snapshot /\ co[p].run \in Runs
        /\ proj \in [Runs -> Snapshot]
    BY DEF DepsInv, Typed, Memory
  <2>2. \A m \in Nodes : t.nodes[m] = IF m = n THEN rec ELSE s.nodes[m]
    BY <2>1 DEF Snapshot
  <2>3. \/ proj' = proj
        \/ proj' = [proj EXCEPT ![co[p].run].nodes[n] = rec, ![co[p].run].state = "running"]
    BY DEF Emit, Throws
  <2>4. proj' = proj \/ proj' = [proj EXCEPT ![co[p].run] = t]
    BY <2>1, <2>3 DEF Snapshot
  <2> HIDE DEF t
  <2> QED
    BY <2>1, <2>2, <2>4
<1>3. UNCHANGED <<plan, grants>>
  BY DEF compiled
<1>4. Afforded(Away.snap.nodes) /\ Replannable(Away)
  BY AwayIsAfforded
<1>5. plan.gauntlet \subseteq Nodes
  BY GrantValues DEF DepsInv, Typed, CapInv
<1> QED
  BY <1>1, <1>2, <1>3, <1>4, <1>5 DEF CapInv, Afforded, Replannable

LEMMA BeforeIsAfforded ==
    ASSUME NEW me \in Memory, NEW w \in Nat, Afforded(me.snap.nodes)
    PROVE  Afforded(Before(me, w).snap.nodes) /\ Replannable(Before(me, w))
<1> DEFINE c == Before(me, w)
<1>1. c.snap = me.snap
  BY DEF Before, Memory
<1>2. c.at = "end" \/ c.todo = Unplanned(me.snap, w)
  BY DEF Before, Memory
<1> HIDE DEF c
<1>3. Replannable(c)
  BY <1>1, <1>2 DEF Replannable, Unplanned, TerminalNodes, NodeStates
<1> QED
  BY <1>1, <1>3 DEF c

LEMMA CapLoad ==
    ASSUME DepsInv, CapInv, NEW p \in procs, Load(p)
    PROVE  CapInv'
<1> DEFINE me == co[p]
           s == proj[me.run]
           from0 == [me EXCEPT !.snap = initialSnapshot]
           from == [me EXCEPT !.snap = s]
           done == [me EXCEPT !.at = "finish", !.snap = s]
<1>1. me \in Memory /\ me.run \in Runs /\ s \in Snapshot /\ Afforded(s.nodes)
  BY DEF DepsInv, Typed, Memory, CapInv
<1>2. /\ from0 \in Memory /\ from0.snap = initialSnapshot
      /\ from \in Memory /\ from.snap = s
      /\ done.at = "finish" /\ done.snap = s
  BY <1>1, Values DEF Memory
<1>3. UNCHANGED compiled
  BY DEF Load
<1>4. Afforded(initialSnapshot.nodes) /\ 1 \in Nat
  BY AwayIsAfforded
<1>5. \/ Save(p, initialSnapshot, Before(from0, 1))
      \/ /\ co' = [co EXCEPT ![p] = done] \/ co' = [co EXCEPT ![p] = Before(from, 1)]
         /\ UNCHANGED proj
  BY DEF Load
<1> HIDE DEF from0, from, done
<1>6. Replannable(done)
  BY <1>2 DEF Replannable
<1>7. /\ Afforded(Before(from0, 1).snap.nodes) /\ Replannable(Before(from0, 1))
      /\ Afforded(Before(from, 1).snap.nodes) /\ Replannable(Before(from, 1))
  BY <1>1, <1>2, <1>4, BeforeIsAfforded
<1>8. CASE Save(p, initialSnapshot, Before(from0, 1))
  BY <1>3, <1>4, <1>7, <1>8, CapSave
<1>9. CASE (co' = [co EXCEPT ![p] = done]) /\ UNCHANGED proj
  BY <1>1, <1>2, <1>3, <1>6, <1>9, CapMemory
<1>10. CASE (co' = [co EXCEPT ![p] = Before(from, 1)]) /\ UNCHANGED proj
  BY <1>3, <1>7, <1>10, CapMemory
<1> QED
  BY <1>5, <1>8, <1>9, <1>10

LEMMA CapPlanNode ==
    ASSUME DepsInv, CapInv, NEW p \in procs, NEW n \in Nodes, PlanNode(p, n)
    PROVE  CapInv'
<1> DEFINE me == co[p]
           rec(state) == [me.snap.nodes[n] EXCEPT !.state = state]
           nodes(state) == [me.snap.nodes EXCEPT ![n] = rec(state)]
           snap(state) == [me.snap EXCEPT !.nodes = nodes(state)]
           decided(state, type, note) ==
               [me EXCEPT !.at = "announce", !.snap = snap(state),
                          !.word = [node |-> n, type |-> type, note |-> note]]
<1>1. /\ me \in Memory /\ me.at = "plan" /\ n \in me.todo
      /\ Afforded(me.snap.nodes) /\ Replannable(me)
  BY DEF DepsInv, Typed, CapInv, PlanNode
<1>2. PICK state, type, note : Decide(p, n, state, type, note)
  BY DEF PlanNode
<1>3. co' = [co EXCEPT ![p] = decided(state, type, note)]
  BY <1>1, <1>2 DEF Decide, DepsInv, Typed
<1> DEFINE next == decided(state, type, note)
<1>4. /\ next.at = "announce" /\ next.word.node = n /\ next.todo = me.todo
      /\ \A m \in Nodes : m # n => next.snap.nodes[m] = me.snap.nodes[m]
      /\ next.snap.nodes[n].cost = me.snap.nodes[n].cost
  <2>1. /\ \A m \in Nodes : m # n => snap(state).nodes[m] = me.snap.nodes[m]
        /\ snap(state).nodes[n].cost = me.snap.nodes[n].cost
    BY <1>1 DEF Memory, Snapshot, NodeRec
  <2> HIDE DEF snap
  <2> QED
    BY <1>1, <2>1 DEF Memory
<1>5. me.todo \subseteq Nodes /\ plan.gauntlet \subseteq Nodes
  BY <1>1, GrantValues DEF Memory, DepsInv, Typed, CapInv
<1> HIDE DEF next
<1>6. me.snap.nodes[n].state # "failed"
  BY <1>1 DEF Replannable
<1>7. Afforded(next.snap.nodes) /\ Replannable(next)
  BY <1>1, <1>4, <1>5, <1>6 DEF Afforded, Replannable
<1> QED
  BY <1>3, <1>7, CapMemory DEF PlanNode, journal, next

LEMMA CapAnnounce ==
    ASSUME DepsInv, CapInv, NEW p \in procs, Announce(p)
    PROVE  CapInv'
<1> DEFINE me == co[p]
           n == me.word.node
           started == me.word.type = "node_started"
           next == [me EXCEPT !.at = "plan", !.todo = @ \ {n}, !.word = NoWord,
                              !.job[n] = IF started THEN [state |-> "run", cost |-> 0] ELSE @]
<1>1. /\ me \in Memory /\ Sound(me, Delivered, plan.deps)
      /\ me.at = "announce" /\ Afforded(me.snap.nodes) /\ Replannable(me)
  BY DEF DepsInv, Typed, CapInv, Announce
<1>2. n \in Nodes
  BY <1>1 DEF Sound
<1>3. next.at = "plan" /\ next.snap = me.snap /\ next.todo = me.todo \ {n}
  BY <1>1, <1>2 DEF Memory
<1>4. Emit(p, n, me.snap.nodes[n], me.word.type, me.word.note, next) /\ UNCHANGED compiled
  BY DEF Announce
<1> HIDE DEF next
<1>5. Afforded(next.snap.nodes) /\ Replannable(next)
  BY <1>1, <1>3 DEF Replannable
<1>6. n \in plan.gauntlet =>
          me.snap.nodes[n].state = "failed" \/ me.snap.nodes[n].cost <= grants[n]
  BY <1>1 DEF Afforded
<1> QED
  BY <1>2, <1>4, <1>5, <1>6, CapEmit

LEMMA CapRecord ==
    ASSUME DepsInv, CapInv, NEW p \in procs, NEW n \in Nodes, Record(p, n)
    PROVE  CapInv'
<1> DEFINE me == co[p]
           rec == Verdict(n, me.job[n])
           type == IF OverGrant(n, me.job[n]) THEN "budget_exceeded" ELSE rec.state
           word == [node |-> n, type |-> type, note |-> NoNote]
           nodes == [me.snap.nodes EXCEPT ![n] = rec]
           snap == [me.snap EXCEPT !.nodes = nodes]
           next == [me EXCEPT !.at = "release", !.snap = snap, !.word = word]
<1>1. me \in Memory /\ me.at = "run" /\ Afforded(me.snap.nodes)
  BY DEF DepsInv, Typed, CapInv, Record
<1>2. me.job[n] \in Answers /\ me.job[n].cost \in Nat
  <2>1. me.job[n] \in Answers
    BY <1>1 DEF Record, Active, Runnable, Memory, Working
  <2>2. Costs \subseteq Nat
    BY MultiTargetAssumption DEF Costs
  <2> QED
    BY <2>1, <2>2 DEF Answers
<1>3. n \in plan.gauntlet => rec.state = "failed" \/ rec.cost <= grants[n]
  <2>1. n \in plan.gauntlet => grants[n] \in Nat
    BY GrantValues DEF DepsInv, Typed, CapInv
  <2> QED
    BY <1>2, <2>1 DEF Verdict, OverGrant, Answers
<1> HIDE DEF rec, type, word
<1>4. \A m \in Nodes : snap.nodes[m] = IF m = n THEN rec ELSE me.snap.nodes[m]
  BY <1>1 DEF Memory, Snapshot
<1>5. next = [me EXCEPT !.at = "release", !.snap.nodes[n] = rec, !.word = word]
  BY <1>1 DEF Memory, Snapshot
<1> HIDE DEF snap
<1>6. next.at = "release" /\ next.snap = snap
  BY <1>1 DEF Memory
<1> HIDE DEF next
<1>7. plan.gauntlet \subseteq Nodes
  BY GrantValues DEF DepsInv, Typed, CapInv
<1>8. Afforded(next.snap.nodes) /\ Replannable(next)
  BY <1>1, <1>3, <1>4, <1>6, <1>7 DEF Afforded, Replannable
<1>9. Emit(p, n, rec, type, NoNote, next) /\ UNCHANGED compiled
  BY <1>5 DEF Record, rec, type, word
<1> QED
  BY <1>3, <1>8, <1>9, CapEmit

\* A step of p that leaves its snapshot's nodes alone and plans no wave.
LEMMA CapGoesOn ==
    ASSUME DepsInv, CapInv, NEW p \in procs, NEW next, next.snap.nodes = co[p].snap.nodes,
           next.at \notin {"plan", "announce"}
    PROVE  Afforded(next.snap.nodes) /\ Replannable(next)
BY DEF CapInv, Replannable

LEMMA CapSaves ==
    ASSUME DepsInv, CapInv, NEW p \in procs,
           Seed(p) \/ StartWave(p) \/ EndWave(p) \/ EndPlan(p)
    PROVE  CapInv'
<1> DEFINE me == co[p]
<1>1. me \in Memory /\ me.snap \in Snapshot /\ Afforded(me.snap.nodes) /\ me.wave \in Nat
  BY DEF DepsInv, Typed, Memory, CapInv
<1>2. CASE Seed(p)
  <2> DEFINE next == [me EXCEPT !.at = "load"]
  <2>1. next.at = "load" /\ next.snap = me.snap
    BY <1>1 DEF Memory
  <2>2. Save(p, me.snap, next) /\ UNCHANGED compiled
    BY <1>2 DEF Seed
  <2> HIDE DEF next
  <2>3. Afforded(next.snap.nodes) /\ Replannable(next)
    BY <2>1, CapGoesOn
  <2> QED
    BY <1>1, <2>2, <2>3, CapSave
<1>3. CASE StartWave(p)
  <2> DEFINE s == [me.snap EXCEPT !.state = "running", !.version = @ + 1]
             job == [n \in Nodes |-> IF n \in Runnable(p) THEN Dispatched(p, n) ELSE NoJob]
             next == [me EXCEPT !.at = "run", !.snap = s, !.job = job]
  <2>1. s.nodes = me.snap.nodes
    BY <1>1, NextVersion DEF PlanStates
  <2> HIDE DEF s, job
  <2>2. next.at = "run" /\ next.snap = s
    BY <1>1 DEF Memory
  <2>3. Save(p, s, next) /\ UNCHANGED compiled
    BY <1>3 DEF StartWave, s, job
  <2> HIDE DEF next
  <2>4. Afforded(next.snap.nodes) /\ Replannable(next) /\ Afforded(s.nodes)
    BY <1>1, <2>1, <2>2, CapGoesOn
  <2> QED
    BY <2>3, <2>4, CapSave
<1>4. CASE EndWave(p)
  <2> DEFINE s == [me.snap EXCEPT !.version = @ + 1]
             from == [me EXCEPT !.snap = s]
             next == Before(from, me.wave + 1)
  <2>1. s.nodes = me.snap.nodes /\ s \in Snapshot
    BY <1>1 DEF Snapshot
  <2> HIDE DEF s
  <2>2. from \in Memory /\ from.snap = s
    BY <1>1, <2>1 DEF Memory
  <2> HIDE DEF from
  <2>3. Afforded(s.nodes) /\ Afforded(next.snap.nodes) /\ Replannable(next)
    BY <1>1, <2>1, <2>2, BeforeIsAfforded
  <2>4. Save(p, s, next) /\ UNCHANGED compiled
    BY <1>4 DEF EndWave, s, from
  <2> QED
    BY <2>3, <2>4, CapSave
<1>5. CASE EndPlan(p)
  <2> DEFINE s == [me.snap EXCEPT !.state = terminalState(me.snap.nodes), !.version = @ + 1]
             done == [me EXCEPT !.at = "finish", !.snap = s]
  <2>1. s.nodes = me.snap.nodes
    <3>1. terminalState(me.snap.nodes) \in PlanStates
      BY DEF terminalState, PlanStates
    <3> QED
      BY <1>1, <3>1, NextVersion
  <2> HIDE DEF s
  <2>2. done.at = "finish" /\ done.snap = s
    BY <1>1 DEF Memory
  <2>3. Save(p, s, Away) \/ Save(p, s, done)
    BY <1>5 DEF EndPlan, s
  <2> HIDE DEF done
  <2>4. Afforded(s.nodes) /\ Afforded(done.snap.nodes) /\ Replannable(done)
    BY <1>1, <2>1, <2>2, CapGoesOn
  <2>5. Afforded(Away.snap.nodes) /\ Replannable(Away) /\ UNCHANGED compiled
    BY <1>5, AwayIsAfforded DEF EndPlan
  <2> QED
    BY <2>3, <2>4, <2>5, CapSave
<1> QED
  BY <1>2, <1>3, <1>4, <1>5

LEMMA CapMoves ==
    ASSUME DepsInv, CapInv, NEW p \in procs,
           \/ Release(p) \/ Finish(p) \/ Killed(p)
           \/ \E n \in Nodes : HeartbeatFails(p, n)
           \/ \E n \in Nodes, result \in Results : ChildEnds(p, n, result)
    PROVE  CapInv'
<1> DEFINE me == co[p]
<1>1. me \in Memory
  BY DEF DepsInv, Typed
<1>2. CASE Finish(p) \/ Killed(p)
  <2>1. (co' = [co EXCEPT ![p] = Away]) /\ UNCHANGED <<compiled, proj>>
    BY <1>2 DEF Finish, Killed, journal
  <2> QED
    BY <2>1, AwayIsAfforded, CapMemory
<1>3. CASE Release(p)
  <2> DEFINE next == [me EXCEPT !.at = "run", !.word = NoWord]
  <2>1. co' = [co EXCEPT ![p] = next]
    BY <1>1, <1>3 DEF Release, DepsInv, Typed
  <2>2. next.at = "run" /\ next.snap = me.snap
    BY <1>1 DEF Memory
  <2> HIDE DEF next
  <2>3. Afforded(next.snap.nodes) /\ Replannable(next)
    BY <2>2, CapGoesOn
  <2> QED
    BY <1>3, <2>1, <2>3, CapMemory DEF Release, journal
<1>4. ASSUME NEW n \in Nodes,
             HeartbeatFails(p, n) \/ \E result \in Results : ChildEnds(p, n, result)
      PROVE  CapInv'
  <2>1. PICK j : /\ co' = [co EXCEPT ![p].job[n] = j]
                 /\ me.at = "run" /\ UNCHANGED <<compiled, proj>>
    <3>1. HeartbeatFails(p, n) =>
              co' = [co EXCEPT ![p].job[n] = [co[p].job[n] EXCEPT !.state = "abort"]]
      BY <1>1 DEF HeartbeatFails, DepsInv, Typed, Memory
    <3> QED
      BY <1>4, <3>1 DEF HeartbeatFails, ChildEnds, journal
  <2> DEFINE next == [me EXCEPT !.job = [me.job EXCEPT ![n] = j]]
  <2>2. co' = [co EXCEPT ![p] = next]
    BY <2>1 DEF DepsInv, Typed
  <2>3. next.at = "run" /\ next.snap = me.snap
    BY <1>1, <2>1 DEF Memory
  <2> HIDE DEF next
  <2>4. Afforded(next.snap.nodes) /\ Replannable(next)
    BY <2>3, CapGoesOn
  <2> QED
    BY <2>1, <2>2, <2>4, CapMemory
<1> QED
  BY <1>2, <1>3, <1>4

LEMMA CapCalls ==
    ASSUME DepsInv, CapInv, NEW p \in procs, NEW o \in Owners, Invoke(p, o) \/ Retry(p, o)
    PROVE  CapInv'
<1>1. CASE Invoke(p, o)
  <2> DEFINE r == IF Latest = 0 THEN 1 ELSE Latest
             next == [Away EXCEPT !.at = "load", !.owner = o, !.run = r]
  <2>1. (co' = [co EXCEPT ![p] = next]) /\ UNCHANGED <<compiled, proj>>
    BY <1>1 DEF Invoke
  <2>2. next.at = "load" /\ next.snap = Away.snap
    BY DEF Away
  <2> HIDE DEF next
  <2>3. Afforded(next.snap.nodes) /\ Replannable(next)
    BY <2>2, AwayIsAfforded DEF Replannable
  <2> QED
    BY <2>1, <2>3, CapMemory
<1>2. CASE Retry(p, o)
  <2> DEFINE prev == proj[Latest]
             nodes == [n \in Nodes |-> Reopened(prev.nodes[n])]
             s == [state |-> "ready", version |-> prev.version + 1,
                   attempt |-> prev.attempt + 1, nodes |-> nodes]
             next == [Away EXCEPT !.at = "seed", !.owner = o, !.run = Latest + 1, !.snap = s]
  <2>1. (co' = [co EXCEPT ![p] = next]) /\ UNCHANGED <<compiled, proj>> /\ Latest \in Runs
    BY <1>2, MultiTargetAssumption DEF Retry, Runs
  <2>2. next.at = "seed" /\ next.snap.nodes = nodes
    BY DEF Away
  <2>3. Afforded(prev.nodes)
    BY <2>1 DEF CapInv
  <2>4. \A n \in plan.gauntlet : n \in Nodes /\ grants[n] \in Nat
    BY GrantValues DEF DepsInv, Typed, CapInv
  <2>5. Afforded(nodes)
    BY <2>3, <2>4 DEF Afforded, Reopened, Pending
  <2> HIDE DEF next, nodes
  <2>6. Afforded(next.snap.nodes) /\ Replannable(next)
    BY <2>2, <2>5 DEF Replannable
  <2> QED
    BY <2>1, <2>6, CapMemory
<1> QED
  BY <1>1, <1>2

LEMMA CapStep == DepsInv /\ CapInv /\ [Next]_vars => CapInv'
<1> SUFFICES ASSUME DepsInv, CapInv, [Next]_vars PROVE CapInv'
  OBVIOUS
<1>1. ASSUME NEW p \in procs, Step(p) \/ Killed(p) PROVE CapInv'
  BY <1>1, CapLoad, CapPlanNode, CapAnnounce, CapRecord, CapSaves, CapMoves DEF Step
<1>2. ASSUME NEW p \in procs, NEW o \in Owners, Invoke(p, o) \/ Retry(p, o) PROVE CapInv'
  BY <1>2, CapCalls
<1>3. ASSUME NEW r \in Runs, NEW n \in Nodes, LeaseExpires(r, n) PROVE CapInv'
  BY <1>3 DEF LeaseExpires, compiled, journal, CapInv, Afforded, Replannable
<1>4. CASE UNCHANGED vars
  BY <1>4 DEF vars, compiled, journal, CapInv, Afforded, Replannable
<1> QED
  BY <1>1, <1>2, <1>3, <1>4 DEF Next

(* For every plan and every reservation: whatever the dispatches cost, what *)
(* no Run of the chain calls failed has cost at most its grant, and the     *)
(* whole stays within the cap.                                              *)
THEOREM CostsWithinCap == Spec => []WithinCap
<1>1. Init => DepsInv /\ CapInv
  BY DepsInit, CapInit
<1>2. DepsInv /\ CapInv /\ [Next]_vars => DepsInv' /\ CapInv'
  BY DepsStep, CapStep
<1>3. DepsInv /\ CapInv => WithinCap
  <2> SUFFICES ASSUME DepsInv, CapInv, NEW r \in Runs
               PROVE  LET paid == {n \in plan.gauntlet : proj[r].nodes[n].state # "failed"}
                      IN  /\ Total([n \in Nodes |-> proj[r].nodes[n].cost], paid) <= plan.cap
                          /\ \A n \in paid : proj[r].nodes[n].cost <= grants[n]
    BY DEF WithinCap
  <2> DEFINE G == plan.gauntlet
             paid == {n \in G : proj[r].nodes[n].state # "failed"}
             cost == [n \in Nodes |-> proj[r].nodes[n].cost]
  <2>1. /\ IsFiniteSet(G) /\ G \subseteq Nodes /\ plan.cap \in Nat
        /\ \A n \in G : grants[n] \in Nat
        /\ Total(grants, G) <= plan.cap
    BY GrantValues, GrantsWithinCap DEF DepsInv, Typed, CapInv
  <2>2. \A n \in paid : proj[r].nodes[n].cost <= grants[n]
    BY DEF CapInv, Afforded
  <2>3. \A n \in paid : cost[n] \in Nat /\ cost[n] <= grants[n]
    <3>1. Costs \subseteq Nat
      BY MultiTargetAssumption DEF Costs
    <3>2. proj[r] \in Snapshot
      BY DEF DepsInv, Typed
    <3>3. \A n \in Nodes : proj[r].nodes[n].cost \in Nat
      BY <3>1, <3>2 DEF Snapshot, NodeRec
    <3> QED
      BY <2>1, <2>2, <3>3
  <2>4. paid \subseteq G
    OBVIOUS
  <2> HIDE DEF paid, cost, G
  <2>5. Amounts(cost, paid) /\ Amounts(grants, G) /\ \A n \in paid : cost[n] <= grants[n]
    BY <2>1, <2>3 DEF Amounts
  <2>6. Total(cost, paid) <= Total(grants, G)
    BY <2>1, <2>4, <2>5, TotalMonotone
  <2>7. Total(cost, paid) \in Nat /\ Total(grants, G) \in Nat
    BY <2>1, <2>4, <2>5, TotalType, FS_Subset
  <2>8. Total(cost, paid) <= plan.cap
    BY <2>1, <2>6, <2>7
  <2> QED
    BY <2>2, <2>8 DEF paid, cost, G
<1> QED
  BY <1>1, <1>2, <1>3, PTL DEF Spec

(* Every plan that can be started is sound. Its waves hold a node once, after *)
(* all of its dependencies, and alone unless it is parallel safe, and leave   *)
(* out only what is on a cycle or behind one; its grants lie between its      *)
(* minimums and its requests and are together exactly the smaller of the cap  *)
(* and what was requested.                                                    *)
THEOREM PlanSound == Spec => []PlanIsSound
<1>1. DepsInv /\ WholeInv => WavesAreOrdered(plan, waves)
  <2> SUFFICES ASSUME DepsInv, WholeInv PROVE WavesAreOrdered(plan, waves)
    OBVIOUS
  <2>1. plan.deps \in [Nodes -> SUBSET Nodes] /\ waves = Waves(plan.deps, plan.safe)
    BY MultiTargetAssumption DEF DepsInv, Typed, WholeInv
  <2>2. IsFiniteSet(Nodes) /\ Nodes \subseteq Nat
    BY MultiTargetAssumption
  <2> QED
    BY <2>1, <2>2, WavesOrdered
<1>2. DepsInv /\ CapInv => GrantsAreExact(plan, grants)
  BY GrantValues DEF DepsInv, Typed, CapInv
<1>3. DepsInv /\ WholeInv /\ CapInv => PlanIsSound
  BY <1>1, <1>2 DEF PlanIsSound
<1> QED
  BY <1>3, DepsInit, WholeInit, CapInit, DepsStep, WholeStep, CapStep, PTL DEF Spec
=============================================================================
