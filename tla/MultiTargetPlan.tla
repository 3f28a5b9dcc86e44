-------------------------- MODULE MultiTargetPlan --------------------------
(***************************************************************************)
(* The pure parts of a multi-target plan: the waves of planDag             *)
(* (harness/lib/dag-planner.ts) and the grants of                          *)
(* reserveAggregateGauntletBudget (lib/gauntlet/aggregate-budget.ts).      *)
(*                                                                         *)
(* Nodes are numbers, so that the ids' order is the numbers'. A plan is a  *)
(* record: deps, safe (the nodes that are parallel_safe), gauntlet (those  *)
(* in Gauntlet mode), support (those that call no adapter), synthesis (a   *)
(* set with at most one node), requested and minimum (in micro-dollars,    *)
(* for Gauntlet nodes), and cap.                                           *)
(***************************************************************************)
EXTENDS Integers, FiniteSets, Sequences, SequencesExt, FiniteSetsExt

CONSTANT Nodes

-----------------------------------------------------------------------------
(* Waves.                                                                  *)

\* MUTANT of Decreased: an edge is counted once per round, not once per provider.
DecreasedOnce(deps, s) ==
    [n \in Nodes |-> s.degree[n] - IF deps[n] \cap s.frontier = {} THEN 0 ELSE 1]

\* The in-degrees once the frontier is placed.
Decreased(deps, s) ==
    [n \in Nodes |-> s.degree[n] - Cardinality(deps[n] \cap s.frontier)]

\* One turn of the loop: place the frontier; the next one is what falls to degree zero.
Turned(deps, s) ==
    LET degree == Decreased(deps, s)
    IN  [degree |-> degree,
         frontier |-> {n \in Nodes : s.degree[n] > 0 /\ degree[n] = 0},
         layers |-> Append(s.layers, s.frontier)]

KahnStart(deps) ==
    LET degree == [n \in Nodes |-> Cardinality(deps[n])]
    IN  [degree |-> degree, frontier |-> {n \in Nodes : degree[n] = 0}, layers |-> <<>>]

(* The layers before the split: each turn places a node, so there are at   *)
(* most as many turns as nodes.                                            *)
Layers(deps) ==
    LET after[k \in 0..Cardinality(Nodes)] ==
            IF k = 0 THEN KahnStart(deps)
            ELSE LET s == after[k - 1] IN IF s.frontier = {} THEN s ELSE Turned(deps, s)
    IN  after[Cardinality(Nodes)].layers

(* A node that is not parallel_safe gets a layer of its own before the safe  *)
(* ones of its layer; the smaller id comes first.                            *)
Split(layer, safe) ==
    LET alone == layer \ safe
        place(n) == Cardinality({m \in alone : m <= n})
    IN  [i \in 1..Cardinality(alone) |-> {n \in alone : place(n) = i}]
            \o (IF layer \cap safe = {} THEN <<>> ELSE <<layer \cap safe>>)

\* parallel_waves. Nodes on a cycle, or behind one, are in no wave.
Waves(deps, safe) == FlattenSeq([i \in DOMAIN Layers(deps) |-> Split(Layers(deps)[i], safe)])

-----------------------------------------------------------------------------
(* Grants.                                                                 *)

(* What a reservation asks for: micro-dollars, and at most one synthesis, as *)
(* plan.synthesis is one decision or null.                                   *)
Reservable(p) ==
    /\ p.gauntlet \subseteq Nodes
    /\ \A m, n \in p.synthesis : m = n
    /\ p.requested \in [Nodes -> Int]
    /\ p.minimum \in [Nodes -> Nat]
    /\ p.cap \in Nat

Total(f, S) == FoldFunctionOnSet(+, 0, f, S)

Least(x, y) == IF x <= y THEN x ELSE y

Rejected(plan) ==
    \/ Total(plan.minimum, plan.gauntlet) > plan.cap
    \/ \E n \in plan.gauntlet : plan.requested[n] < plan.minimum[n]

\* What is left to share once every node has its safe minimum.
Available(plan) ==
    Least(plan.cap, Total(plan.requested, plan.gauntlet)) - Total(plan.minimum, plan.gauntlet)

\* What the synthesis takes first.
SynthesisExtra(plan) ==
    Total([n \in Nodes |-> Least(Available(plan), plan.requested[n] - plan.minimum[n])],
          plan.synthesis \cap plan.gauntlet)

\* MUTANT of Share: every share is rounded up.
ShareUp(unmet, available, S, n) ==
    LET total == Total(unmet, S) IN (available * unmet[n] + total - 1) \div total

(* distributeProportionally over S: the floor of the exact share, and one  *)
(* micro more for the largest remainders, the smaller id first, until      *)
(* nothing remains. The code's remainders are floating point, so that it   *)
(* may rank equal ones differently; what is shared out is the same.        *)
Share(unmet, available, S, n) ==
    LET total == Total(unmet, S)
        floor == [m \in Nodes |-> (available * unmet[m]) \div total]
        rest  == [m \in Nodes |-> (available * unmet[m]) % total]
        ahead == {m \in S : rest[m] > rest[n] \/ (rest[m] = rest[n] /\ m < n)}
    IN  floor[n] + IF Cardinality(ahead) < available - Total(floor, S) THEN 1 ELSE 0

Grants(plan) ==
    LET unmet == [n \in Nodes |-> plan.requested[n] - plan.minimum[n]]
        others == {n \in plan.gauntlet \ plan.synthesis : unmet[n] > 0}
        left == Available(plan) - SynthesisExtra(plan)
    IN  [n \in Nodes |->
            IF n \notin plan.gauntlet \/ Rejected(plan) THEN 0
            ELSE plan.minimum[n] +
                 IF n \in plan.synthesis THEN SynthesisExtra(plan)
                 ELSE IF n \in others /\ left > 0 THEN Share(unmet, left, others, n)
                 ELSE 0]

-----------------------------------------------------------------------------
(* What they promise.                                                      *)

Acyclic(deps) ==
    \A S \in SUBSET Nodes \ {{}} : \E n \in S : deps[n] \cap S = {}

(* dag-planner.ts:5-7: a node is in one wave, after all of its             *)
(* dependencies, and shares it only with nodes that are parallel safe;     *)
(* exactly the nodes on a cycle or behind one are left out.                *)
WavesAreOrdered(plan, w) ==
    LET placed == UNION {w[i] : i \in DOMAIN w}
    IN  /\ \A i, j \in DOMAIN w : i # j => w[i] \cap w[j] = {}
        /\ \A i \in DOMAIN w : \A n \in w[i] :
              /\ plan.deps[n] \subseteq UNION {w[k] : k \in 1..(i - 1)}
              /\ w[i] # {n} => n \in plan.safe
        /\ \A n \in Nodes \ placed : plan.deps[n] \ placed # {}
        /\ Acyclic(plan.deps) => placed = Nodes

(* Grants lie between the safe minimum and the request, and together they  *)
(* use up exactly the smaller of the cap and what was requested: rounding  *)
(* neither overdraws the cap nor leaves a micro unused.                    *)
GrantsAreExact(plan, g) ==
    IF Rejected(plan) THEN \A n \in Nodes : g[n] = 0
    ELSE /\ \A n \in plan.gauntlet : g[n] \in plan.minimum[n]..plan.requested[n]
         /\ Total(g, plan.gauntlet) = Least(plan.cap, Total(plan.requested, plan.gauntlet))
=============================================================================
