--------------------------- MODULE MCMultiTarget ---------------------------
(* Values for the constants of MultiTarget. *)
EXTENDS MultiTarget, TLC

Symm == Permutations(procs) \cup Permutations(Owners)

\* Every graph over three nodes, with one reservation.
Graphs3 ==
    {[deps |-> d, safe |-> s, gauntlet |-> {}, support |-> {}, synthesis |-> {},
      requested |-> [n \in Nodes |-> 0], minimum |-> [n \in Nodes |-> 0], cap |-> 0]
        : d \in {f \in [Nodes -> SUBSET Nodes] : \A n \in Nodes : n \notin f[n]},
          s \in SUBSET Nodes}

\* Every reservation of up to four micros a node, with one graph.
Reservations3 ==
    {[deps |-> [n \in Nodes |-> {}], safe |-> Nodes, gauntlet |-> g, support |-> {},
      synthesis |-> y, requested |-> q, minimum |-> [n \in Nodes |-> 1], cap |-> c]
        : g \in {{1, 2}, {1, 2, 3}}, y \in {{}, {3}}, q \in [Nodes -> 0..4], c \in 0..8}

\* The plans that are run: two nodes at once and one after both, or after one.
Runs3 ==
    {[deps |-> (1 :> {} @@ 2 :> {} @@ 3 :> {1, 2}), safe |-> Nodes, gauntlet |-> {1}, support |-> {2},
      synthesis |-> {}, requested |-> [n \in Nodes |-> 1], minimum |-> [n \in Nodes |-> 1], cap |-> 1]}

MCPlans == Graphs3 \cup Reservations3 \cup Runs3

MCResults == {[state |-> "delivered", cost |-> 1], [state |-> "withheld", cost |-> 2]}
=============================================================================
