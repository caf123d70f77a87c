-------------------------- MODULE MCKeySpaceHandle --------------------------
(***************************************************************************)
(* The instances of KeySpaceHandle that are model-checked.                 *)
(***************************************************************************)
EXTENDS KeySpaceHandle, TLC

CONSTANTS m, a, b, low, high, top

MCPair == {m, a}

MCNode == {m, a, b}

\* With Base = 2 the manager's first split gives keys 2 and 3 away, and a split
\* of the new node gives away 3.
MCHash == [x \in {low, high, top} |-> IF x = low THEN 1 ELSE IF x = high THEN 2 ELSE 3]
MCOneHash == [x \in {top} |-> 3]

\* Safety only: the two nodes beside the manager are alike.
MCSymmetry == Permutations({a, b})

\* An empty range and the whole key space.
MCGarbage == {[start |-> 1, end |-> 0], [start |-> 0, end |-> 3]}
MCNoGarbage == {[start |-> 1, end |-> 0]}

=============================================================================
