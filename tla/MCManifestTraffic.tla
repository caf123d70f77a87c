------------------------- MODULE MCManifestTraffic --------------------------
(***************************************************************************)
(* The instance of ManifestTraffic that is model-checked.                  *)
(***************************************************************************)
EXTENDS ManifestTraffic, TLC

CONSTANTS mgr, a, b, peer, top

MCNode == {mgr, a, b}

\* With Base = 2 the last of the four keys is given away by the first split and
\* by the split of the new node.  Clients ask for `top' only: `peer' is moved
\* beside it, and is there when the migration of `top' ends a process.
MCHash == [x \in {peer, top} |-> 3]

\* Safety only: the two nodes beside the manager are alike.
MCSymmetry == Permutations({a, b})

MCGarbage == {[start |-> 1, end |-> 0]}

=============================================================================
