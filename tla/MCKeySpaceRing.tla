--------------------------- MODULE MCKeySpaceRing ---------------------------
(***************************************************************************)
(* The instances of KeySpaceRing that are model-checked: a cluster of four *)
(* nodes run by the rules, and one of three that takes any command.        *)
(***************************************************************************)
EXTENDS KeySpaceRing

CONSTANTS m, a, b, c

MCNode == {m, a, b, c}

MCSmallNode == {m, a, b}

=============================================================================
