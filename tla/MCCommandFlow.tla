---------------------------- MODULE MCCommandFlow ----------------------------
(***************************************************************************)
(* The instance of CommandFlow that is model-checked: a put of /x and one  *)
(* of /a/y, whose last component is that of /y, which others get and       *)
(* delete.  Node nb owns all hashes.                                       *)
(***************************************************************************)
EXTENDS CommandFlow

CONSTANTS na, nb, px, py, gx, gy, dx, dy

MCNameOf ==
  [c \in Client |-> IF c = py THEN <<"a", "y">>
                    ELSE IF c \in {px, gx, dx} THEN <<"x">> ELSE <<"y">>]

MCVia == [c \in Client |-> IF c \in {px, gx, dy} THEN na ELSE nb]

MCOwner == [uri \in {<<"x">>, <<"y">>, <<"a", "y">>} |-> nb]

\* One segment each, or none of /x.
MCSizes == {[p \in Put |-> 1], [p \in Put |-> IF p = px THEN 0 ELSE 1]}

=============================================================================
