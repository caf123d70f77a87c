----------------------------- MODULE MCFileStore -----------------------------
(***************************************************************************)
(* The instances of FileStore that are model-checked: put pa at node na,   *)
(* put pb at node nb.  With blocks of two bytes, pa has two segments, pb   *)
(* one; a put of an even size has none.                                    *)
(***************************************************************************)
EXTENDS FileStore

CONSTANTS na, nb, pa, pb, da, ga

MCSize == [x \in {pa, pb} |-> IF x = pa THEN 3 ELSE 1]
MCOneSize == [x \in {pa} |-> 3]
MCEvenSize == [x \in {pa} |-> 4]

MCAt == [x \in {pa, pb} |-> IF x = pa THEN na ELSE nb]
MCOneAt == [x \in {pa} |-> na]

=============================================================================
