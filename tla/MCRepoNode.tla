----------------------------- MODULE MCRepoNode -----------------------------
(***************************************************************************)
(* The instance of RepoNode that is model-checked: two connections and the  *)
(* fetcher write to two names of one prefix, and one manifest comes and     *)
(* goes.  The buffer has three bytes; first ends in a byte that is no TLV,  *)
(* second in too large an element.                                         *)
(***************************************************************************)
EXTENDS RepoNode

CONSTANTS first, second, na, nb, pre, mh, x1, x2, x3, x4, x5

MCPrefixOf == [f \in {na, nb} |-> pre]

El(k, f, x, e) == [kind |-> k, name |-> f, content |-> x, end |-> e]

MCStream == [c \in {first, second} |->
  IF c = first
  THEN <<El("data", na, x1, 1), El("data", nb, x2, 4), El("garbage", nb, x2, 5)>>
  ELSE <<El("undecodable", na, x3, 1), El("data", na, x3, 2), El("data", nb, x4, 7)>>]

=============================================================================
