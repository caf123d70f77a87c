---------------------------- MODULE KeyOwnership ----------------------------
(***************************************************************************)
(* What the key space promises, without files, ranges or splitting: at all *)
(* times every key has exactly one owner, a node that joins takes a part   *)
(* of the keys of ONE node, and a node that leaves hands all of its keys   *)
(* to ONE node.  No other key changes hands.                               *)
(***************************************************************************)
CONSTANTS Node, Manager, Key

VARIABLE owner

Owned(n) == {k \in Key : owner[k] = n}

Init == owner = [k \in Key |-> Manager]

\* The keys of the set moved change hands, and no other.
Move(moved, to) == owner' = [k \in Key |-> IF k \in moved THEN to ELSE owner[k]]

\* A node without keys takes some of the keys of `from', not all of them.
Join(from, to) ==
  /\ Owned(to) = {}
  /\ \E moved \in SUBSET Owned(from) :
       /\ moved # {}
       /\ moved # Owned(from)
       /\ Move(moved, to)

\* A node gives all of its keys to another one that has keys.
Leave(from, to) ==
  /\ from # to
  /\ Owned(from) # {}
  /\ Owned(to) # {}
  /\ Move(Owned(from), to)

Next == \E from, to \in Node : Join(from, to) \/ Leave(from, to)

Spec == Init /\ [][Next]_owner

=============================================================================
