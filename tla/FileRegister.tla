---------------------------- MODULE FileRegister ----------------------------
(***************************************************************************)
(* What a file name promises to those who use it one at a time, without    *)
(* manifests, segments or processes: at all times it has the whole content *)
(* of one put or none.  A content appears at most once, in a single step   *)
(* and only where there is none; it goes away in a single step, only while *)
(* a delete is under way, and is gone when that delete is confirmed.       *)
(***************************************************************************)
CONSTANTS Put, NoPut, Delete

VARIABLES value,       \* the put whose content the name has
          stored,      \* the puts whose content it has had
          deleting,    \* the deletes under way
          confirmed    \* the deletes that were confirmed

vars == <<value, stored, deleting, confirmed>>

Init ==
  /\ value = NoPut
  /\ stored = {}
  /\ deleting = {}
  /\ confirmed = {}

Store(p) ==
  /\ value = NoPut
  /\ p \notin stored
  /\ value' = p
  /\ stored' = stored \cup {p}
  /\ UNCHANGED <<deleting, confirmed>>

Begin(d) ==
  /\ d \notin deleting \cup confirmed
  /\ deleting' = deleting \cup {d}
  /\ UNCHANGED <<value, stored, confirmed>>

Erase ==
  /\ deleting # {}
  /\ value' = NoPut
  /\ UNCHANGED <<stored, deleting, confirmed>>

\* A delete ends, confirmed only if nothing is left.
End(d) ==
  /\ d \in deleting
  /\ deleting' = deleting \ {d}
  /\ \/ value' \in {value, NoPut} /\ UNCHANGED confirmed
     \/ value = NoPut /\ confirmed' = confirmed \cup {d} /\ UNCHANGED value
  /\ UNCHANGED stored

Next ==
  \/ \E p \in Put : Store(p)
  \/ \E d \in Delete : Begin(d) \/ End(d)
  \/ Erase

Spec == Init /\ [][Next]_vars

=============================================================================
