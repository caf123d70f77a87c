---------------------------- MODULE KeySpaceFile ----------------------------
(***************************************************************************)
(* The key space file: the JSON document that the manager edits and every  *)
(* node fetches (m_keySpaceFile of KeySpaceHandle).  It is a list of       *)
(* entries [node, start, end]; a node answers for the manifests whose hash *)
(* begins with a key of one of its ranges.                                 *)
(*                                                                         *)
(* A manifest's hash is a hexadecimal string of which only the first two   *)
(* digits matter to the ring, so it is represented by its key, a number    *)
(* below Base * Base (Base is 16 in the code).                             *)
(***************************************************************************)
EXTENDS Integers, Sequences

CONSTANTS Node,     \* the nodes of the cluster
          Manager,  \* the node that keeps the ring
          NoNode,   \* the empty name: no node
          Base      \* the number of digits of the hash alphabet

ASSUME ManagerAssumption == Manager \in Node
ASSUME NoNodeAssumption == NoNode \notin Node
ASSUME BaseAssumption == Base \in Nat \ {0}

MaxKey == Base * Base - 1

Key == 0 .. MaxKey

Entry == [node : Node, start : Int, end : Int]

File == Seq(Entry)

\* The manager starts as the only node, with every key.
InitKeySpaceFile == << [node |-> Manager, start |-> 0, end |-> MaxKey] >>

KeysOf(e) == e.start .. e.end

Members(file) == {file[i].node : i \in DOMAIN file}

\* The position of the first entry of a node that is a member.
IndexOf(file, node) ==
  CHOOSE i \in DOMAIN file : /\ file[i].node = node
                             /\ \A j \in 1 .. (i - 1) : file[j].node # node

\* Integer division of C++, which rounds towards zero.
Halve(d) == IF d >= 0 THEN d \div 2 ELSE -((-d) \div 2)

\* Mutants of AddNode: the first key of the upper half stays with `from', too,
\* or is given to neither, and the new entry is not named.
AddNodeOverlapping(file, from, to) ==
  LET i         == IndexOf(file, from)
      fromStart == file[i].end - Halve(file[i].end - file[i].start)
  IN  Append([file EXCEPT ![i].end = fromStart],
             [node |-> to, start |-> fromStart, end |-> file[i].end])

AddNodeGap(file, from, to) ==
  LET i         == IndexOf(file, from)
      fromStart == file[i].end - Halve(file[i].end - file[i].start)
  IN  Append([file EXCEPT ![i].end = fromStart - 1],
             [node |-> to, start |-> fromStart + 1, end |-> file[i].end])

AddNodeUnnamed(file, from, to) ==
  LET i         == IndexOf(file, from)
      fromStart == file[i].end - Halve(file[i].end - file[i].start)
  IN  Append([file EXCEPT ![i].end = fromStart - 1],
             [node |-> NoNode, start |-> fromStart, end |-> file[i].end])

\* Split the first entry of `from': `to' is appended with its upper half.
AddNode(file, from, to) ==
  LET i         == IndexOf(file, from)
      fromStart == file[i].end - Halve(file[i].end - file[i].start)
  IN  Append([file EXCEPT ![i].end = fromStart - 1],
             [node |-> to, start |-> fromStart, end |-> file[i].end])

\* Without its entry at position i (SequencesExt!RemoveAt, as a function).
Erase(file, i) ==
  [j \in 1 .. (Len(file) - 1) |-> IF j < i THEN file[j] ELSE file[j + 1]]

\* A mutant of Widen: the node is not compared.
WidenAll(file, to, erased) ==
  [j \in DOMAIN file |->
     IF erased.end < file[j].start
     THEN [file[j] EXCEPT !.start = erased.start]
     ELSE [file[j] EXCEPT !.end = erased.end]]

\* Widen every entry of `to' over the range of the entry that was erased.
Widen(file, to, erased) ==
  [j \in DOMAIN file |->
     IF file[j].node # to THEN file[j]
     ELSE IF erased.end < file[j].start
          THEN [file[j] EXCEPT !.start = erased.start]
          ELSE [file[j] EXCEPT !.end = erased.end]]

\* Erase the first entry of `from' and widen `to'.  When `from' is no member
\* the code reads two uninitialised integers, here `garbage'.
DelNode(file, from, to, garbage) ==
  IF from \in Members(file)
  THEN LET i == IndexOf(file, from) IN Widen(Erase(file, i), to, file[i])
  ELSE Widen(file, to, garbage)

\* The node that stores the manifests of a key: that of the first entry whose
\* range has the key.  Both digits of the hash are compared.
GetManifestStorage(file, key) ==
  IF \E i \in DOMAIN file : key \in KeysOf(file[i])
  THEN file[CHOOSE i \in DOMAIN file :
              /\ key \in KeysOf(file[i])
              /\ \A j \in 1 .. (i - 1) : key \notin KeysOf(file[j])].node
  ELSE NoNode

\* The prefix test of the migration: the key is printed in hexadecimal WITHOUT
\* padding, so that a key below Base is one digit and matches every hash that
\* begins with that digit.
PrefixMatch(key, hash) ==
  IF key \in 0 .. (Base - 1) THEN hash \div Base = key ELSE hash = key

\* A mutant of InRange: the last key is left out.
InRangeButLast(hash, range) ==
  \E key \in range.start .. (range.end - 1) : PrefixMatch(key, hash)

\* The hashes that some key of the range start .. end is a prefix of.
InRange(hash, range) ==
  \E key \in range.start .. range.end : PrefixMatch(key, hash)

-----------------------------------------------------------------------------
(* What makes a file a partition of the key space.                         *)

\* The ranges are inside the key space and none is empty.
RangesOK(file) ==
  \A i \in DOMAIN file : 0 <= file[i].start /\ file[i].start <= file[i].end
                         /\ file[i].end <= MaxKey

\* No key lies in two entries.
Disjoint(file) ==
  \A i, j \in DOMAIN file : i # j => KeysOf(file[i]) \cap KeysOf(file[j]) = {}

\* Every key lies in an entry.
Covered(file) == \A k \in Key : \E i \in DOMAIN file : k \in KeysOf(file[i])

\* A node has one entry.
OneEntry(file) ==
  \A i, j \in DOMAIN file : file[i].node = file[j].node => i = j

Partitioned(file) ==
  RangesOK(file) /\ Disjoint(file) /\ Covered(file) /\ OneEntry(file)

=============================================================================
