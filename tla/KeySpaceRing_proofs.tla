------------------------ MODULE KeySpaceRing_proofs ------------------------
(***************************************************************************)
(* Proofs about the edits of the key space file, for every set of nodes,   *)
(* every hash alphabet and any number of edits.                            *)
(***************************************************************************)
EXTENDS KeySpaceRing, KeySpaceFile_proofs

-----------------------------------------------------------------------------
(* What the two edits do to the file.                                      *)

\* An add splits one entry.
LEMMA AddShape ==
  ASSUME TypeOK, Partition, NEW from \in Node, NEW to \in Node,
         SafeAdd(from, to), HandleAddCommand(from, to)
  PROVE  /\ to \notin Members(file)
         /\ version' = version + 1 /\ version < MaxVersion /\ alive' = alive
         /\ \E i \in DOMAIN file, cut \in Int :
              /\ file[i].node = from
              /\ file[i].start < cut /\ cut <= file[i].end
              /\ file' = Split(file, i, cut, to)
  <1>1. /\ file \in File /\ Partitioned(file)
        /\ from \in Members(file) /\ to \notin Members(file)
        /\ file[IndexOf(file, from)].start < file[IndexOf(file, from)].end
    BY DEF TypeOK, Partition, SafeAdd
  <1>2. AddReadable(from)
    BY <1>1, FirstEntry, NoneNegative DEF AddReadable, Readable
  <1>3. file' = AddNode(file, from, to) /\ version' = version + 1
          /\ version < MaxVersion /\ alive' = alive
    BY <1>2 DEF HandleAddCommand
  <1>4. PICK i \in DOMAIN file, cut \in Int :
          /\ file[i].node = from
          /\ file[i].start < cut /\ cut <= file[i].end
          /\ AddNode(file, from, to) = Split(file, i, cut, to)
    BY <1>1, AddIsSplit
  <1> QED
    BY <1>1, <1>3, <1>4

\* A delete removes the entry i and extends the entry t over its range.
LEMMA DeleteShape ==
  ASSUME TypeOK, Partition, NEW from \in Node, NEW to \in Node,
         SafeDelete(from, to),
         HandleDeleteCommand(from, to, file[IndexOf(file, from)])
  PROVE  /\ version' = version + 1 /\ version < MaxVersion /\ alive' = alive
         /\ \E i, t \in DOMAIN file :
              /\ file[i].node = from /\ file[t].node = to /\ Neighbours(file, i, t)
              /\ file' = Widen(Erase(file, i), to, file[i])
  <1>1. /\ file \in File /\ Partitioned(file) /\ from # to
        /\ from \in Members(file) /\ to \in Members(file)
        /\ LET f == file[IndexOf(file, from)]
               t == file[IndexOf(file, to)]
           IN  f.end + 1 = t.start \/ t.end + 1 = f.start
    BY DEF TypeOK, Partition, SafeDelete
  <1>2. DeleteReadable(from, to)
    BY <1>1, NoneNegative DEF DeleteReadable, Readable
  <1>3. /\ file' = DelNode(file, from, to, file[IndexOf(file, from)])
        /\ version' = version + 1 /\ version < MaxVersion /\ alive' = alive
    BY <1>2 DEF HandleDeleteCommand
  <1>4. PICK i \in DOMAIN file, t \in DOMAIN file :
          /\ file[i].node = from /\ file[t].node = to /\ Neighbours(file, i, t)
          /\ DelNode(file, from, to, file[IndexOf(file, from)])
               = Widen(Erase(file, i), to, file[i])
    BY <1>1, DeleteIsMerge
  <1> QED
    BY <1>3, <1>4

-----------------------------------------------------------------------------
(* The edits keep the partition.                                           *)

LEMMA AddKeepsPartition ==
  ASSUME TypeOK, Partition, NEW from \in Node, NEW to \in Node,
         SafeAdd(from, to), HandleAddCommand(from, to)
  PROVE  TypeOK' /\ Partition'
  <1>1. file \in File /\ Partitioned(file)
    BY DEF TypeOK, Partition
  <1>2. PICK i \in DOMAIN file, cut \in Int :
          /\ file[i].start < cut /\ cut <= file[i].end
          /\ file' = Split(file, i, cut, to)
    BY AddShape
  <1>3. to \notin Members(file)
    BY AddShape
  <1>4. file' \in File /\ Partitioned(file')
    BY <1>1, <1>2, <1>3, SplitEntries, SplitPartition DEF SplitIn
  <1> QED
    BY <1>4, AddShape, MaxVersionAssumption DEF TypeOK, Partition

LEMMA DeleteKeepsPartition ==
  ASSUME TypeOK, Partition, NEW from \in Node, NEW to \in Node,
         SafeDelete(from, to),
         HandleDeleteCommand(from, to, file[IndexOf(file, from)])
  PROVE  TypeOK' /\ Partition'
  <1>1. file \in File /\ Partitioned(file)
    BY DEF TypeOK, Partition
  <1>2. PICK i \in DOMAIN file, t \in DOMAIN file :
          /\ Neighbours(file, i, t)
          /\ file' = Widen(Erase(file, i), file[t].node, file[i])
    BY DeleteShape
  <1>3. file' \in File /\ Partitioned(file')
    BY <1>1, <1>2, MergeEntries, MergePartition
  <1> QED
    BY <1>3, DeleteShape, MaxVersionAssumption DEF TypeOK, Partition

LEMMA InitPartition == Init => TypeOK /\ Partition
  BY FirstPartition, MaxVersionAssumption DEF Init, TypeOK, Partition

\* handleAddCommand and handleDeleteCommand keep the file well-typed and a
\* partition of the key space, however many nodes, keys and edits there are.
THEOREM PartitionAlways == Spec => [](TypeOK /\ Partition)
  <1>1. Init => TypeOK /\ Partition
    BY InitPartition
  <1>2. TypeOK /\ Partition /\ [Next]_vars => (TypeOK /\ Partition)'
    <2> SUFFICES ASSUME TypeOK, Partition, [Next]_vars
                 PROVE  TypeOK' /\ Partition'
      OBVIOUS
    <2>1. ASSUME NEW from \in Node, NEW to \in Node,
                 SafeAdd(from, to), HandleAddCommand(from, to)
          PROVE  TypeOK' /\ Partition'
      BY <2>1, AddKeepsPartition
    <2>2. ASSUME NEW from \in Node, NEW to \in Node, SafeDelete(from, to),
                 HandleDeleteCommand(from, to, file[IndexOf(file, from)])
          PROVE  TypeOK' /\ Partition'
      BY <2>2, DeleteKeepsPartition
    <2>3. CASE UNCHANGED vars
      BY <2>3 DEF vars, TypeOK, Partition
    <2> QED
      BY <2>1, <2>2, <2>3 DEF Next
  <1> QED
    BY <1>1, <1>2, PTL DEF Spec

-----------------------------------------------------------------------------
(* The file implements KeyOwnership.                                       *)

\* Every key has an owner, the node of the entry that has it.
LEMMA OwnedByEntry ==
  ASSUME TypeOK, Partition
  PROVE  /\ \A k \in Key : \E i \in DOMAIN file :
              k \in KeysOf(file[i]) /\ owner[k] = file[i].node
         /\ \A k \in Key, i \in DOMAIN file :
              k \in KeysOf(file[i]) => owner[k] = file[i].node
  BY SomeEntry, OwnerIsEntry DEF owner, TypeOK, Partition

\* A split is a Join: the new node takes the keys from the cut up.
LEMMA AddIsJoin ==
  ASSUME TypeOK, Partition, NEW from \in Node, NEW to \in Node,
         SafeAdd(from, to), HandleAddCommand(from, to)
  PROVE  Ownership!Join(from, to)
  <1>0. file \in File /\ Partitioned(file) /\ to \notin Members(file)
    BY AddShape DEF TypeOK, Partition
  <1>1. PICK i \in DOMAIN file, cut \in Int :
          /\ file[i].node = from
          /\ file[i].start < cut /\ cut <= file[i].end
          /\ file' = Split(file, i, cut, to)
    BY AddShape
  <1> DEFINE moved == {k \in Key : k \in KeysOf(file[i]) /\ cut <= k}
             s == file[i].start
  <1>2. s \in Nat /\ file[i].end \in Nat /\ file[i].end <= MaxKey /\ MaxKey \in Nat
    BY <1>0, NoneNegative, KeySpaceSize
  <1>3. /\ s \in Key /\ s \in KeysOf(file[i]) /\ s \notin moved
        /\ cut \in moved
    BY <1>1, <1>2 DEF Key, KeysOf
  <1>4. \A k \in Key : owner'[k] = IF k \in moved THEN to ELSE owner[k]
    BY <1>0, <1>1, SplitOwners DEF owner
  <1>5. owner' = [k \in Key |-> IF k \in moved THEN to ELSE owner[k]]
    BY <1>4 DEF owner
  <1>6. \A k \in moved : owner[k] = from
    BY <1>1, OwnedByEntry
  <1>7. owner[s] = from
    BY <1>1, <1>3, OwnedByEntry
  <1>8. \A k \in Key : owner[k] # to
    BY <1>0, OwnedByEntry DEF Members
  <1>9. moved \in SUBSET Ownership!Owned(from)
    BY <1>6 DEF Ownership!Owned
  <1> HIDE DEF moved, s
  <1>10. moved # {} /\ moved # Ownership!Owned(from)
    BY <1>3, <1>7 DEF Ownership!Owned
  <1>11. Ownership!Owned(to) = {}
    BY <1>8 DEF Ownership!Owned
  <1> QED
    BY <1>5, <1>9, <1>10, <1>11 DEF Ownership!Join, Ownership!Move

\* A merge is a Leave: all keys of the node that leaves go to its neighbour.
LEMMA DeleteIsLeave ==
  ASSUME TypeOK, Partition, NEW from \in Node, NEW to \in Node,
         SafeDelete(from, to),
         HandleDeleteCommand(from, to, file[IndexOf(file, from)])
  PROVE  Ownership!Leave(from, to)
  <1>0. file \in File /\ Partitioned(file)
    BY DEF TypeOK, Partition
  <1>1. PICK i \in DOMAIN file, t \in DOMAIN file :
          /\ file[i].node = from /\ file[t].node = to /\ Neighbours(file, i, t)
          /\ file' = Widen(Erase(file, i), file[t].node, file[i])
    BY DeleteShape
  <1>2. \A k \in Key : k \in KeysOf(file[i]) <=> owner[k] = from
    <2>1. \A j \in DOMAIN file : file[j].node = from => j = i
      BY <1>0, <1>1 DEF Partitioned, OneEntry
    <2> QED
      BY <1>1, <2>1, OwnedByEntry
  <1>3. \A k \in Key : owner'[k] = IF k \in KeysOf(file[i]) THEN to ELSE owner[k]
    BY <1>0, <1>1, MergeOwners DEF owner
  <1>4. owner' = [k \in Key |-> IF k \in Ownership!Owned(from) THEN to ELSE owner[k]]
    <2>1. owner' = [k \in Key |-> owner'[k]]
      BY DEF owner
    <2> QED
      BY <1>2, <1>3, <2>1 DEF Ownership!Owned
  <1>5. \A j \in DOMAIN file : \E k \in Key : owner[k] = file[j].node
    <2> SUFFICES ASSUME NEW j \in DOMAIN file
                 PROVE  \E k \in Key : owner[k] = file[j].node
      OBVIOUS
    <2>1. file[j].start \in Key /\ file[j].start \in KeysOf(file[j])
      BY <1>0, NoneNegative, KeySpaceSize DEF Key, KeysOf
    <2> QED
      BY <2>1, OwnedByEntry
  <1>6. Ownership!Owned(from) # {} /\ Ownership!Owned(to) # {}
    BY <1>1, <1>5 DEF Ownership!Owned
  <1>7. from # to
    BY <1>1 DEF Neighbours
  <1> QED
    BY <1>4, <1>6, <1>7 DEF Ownership!Leave, Ownership!Move

\* The key space file implements KeyOwnership: the first file gives every key
\* to the manager, and handleAddCommand and handleDeleteCommand move keys from
\* one node to one node and leave the owner of every other key alone.
THEOREM Refinement == Spec => MovesAsPromised
  <1>1. Init => Ownership!Init
    <2> SUFFICES ASSUME Init
                 PROVE  Ownership!Init
      OBVIOUS
    <2>1. TypeOK /\ Partition
      BY InitPartition
    <2>2. \A k \in Key : owner[k] = Manager
      <3> SUFFICES ASSUME NEW k \in Key
                   PROVE  owner[k] = Manager
        OBVIOUS
      <3>2. PICK i \in DOMAIN file : owner[k] = file[i].node
        BY <2>1, OwnedByEntry
      <3>3. file[i].node = Manager
        BY DEF Init, InitKeySpaceFile
      <3> QED
        BY <3>2, <3>3
    <2>3. owner = [k \in Key |-> owner[k]]
      BY DEF owner
    <2> QED
      BY <2>2, <2>3 DEF Ownership!Init
  <1>2. TypeOK /\ Partition /\ [Next]_vars
          => [Ownership!Next]_owner
    <2> SUFFICES ASSUME TypeOK, Partition, [Next]_vars
                 PROVE  [Ownership!Next]_owner
      OBVIOUS
    <2>1. ASSUME NEW from \in Node, NEW to \in Node,
                 SafeAdd(from, to), HandleAddCommand(from, to)
          PROVE  Ownership!Next
      BY <2>1, AddIsJoin DEF Ownership!Next
    <2>2. ASSUME NEW from \in Node, NEW to \in Node, SafeDelete(from, to),
                 HandleDeleteCommand(from, to, file[IndexOf(file, from)])
          PROVE  Ownership!Next
      BY <2>2, DeleteIsLeave DEF Ownership!Next
    <2>3. CASE UNCHANGED vars
      BY <2>3 DEF vars, owner
    <2> QED
      BY <2>1, <2>2, <2>3 DEF Next
  <1> QED
    BY <1>1, <1>2, PartitionAlways, PTL DEF Spec, MovesAsPromised, Ownership!Spec

-----------------------------------------------------------------------------
(* Arbitrary commands: what is left when the operator keeps to no rule.    *)

\* A delete of a node that is no member changes bounds only.
LEMMA WidenFile ==
  ASSUME NEW f \in File, NEW to, NEW erased, erased.start \in Int, erased.end \in Int
  PROVE  Widen(f, to, erased) \in File
  <1> DEFINE new == Widen(f, to, erased)
  <1>1. DOMAIN f = 1 .. Len(f) /\ Len(f) \in Nat /\ \A j \in DOMAIN f : f[j] \in Entry
    BY DEF File
  <1>2. DOMAIN new = 1 .. Len(f)
    BY <1>1 DEF Widen
  <1>3. ASSUME NEW j \in 1 .. Len(f)
        PROVE  new[j] \in Entry
    <2>1. f[j] \in Entry
      BY <1>1
    <2>2. new[j] = IF f[j].node # to THEN f[j]
                   ELSE IF erased.end < f[j].start
                        THEN [f[j] EXCEPT !.start = erased.start]
                        ELSE [f[j] EXCEPT !.end = erased.end]
      BY <1>1 DEF Widen
    <2> HIDE DEF new
    <2> QED
      BY <2>1, <2>2 DEF Entry
  <1>4. new = [j \in 1 .. Len(f) |-> new[j]]
    BY <1>1 DEF Widen
  <1> HIDE DEF new
  <1>5. new \in Seq(Entry)
    BY <1>1, <1>3, <1>4
  <1> QED
    BY <1>5 DEF File, new

\* Whatever is commanded, the file stays a list of entries.
FileOK == file \in File

LEMMA AnyFile == AnySpec => []FileOK
  <1>1. Init => FileOK
    BY InitPartition DEF TypeOK, FileOK
  <1>2. FileOK /\ [AnyNext]_vars => FileOK'
    <2> SUFFICES ASSUME file \in File, [AnyNext]_vars
                 PROVE  file' \in File
      BY DEF FileOK
    <2>1. ASSUME NEW from \in Node, NEW to \in Node, HandleAddCommand(from, to)
          PROVE  file' \in File
      BY <2>1, AddNodeNodes DEF HandleAddCommand
    <2>2. ASSUME NEW from \in Node, NEW to \in Node, NEW garbage \in GarbageRange,
                 HandleDeleteCommand(from, to, garbage)
          PROVE  file' \in File
      <3>1. CASE from \in Members(file)
        BY <2>2, <3>1, DelNodeNodes DEF HandleDeleteCommand
      <3>2. CASE from \notin Members(file)
        <4>1. garbage.start \in Int /\ garbage.end \in Int
          BY KeySpaceSize DEF GarbageRange, Key
        <4>2. DelNode(file, from, to, garbage) = Widen(file, to, garbage)
          BY <3>2 DEF DelNode
        <4> QED
          BY <2>2, <4>1, <4>2, WidenFile DEF HandleDeleteCommand
      <3> QED
        BY <3>1, <3>2
    <2> QED
      BY <2>1, <2>2 DEF AnyNext, vars
  <1> QED
    BY <1>1, <1>2, PTL DEF AnySpec

\* One add: each key of the entry that is split is in one of its halves, which
\* stay at its place and at the end of the file; nothing else moves.
LEMMA AddKeepsFound ==
  ASSUME file \in File, NEW from \in Node, NEW to \in Node,
         HandleAddCommand(from, to), \A i \in DOMAIN file' : Readable(file'[i])
  PROVE  Found \subseteq Found'
  <1> DEFINE i == IndexOf(file, from)
             cut == file[i].end - Halve(file[i].end - file[i].start)
             old == [file EXCEPT ![i].end = cut - 1]
             last == [node |-> to, start |-> cut, end |-> file[i].end]
  <1>1. /\ i \in DOMAIN file /\ DOMAIN file = 1 .. Len(file) /\ Len(file) \in Nat
        /\ \A j \in DOMAIN file : file[j] \in Entry
    BY FirstEntry DEF HandleAddCommand, File
  <1>2. CASE UNCHANGED file
    BY <1>2 DEF Found
  <1>3. CASE file' = AddNode(file, from, to)
    <2>1. file' = Append(old, last)
      BY <1>3 DEF AddNode
    <2> HIDE DEF i
    <2>2. cut \in Int
      BY <1>1 DEF Halve, Entry
    <2> HIDE DEF cut
    <2>3. /\ DOMAIN old = 1 .. Len(file) /\ Len(old) = Len(file)
          /\ old[i].start = file[i].start /\ old[i].end = cut - 1
          /\ \A j \in DOMAIN file : j # i => old[j] = file[j]
      BY <1>1 DEF Entry
    <2> HIDE DEF old
    <2>4. /\ DOMAIN file' = 1 .. (Len(file) + 1)
          /\ file'[Len(file) + 1].start = cut
          /\ file'[Len(file) + 1].end = file[i].end
          /\ \A j \in 1 .. Len(file) : file'[j] = old[j]
      BY <1>1, <2>1, <2>3
    <2> SUFFICES ASSUME NEW k \in Key, NEW j \in DOMAIN file, k \in KeysOf(file[j])
                 PROVE  \E m \in DOMAIN file' : k \in KeysOf(file'[m])
      <3>1. \A m \in DOMAIN file' : \A l \in 1 .. m : Readable(file'[l])
        BY <1>1, <2>4
      <3> QED
        BY <3>1 DEF Found
    <2>5. CASE j # i
      BY <1>1, <2>3, <2>4, <2>5
    <2>6. CASE j = i
      <3>1. /\ k \in Int /\ file[i].start <= k /\ k <= file[i].end
            /\ file[i].start \in Int /\ file[i].end \in Int
        BY <1>1, <2>6, KeySpaceSize DEF KeysOf, Key, Entry
      <3>2. CASE k < cut
        <4>1. k \in KeysOf(file'[i])
          BY <1>1, <2>2, <2>3, <2>4, <3>1, <3>2 DEF KeysOf
        <4> QED
          BY <1>1, <2>4, <4>1
      <3>3. CASE k >= cut
        <4>1. k \in KeysOf(file'[Len(file) + 1])
          BY <2>2, <2>4, <3>1, <3>3 DEF KeysOf
        <4> QED
          BY <1>1, <2>4, <4>1
      <3> QED
        BY <2>2, <3>1, <3>2, <3>3
    <2> QED
      BY <2>5, <2>6
  <1> QED
    BY <1>2, <1>3 DEF HandleAddCommand

\* Whatever commands came before, rule-abiding or not, handleAddCommand leaves
\* no key without an owner that a lookup can find, unless it writes the negative
\* bound that none can read.
THEOREM AddLosesNoKeyAlways == AnySpec => AddLosesNoKey
  <1>1. FileOK => [(\E from, to \in Node : HandleAddCommand(from, to))
                            => \/ Found \subseteq Found'
                               \/ \E i \in DOMAIN file' : ~Readable(file'[i])]_vars
    BY AddKeepsFound DEF FileOK
  <1> QED
    BY <1>1, AnyFile, PTL DEF AddLosesNoKey, AnySpec

=============================================================================
