------------------------- MODULE KeySpaceFile_proofs -------------------------
(***************************************************************************)
(* What the operators on key space files return, for every file: also one  *)
(* in which a node has several entries or an empty one.                    *)
(***************************************************************************)
EXTENDS KeySpaceFile, FiniteSetTheorems, SequenceTheorems, TLAPS

\* A non-empty set of natural numbers has a least element: the initial segments
\* of the numbers are finite sets, and inclusion is well-founded among those.
LEMMA Least ==
  ASSUME NEW T \in SUBSET Nat, T # {}
  PROVE  \E x \in T : \A y \in T : x <= y
  <1> DEFINE Segments == {0 .. x : x \in T}
             Below == StrictSubsetOrdering(Nat)
  <1>1. IsWellFoundedOn(Below, FiniteSubsetsOf(Nat))
    BY FS_StrictSubsetOrderingWellFounded
  <1>2. Segments \subseteq FiniteSubsetsOf(Nat)
    <2> SUFFICES ASSUME NEW x \in T
                 PROVE  0 .. x \in FiniteSubsetsOf(Nat)
      OBVIOUS
    <2>1. IsFiniteSet(0 .. x)
      BY FS_Interval
    <2> QED
      BY <2>1 DEF FiniteSubsetsOf
  <1>3. Segments # {}
    OBVIOUS
  <1>4. \E s \in Segments : \A r \in Segments : <<r, s>> \notin Below
    <2> HIDE DEF Segments, Below
    <2> QED
      BY <1>1, <1>2, <1>3, WFMin
  <1>5. PICK x \in T : \A y \in T : <<0 .. y, 0 .. x>> \notin Below
    BY <1>4
  <1>6. ASSUME NEW y \in T, y < x
        PROVE  FALSE
    <2>1. 0 .. y \subseteq 0 .. x /\ x \in 0 .. x /\ x \notin 0 .. y
      BY <1>6
    <2>2. 0 .. y # 0 .. x /\ 0 .. y \in SUBSET Nat /\ 0 .. x \in SUBSET Nat
      BY <2>1
    <2>3. <<0 .. y, 0 .. x>> \in Below
      BY <2>1, <2>2 DEF StrictSubsetOrdering
    <2> QED
      BY <1>5, <2>3
  <1> QED
    BY <1>5, <1>6

\* The key space is an interval that begins at 0.
LEMMA KeySpaceSize == MaxKey \in Nat
  <1>1. Base \in Nat /\ Base >= 1
    BY BaseAssumption
  <1>2. Base * Base >= 1
    BY <1>1
  <1> QED
    BY <1>1, <1>2 DEF MaxKey

\* A member is found at its first entry.
LEMMA FirstEntry ==
  ASSUME NEW file \in File, NEW n \in Members(file)
  PROVE  /\ IndexOf(file, n) \in DOMAIN file
         /\ file[IndexOf(file, n)].node = n
  <1> DEFINE T == {i \in DOMAIN file : file[i].node = n}
  <1>1. DOMAIN file = 1 .. Len(file) /\ Len(file) \in Nat
    BY DEF File
  <1>2. T \in SUBSET Nat /\ T # {}
    BY <1>1 DEF Members
  <1>3. PICK i \in T : \A j \in T : i <= j
    BY <1>2, Least
  <1>4. ASSUME NEW j \in 1 .. (i - 1)
        PROVE  file[j].node # n
    BY <1>1, <1>3
  <1>5. \E k \in DOMAIN file : /\ file[k].node = n
                               /\ \A j \in 1 .. (k - 1) : file[j].node # n
    BY <1>3, <1>4
  <1> QED
    BY <1>5 DEF IndexOf

\* An add changes no entry's node and appends one of the new node.
LEMMA AddNodeNodes ==
  ASSUME NEW file \in File, NEW from \in Members(file), NEW to \in Node
  PROVE  LET new == AddNode(file, from, to)
         IN  /\ new \in File
             /\ Len(new) = Len(file) + 1
             /\ new[Len(new)].node = to
             /\ \A j \in 1 .. Len(file) : new[j].node = file[j].node
  <1> DEFINE i == IndexOf(file, from)
             cut == file[i].end - Halve(file[i].end - file[i].start)
             old == [file EXCEPT ![i].end = cut - 1]
             last == [node |-> to, start |-> cut, end |-> file[i].end]
  <1>1. i \in DOMAIN file
    BY FirstEntry
  <1>2. \A j \in DOMAIN file : file[j] \in Entry
    BY DEF File
  <1> HIDE DEF i
  <1>3. cut \in Int
    <2>1. file[i].end \in Int /\ file[i].start \in Int
      BY <1>1, <1>2 DEF Entry
    <2> QED
      BY <2>1 DEF Halve
  <1> HIDE DEF cut
  <1>4. old \in File
    <2> DEFINE e == [file[i] EXCEPT !.end = cut - 1]
    <2>1. e \in Entry
      BY <1>1, <1>2, <1>3 DEF Entry
    <2>2. old = [file EXCEPT ![i] = e]
      OBVIOUS
    <2> HIDE DEF e, old
    <2> QED
      BY <1>1, <2>1, <2>2 DEF File
  <1>5. last \in Entry
    BY <1>1, <1>2, <1>3 DEF Entry
  <1>6. Len(old) = Len(file) /\ Len(file) \in Nat /\ DOMAIN file = 1 .. Len(file)
    BY DEF File
  <1>7. \A j \in 1 .. Len(file) : old[j].node = file[j].node
    BY <1>1, <1>2, <1>6 DEF Entry
  <1> HIDE DEF old, last
  <1>8. /\ Append(old, last) \in File
        /\ Len(Append(old, last)) = Len(file) + 1
        /\ Append(old, last)[Len(file) + 1] = last
        /\ \A j \in 1 .. Len(file) : Append(old, last)[j] = old[j]
    BY <1>4, <1>5, <1>6 DEF File
  <1>9. last.node = to
    BY DEF last
  <1>10. AddNode(file, from, to) = Append(old, last)
    BY DEF AddNode, old, last, cut, i
  <1> QED
    BY <1>7, <1>8, <1>9, <1>10

\* A delete of a member removes one entry and changes no other entry's node.
LEMMA DelNodeNodes ==
  ASSUME NEW file \in File, NEW from \in Members(file), NEW to, NEW garbage
  PROVE  LET new == DelNode(file, from, to, garbage)
             i   == IndexOf(file, from)
         IN  /\ new \in File
             /\ Len(new) = Len(file) - 1
             /\ \A j \in 1 .. Len(new) :
                  new[j].node = file[IF j < i THEN j ELSE j + 1].node
  <1> DEFINE i == IndexOf(file, from)
             new == Widen(Erase(file, i), to, file[i])
  <1>1. i \in DOMAIN file
    BY FirstEntry
  <1>2. DelNode(file, from, to, garbage) = new
    BY DEF DelNode
  <1> HIDE DEF i
  <1>3. /\ DOMAIN file = 1 .. Len(file) /\ Len(file) \in Nat
        /\ \A j \in DOMAIN file : file[j] \in Entry
    BY DEF File
  <1>4. Len(file) - 1 \in Nat
    BY <1>1, <1>3
  <1>5. DOMAIN new = 1 .. (Len(file) - 1)
    BY DEF Widen, Erase
  <1>6. ASSUME NEW j \in 1 .. (Len(file) - 1)
        PROVE  new[j] \in Entry
               /\ new[j].node = file[IF j < i THEN j ELSE j + 1].node
    <2> DEFINE o == IF j < i THEN j ELSE j + 1
    <2>1. o \in DOMAIN file
      BY <1>3
    <2>2. new[j] = IF file[o].node # to THEN file[o]
                   ELSE IF file[i].end < file[o].start
                        THEN [file[o] EXCEPT !.start = file[i].start]
                        ELSE [file[o] EXCEPT !.end = file[i].end]
      BY DEF Widen, Erase
    <2>3. file[o] \in Entry /\ file[i] \in Entry
      BY <1>1, <1>3, <2>1
    <2> HIDE DEF o, new
    <2>4. new[j] \in Entry /\ new[j].node = file[o].node
      BY <2>2, <2>3 DEF Entry
    <2> QED
      BY <2>4 DEF o
  <1>7. new = [j \in 1 .. (Len(file) - 1) |-> new[j]]
    BY <1>5 DEF Widen
  <1> HIDE DEF new
  <1>8. new \in Seq(Entry) /\ Len(new) = Len(file) - 1
    BY <1>4, <1>6, <1>7
  <1> QED
    BY <1>2, <1>6, <1>8 DEF File, i

-----------------------------------------------------------------------------
(* The bounds that a file can hold.                                        *)

\* An edit can leave an entry from a key to the one before it: the first key
\* gives -1, which no later edit reads.
Bounded(file) ==
  \A i \in DOMAIN file : /\ file[i].start \in -1 .. MaxKey
                         /\ file[i].end \in -1 .. MaxKey

\* Half of a difference lies between zero and the difference.
LEMMA HalveWithin ==
  ASSUME NEW d \in Int
  PROVE  /\ Halve(d) \in Int
         /\ d >= 0 => 0 <= Halve(d) /\ Halve(d) <= d
         /\ d <= 0 => d <= Halve(d) /\ Halve(d) <= 0
  BY DEF Halve

\* The split of an entry without negative bounds, an empty one included, stays
\* inside the key space but for that -1.
LEMMA AddNodeBounded ==
  ASSUME NEW file \in File, Bounded(file), NEW from \in Members(file), NEW to,
         file[IndexOf(file, from)].start >= 0, file[IndexOf(file, from)].end >= 0
  PROVE  Bounded(AddNode(file, from, to))
  <1> DEFINE i == IndexOf(file, from)
             a == file[i].start
             b == file[i].end
             cut == b - Halve(b - a)
             old == [file EXCEPT ![i].end = cut - 1]
             last == [node |-> to, start |-> cut, end |-> b]
             new == Append(old, last)
  <1>1. i \in DOMAIN file /\ DOMAIN file = 1 .. Len(file) /\ Len(file) \in Nat
    BY FirstEntry DEF File
  <1>2. \A j \in DOMAIN file : file[j] \in Entry
    BY DEF File
  <1>3. a \in 0 .. MaxKey /\ b \in 0 .. MaxKey /\ MaxKey \in Int
    BY <1>1, KeySpaceSize DEF Bounded
  <1> HIDE DEF i, a, b
  <1>4. cut \in 0 .. MaxKey
    <2>1. b - a \in Int
      BY <1>3
    <2>2. CASE b - a >= 0
      BY <1>3, <2>1, <2>2, HalveWithin
    <2>3. CASE b - a <= 0
      BY <1>3, <2>1, <2>3, HalveWithin
    <2> QED
      BY <1>3, <2>2, <2>3
  <1> HIDE DEF cut
  <1>5. /\ DOMAIN old = 1 .. Len(file)
        /\ old[i].start = a /\ old[i].end = cut - 1
        /\ \A j \in DOMAIN file : j # i => old[j] = file[j]
    BY <1>1, <1>2 DEF Entry, a
  <1>6. Len(old) = Len(file)
    BY <1>1, <1>5
  <1> HIDE DEF old
  <1>7. /\ DOMAIN new = 1 .. (Len(file) + 1)
        /\ new[Len(file) + 1] = last
        /\ \A j \in 1 .. Len(file) : new[j] = old[j]
    BY <1>1, <1>5, <1>6
  <1> HIDE DEF new
  <1>8. ASSUME NEW j \in DOMAIN new
        PROVE  new[j].start \in -1 .. MaxKey /\ new[j].end \in -1 .. MaxKey
    <2>1. CASE j = Len(file) + 1
      BY <1>3, <1>4, <1>7, <2>1
    <2>2. CASE j = i
      BY <1>1, <1>3, <1>4, <1>5, <1>7, <2>2
    <2>3. CASE j \in 1 .. Len(file) /\ j # i
      BY <1>1, <1>5, <1>7, <2>3 DEF Bounded
    <2> QED
      BY <1>1, <1>7, <2>1, <2>2, <2>3
  <1>9. AddNode(file, from, to) = new
    BY DEF AddNode, new, old, last, cut, a, b, i
  <1> QED
    BY <1>8, <1>9 DEF Bounded

\* A delete hands out bounds that were there before.
LEMMA DelNodeBounded ==
  ASSUME NEW file \in File, Bounded(file), NEW from \in Members(file), NEW to,
         NEW garbage
  PROVE  Bounded(DelNode(file, from, to, garbage))
  <1> DEFINE i == IndexOf(file, from)
             new == Widen(Erase(file, i), to, file[i])
  <1>1. i \in DOMAIN file /\ DOMAIN file = 1 .. Len(file) /\ Len(file) \in Nat
    BY FirstEntry DEF File
  <1>2. DelNode(file, from, to, garbage) = new
    BY DEF DelNode
  <1>3. \A j \in DOMAIN file : file[j] \in Entry
    BY DEF File
  <1> HIDE DEF i
  <1>4. DOMAIN new = 1 .. (Len(file) - 1)
    BY DEF Widen, Erase
  <1>5. ASSUME NEW j \in DOMAIN new
        PROVE  new[j].start \in -1 .. MaxKey /\ new[j].end \in -1 .. MaxKey
    <2> DEFINE o == IF j < i THEN j ELSE j + 1
    <2>1. o \in DOMAIN file
      BY <1>1, <1>4
    <2>2. new[j] = IF file[o].node # to THEN file[o]
                   ELSE IF file[i].end < file[o].start
                        THEN [file[o] EXCEPT !.start = file[i].start]
                        ELSE [file[o] EXCEPT !.end = file[i].end]
      BY <1>4 DEF Widen, Erase
    <2>3. file[o] \in Entry /\ file[i] \in Entry
      BY <1>1, <1>3, <2>1
    <2> HIDE DEF o, new
    <2> QED
      BY <1>1, <2>1, <2>2, <2>3 DEF Bounded, Entry
  <1> QED
    BY <1>2, <1>5 DEF Bounded

-----------------------------------------------------------------------------
(* What an add and a delete that keep to the rules do to the file.         *)

\* Half of a positive difference is smaller than the difference.
LEMMA HalveBounds ==
  ASSUME NEW d \in Nat, d >= 1
  PROVE  Halve(d) \in Nat /\ Halve(d) < d
  BY DEF Halve

\* The entry i cut in two: the keys from cut up go to the node `to'.
Split(file, i, cut, to) ==
  Append([file EXCEPT ![i].end = cut - 1],
         [node |-> to, start |-> cut, end |-> file[i].end])

\* The file after a split, entry by entry.
SplitIn(file, i, cut, to, new) ==
  /\ new \in File
  /\ DOMAIN file = 1 .. Len(file)
  /\ DOMAIN new = 1 .. (Len(file) + 1)
  /\ new[Len(file) + 1] = [node |-> to, start |-> cut, end |-> file[i].end]
  /\ new[i] = [node |-> file[i].node, start |-> file[i].start, end |-> cut - 1]
  /\ \A j \in DOMAIN file : j # i => new[j] = file[j]
  /\ \A j \in DOMAIN file : file[j] \in Entry
  /\ \A j \in DOMAIN new : new[j] \in Entry

\* A split shortens the entry at i, adds what it cut off as the last one and leaves the others.
LEMMA SplitEntries ==
  ASSUME NEW file \in File, NEW i \in DOMAIN file, NEW cut \in Int, NEW to \in Node,
         NEW new, new = Split(file, i, cut, to)
  PROVE  SplitIn(file, i, cut, to, new)
  <1> DEFINE cutFile == [file EXCEPT ![i].end = cut - 1]
             last == [node |-> to, start |-> cut, end |-> file[i].end]
  <1>1. file \in Seq(Entry) /\ DOMAIN file = 1 .. Len(file) /\ Len(file) \in Nat
    BY DEF File
  <1>2. \A j \in DOMAIN file : file[j] \in Entry
    BY <1>1
  <1>3. last \in Entry
    BY <1>2 DEF Entry
  <1>4. cutFile[i] = [node |-> file[i].node, start |-> file[i].start,
                      end |-> cut - 1]
    BY <1>1, <1>2 DEF Entry
  <1>5. \A j \in DOMAIN file : j # i => cutFile[j] = file[j]
    BY <1>1
  <1>6. cutFile[i] \in Entry
    BY <1>2, <1>4 DEF Entry
  <1>7. DOMAIN cutFile = 1 .. Len(file)
    BY <1>1
  <1>8. cutFile \in Seq(Entry) /\ Len(cutFile) = Len(file)
    <2>1. cutFile \in [1 .. Len(file) -> Entry]
      BY <1>1, <1>2, <1>5, <1>6, <1>7
    <2> QED
      BY <1>1, <2>1
  <1> HIDE DEF cutFile, last
  <1>9. new = Append(cutFile, last)
    BY DEF cutFile, last, Split
  <1>10. /\ Append(cutFile, last) \in Seq(Entry)
         /\ Len(Append(cutFile, last)) = Len(file) + 1
         /\ \A j \in 1 .. Len(file) : Append(cutFile, last)[j] = cutFile[j]
         /\ Append(cutFile, last)[Len(file) + 1] = last
    <2>1. /\ Append(cutFile, last) \in Seq(Entry)
          /\ Len(Append(cutFile, last)) = Len(cutFile) + 1
          /\ \A j \in 1 .. Len(cutFile) : Append(cutFile, last)[j] = cutFile[j]
          /\ Append(cutFile, last)[Len(cutFile) + 1] = last
      BY <1>3, <1>8, AppendProperties
    <2> QED
      BY <1>8, <2>1
  <1>11. DOMAIN new = 1 .. (Len(file) + 1)
    BY <1>9, <1>10
  <1> QED
    BY <1>1, <1>2, <1>4, <1>5, <1>9, <1>10, <1>11 DEF last, File, SplitIn

\* The entries i and t are two nodes' neighbours in the key space.
Neighbours(file, i, t) ==
  /\ file[i].node # file[t].node
  /\ \/ file[i].end + 1 = file[t].start
     \/ file[t].end + 1 = file[i].start

\* Where the entry that is at position j after erasing i was before.
Before(i, j) == IF j < i THEN j ELSE j + 1

\* The file after a merge, entry by entry: the entry at j was at Before(j), and
\* only that of t has changed.
LEMMA MergeEntries ==
  ASSUME NEW file \in File, Partitioned(file),
         NEW i \in DOMAIN file, NEW t \in DOMAIN file, Neighbours(file, i, t),
         NEW new, new = Widen(Erase(file, i), file[t].node, file[i])
  PROVE  /\ new \in File
         /\ DOMAIN file = 1 .. Len(file) /\ Len(file) \in Nat
         /\ DOMAIN new = 1 .. (Len(file) - 1)
         /\ \A j \in DOMAIN file : file[j] \in Entry
         /\ \A j \in DOMAIN new : new[j] \in Entry
         /\ \A j \in DOMAIN new :
              /\ Before(i, j) \in DOMAIN file
              /\ Before(i, j) # t => new[j] = file[Before(i, j)]
              /\ Before(i, j) = t =>
                   /\ new[j].node = file[t].node
                   /\ \/ /\ file[i].end + 1 = file[t].start
                         /\ new[j].start = file[i].start
                         /\ new[j].end = file[t].end
                      \/ /\ file[t].end + 1 = file[i].start
                         /\ new[j].start = file[t].start
                         /\ new[j].end = file[i].end
  <1>0. /\ file[i].node # file[t].node
        /\ \/ file[i].end + 1 = file[t].start
           \/ file[t].end + 1 = file[i].start
    BY DEF Neighbours
  <1>1. file \in Seq(Entry) /\ DOMAIN file = 1 .. Len(file) /\ Len(file) \in Nat
    BY DEF File
  <1>2. \A j \in DOMAIN file : file[j] \in Entry
    BY <1>1
  <1>3. /\ \A j \in DOMAIN file : file[j].node \in Node
                                  /\ file[j].start \in Int /\ file[j].end \in Int
    BY <1>2 DEF Entry
  <1>4. Len(file) >= 1
    BY <1>1
  <1> DEFINE rest == Erase(file, i)
  <1>5. DOMAIN rest = 1 .. (Len(file) - 1)
    BY <1>1 DEF Erase
  <1>6. \A j \in DOMAIN rest : Before(i, j) \in DOMAIN file
                               /\ rest[j] = file[Before(i, j)]
    BY <1>1, <1>5 DEF Erase, Before
  <1>7. DOMAIN new = 1 .. (Len(file) - 1)
    BY <1>5 DEF Widen
  <1>8. \A j \in DOMAIN new :
          new[j] = IF rest[j].node # file[t].node THEN rest[j]
                     ELSE IF file[i].end < rest[j].start
                          THEN [rest[j] EXCEPT !.start = file[i].start]
                          ELSE [rest[j] EXCEPT !.end = file[i].end]
    BY <1>5, <1>7 DEF Widen
  <1> HIDE DEF rest
  <1>9. ASSUME NEW j \in DOMAIN new
        PROVE  /\ Before(i, j) \in DOMAIN file
               /\ Before(i, j) # t => new[j] = file[Before(i, j)]
               /\ Before(i, j) = t =>
                    /\ new[j].node = file[t].node
                    /\ \/ /\ file[i].end + 1 = file[t].start
                          /\ new[j].start = file[i].start
                          /\ new[j].end = file[t].end
                       \/ /\ file[t].end + 1 = file[i].start
                          /\ new[j].start = file[t].start
                          /\ new[j].end = file[i].end
               /\ new[j] \in Entry
    <2> DEFINE o == Before(i, j)
    <2>1. o \in DOMAIN file /\ rest[j] = file[o]
      BY <1>5, <1>6, <1>7
    <2> HIDE DEF o
    <2>2. CASE o # t
      <3>1. file[o].node # file[t].node
        BY <2>1, <2>2 DEF Partitioned, OneEntry
      <3>2. new[j] = file[o]
        BY <1>8, <2>1, <3>1
      <3> QED
        BY <1>2, <2>1, <2>2, <3>2 DEF o
    <2>3. CASE o = t /\ file[i].end + 1 = file[t].start
      <3>1. new[j] = [file[t] EXCEPT !.start = file[i].start]
        <4>1. rest[j] = file[t]
          BY <2>1, <2>3
        <4>2. file[i].end < file[t].start
          BY <1>3, <2>3
        <4> QED
          BY <1>8, <4>1, <4>2
      <3> QED
        BY <1>2, <1>3, <2>1, <2>3, <3>1 DEF o, Entry
    <2>4. CASE o = t /\ file[t].end + 1 = file[i].start
      <3>1. file[i].start <= file[i].end /\ file[t].start <= file[t].end
        BY DEF Partitioned, RangesOK
      <3>2. ~(file[i].end < file[t].start)
        BY <1>3, <2>4, <3>1
      <3>3. new[j] = [file[t] EXCEPT !.end = file[i].end]
        BY <1>8, <2>1, <2>4, <3>2
      <3> QED
        BY <1>2, <1>3, <2>1, <2>4, <3>3 DEF o, Entry
    <2> QED
      BY <1>0, <2>2, <2>3, <2>4
  <1>10. new \in Seq(Entry)
    <2>1. /\ DOMAIN Erase(file, i) = 1 .. (Len(file) - 1)
          /\ new = [j \in DOMAIN Erase(file, i) |-> new[j]]
      BY <1>5 DEF Widen, rest
    <2>2. new \in [1 .. (Len(file) - 1) -> Entry]
      BY <1>7, <1>9, <2>1
    <2>3. Len(file) - 1 \in Nat
      BY <1>1, <1>4
    <2> QED
      BY <2>2, <2>3, IsASeq
  <1> QED
    BY <1>1, <1>2, <1>7, <1>9, <1>10 DEF File

\* A split of a partition is a partition.
LEMMA SplitPartition ==
  ASSUME NEW file \in File, Partitioned(file), NEW i \in DOMAIN file,
         NEW cut \in Int, file[i].start < cut, cut <= file[i].end,
         NEW to \in Node, to \notin Members(file),
         NEW new, new = Split(file, i, cut, to)
  PROVE  Partitioned(new)
  <1>1. SplitIn(file, i, cut, to, new)
    BY SplitEntries
  <1>2. /\ DOMAIN file = 1 .. Len(file)
        /\ DOMAIN new = 1 .. (Len(file) + 1)
        /\ new[Len(file) + 1] =
             [node |-> to, start |-> cut, end |-> file[i].end]
        /\ new[i] = [node |-> file[i].node, start |-> file[i].start,
                       end |-> cut - 1]
        /\ \A j \in DOMAIN file : j # i => new[j] = file[j]
        /\ \A j \in DOMAIN file : file[j] \in Entry
        /\ \A j \in DOMAIN new : new[j] \in Entry
    BY <1>1 DEF SplitIn
  <1>3. Len(file) \in Nat
    BY DEF File
  <1>4. /\ \A j \in DOMAIN file : file[j].node \in Node
                                  /\ file[j].start \in Int /\ file[j].end \in Int
        /\ MaxKey \in Nat
    BY <1>2, KeySpaceSize DEF Entry
  <1> DEFINE N == Len(file) + 1
  <1>a. /\ new[N].start = cut /\ new[N].end = file[i].end
        /\ new[i].start = file[i].start /\ new[i].end = cut - 1
        /\ file[i].start \in Int /\ file[i].end \in Int
        /\ file[i].start < cut /\ cut <= file[i].end
    <2>1. new[N].start = cut /\ new[N].end = file[i].end
      BY <1>2
    <2>2. new[i].start = file[i].start /\ new[i].end = cut - 1
      BY <1>2
    <2>3. file[i].start \in Int /\ file[i].end \in Int
      BY <1>4
    <2>4. file[i].start < cut /\ cut <= file[i].end
      OBVIOUS
    <2> QED
      BY <2>1, <2>2, <2>3, <2>4
  <1> HIDE DEF N
  <1>5. RangesOK(new)
    <2> SUFFICES ASSUME NEW j \in DOMAIN new
                 PROVE  /\ 0 <= new[j].start /\ new[j].start <= new[j].end
                        /\ new[j].end <= MaxKey
      BY DEF RangesOK
    <2>1. /\ 0 <= file[i].start /\ file[i].start <= file[i].end
          /\ file[i].end <= MaxKey
      BY DEF Partitioned, RangesOK
    <2>2. CASE j = N
      BY <1>4, <1>a, <2>1, <2>2
    <2>3. CASE j = i
      BY <1>4, <1>a, <2>1, <2>3
    <2>4. CASE j \in DOMAIN file /\ j # i
      BY <1>2, <2>4 DEF Partitioned, RangesOK
    <2> QED
      BY <1>2, <1>3, <2>2, <2>3, <2>4 DEF N
  <1>6. Disjoint(new)
    <2> SUFFICES ASSUME NEW p \in DOMAIN new, NEW q \in DOMAIN new, p # q,
                        NEW k \in Int, k \in KeysOf(new[p]), k \in KeysOf(new[q])
                 PROVE  FALSE
      BY DEF Disjoint, KeysOf
    <2>1. \A r \in DOMAIN new :
            k \in KeysOf(new[r]) =>
              \/ r = Len(file) + 1 /\ k \in KeysOf(file[i]) /\ k >= cut
              \/ r = i /\ k \in KeysOf(file[i]) /\ k < cut
              \/ r \in DOMAIN file /\ r # i /\ k \in KeysOf(file[r])
      <3> SUFFICES ASSUME NEW r \in DOMAIN new, k \in KeysOf(new[r])
                   PROVE  \/ r = Len(file) + 1 /\ k \in KeysOf(file[i]) /\ k >= cut
                          \/ r = i /\ k \in KeysOf(file[i]) /\ k < cut
                          \/ r \in DOMAIN file /\ r # i /\ k \in KeysOf(file[r])
        OBVIOUS
      <3>1. CASE r = N
        <4>1. k \in new[N].start .. new[N].end
          BY <3>1 DEF KeysOf
        <4>2. k \in file[i].start .. file[i].end /\ k >= cut
          BY <1>a, <4>1
        <4> QED
          BY <3>1, <4>2 DEF KeysOf, N
      <3>2. CASE r = i
        <4>1. k \in new[i].start .. new[i].end
          BY <3>2 DEF KeysOf
        <4>2. k \in file[i].start .. file[i].end /\ k < cut
          BY <1>a, <4>1
        <4> QED
          BY <3>2, <4>2 DEF KeysOf
      <3>3. CASE r \in DOMAIN file /\ r # i
        BY <1>2, <3>3
      <3> QED
        BY <1>2, <1>3, <3>1, <3>2, <3>3 DEF N
    <2>2. \A r \in DOMAIN file : r # i => ~(k \in KeysOf(file[i]) /\ k \in KeysOf(file[r]))
      BY DEF Partitioned, Disjoint
    <2>3. \A r, s \in DOMAIN file : r # s => ~(k \in KeysOf(file[r]) /\ k \in KeysOf(file[s]))
      BY DEF Partitioned, Disjoint
    <2>4. cut \in Int
      OBVIOUS
    <2> QED
      BY <1>2, <1>3, <2>1, <2>2, <2>3, <2>4
  <1>7. Covered(new)
    <2> SUFFICES ASSUME NEW k \in Key
                 PROVE  \E j \in DOMAIN new : k \in KeysOf(new[j])
      BY DEF Covered
    <2>1. PICK j \in DOMAIN file : k \in KeysOf(file[j])
      BY DEF Partitioned, Covered
    <2>2. k \in Int
      BY <1>4 DEF Key
    <2>3. CASE j # i
      BY <1>2, <1>3, <2>1, <2>3
    <2>4. CASE j = i /\ k < cut
      <3>1. k \in KeysOf(new[i]) /\ i \in DOMAIN new
        BY <1>2, <1>3, <1>4, <2>1, <2>2, <2>4 DEF KeysOf
      <3> QED
        BY <3>1
    <2>5. CASE j = i /\ k >= cut
      <3>1. k \in KeysOf(new[Len(file) + 1]) /\ Len(file) + 1 \in DOMAIN new
        BY <1>2, <1>3, <1>4, <2>1, <2>2, <2>5 DEF KeysOf
      <3> QED
        BY <3>1
    <2> QED
      BY <2>2, <2>3, <2>4, <2>5
  <1>8. OneEntry(new)
    <2>1. \A j \in DOMAIN file : file[j].node # to
      BY DEF Members
    <2>2. \A j \in DOMAIN file : new[j].node = file[j].node
      BY <1>2
    <2>3. new[Len(file) + 1].node = to
      BY <1>2
    <2> QED
      BY <1>2, <1>3, <2>1, <2>2, <2>3 DEF Partitioned, OneEntry
  <1> QED
    BY <1>5, <1>6, <1>7, <1>8 DEF Partitioned

\* A merge of neighbours of a partition is a partition.
LEMMA MergePartition ==
  ASSUME NEW file \in File, Partitioned(file),
         NEW i \in DOMAIN file, NEW t \in DOMAIN file, Neighbours(file, i, t),
         NEW new, new = Widen(Erase(file, i), file[t].node, file[i])
  PROVE  Partitioned(new)
  <1>2. /\ new \in File
        /\ DOMAIN file = 1 .. Len(file) /\ Len(file) \in Nat
        /\ DOMAIN new = 1 .. (Len(file) - 1)
        /\ \A j \in DOMAIN file : file[j] \in Entry
        /\ \A j \in DOMAIN new : new[j] \in Entry
        /\ \A j \in DOMAIN new :
             /\ Before(i, j) \in DOMAIN file
             /\ Before(i, j) # t => new[j] = file[Before(i, j)]
             /\ Before(i, j) = t =>
                  /\ new[j].node = file[t].node
                  /\ \/ /\ file[i].end + 1 = file[t].start
                        /\ new[j].start = file[i].start
                        /\ new[j].end = file[t].end
                     \/ /\ file[t].end + 1 = file[i].start
                        /\ new[j].start = file[t].start
                        /\ new[j].end = file[i].end
    BY MergeEntries
  <1>3. /\ \A j \in DOMAIN file : file[j].node \in Node
                                  /\ file[j].start \in Int /\ file[j].end \in Int
        /\ MaxKey \in Nat
    BY <1>2, KeySpaceSize DEF Entry
  <1>4. \A p, q \in DOMAIN new : Before(i, p) = Before(i, q) => p = q
    BY <1>2 DEF Before
  <1>5. \A p \in DOMAIN new : Before(i, p) # i
    BY <1>2 DEF Before
  <1>6. \A r \in DOMAIN file : r # i => \E p \in DOMAIN new : Before(i, p) = r
    <2> SUFFICES ASSUME NEW r \in DOMAIN file, r # i
                 PROVE  \E p \in DOMAIN new : Before(i, p) = r
      OBVIOUS
    <2>1. CASE r < i
      BY <1>2, <2>1 DEF Before
    <2>2. CASE r > i
      <3>1. r - 1 \in DOMAIN new /\ Before(i, r - 1) = r
        BY <1>2, <2>2 DEF Before
      <3> QED
        BY <3>1
    <2> QED
      BY <1>2, <2>1, <2>2
  <1>7. RangesOK(new)
    <2> SUFFICES ASSUME NEW j \in DOMAIN new
                 PROVE  /\ 0 <= new[j].start /\ new[j].start <= new[j].end
                        /\ new[j].end <= MaxKey
      BY DEF RangesOK
    <2>1. \A r \in DOMAIN file : /\ 0 <= file[r].start /\ file[r].start <= file[r].end
                                 /\ file[r].end <= MaxKey
      BY DEF Partitioned, RangesOK
    <2>2. CASE Before(i, j) # t
      BY <1>2, <2>1, <2>2
    <2>3. CASE Before(i, j) = t
      <3>1. \/ /\ file[i].end + 1 = file[t].start
               /\ new[j].start = file[i].start
               /\ new[j].end = file[t].end
            \/ /\ file[t].end + 1 = file[i].start
               /\ new[j].start = file[t].start
               /\ new[j].end = file[i].end
        BY <1>2, <2>3
      <3>2. /\ 0 <= file[i].start /\ file[i].start <= file[i].end /\ file[i].end <= MaxKey
            /\ 0 <= file[t].start /\ file[t].start <= file[t].end /\ file[t].end <= MaxKey
        BY <2>1
      <3>3. /\ file[i].start \in Int /\ file[i].end \in Int
            /\ file[t].start \in Int /\ file[t].end \in Int
        BY <1>3
      <3> QED
        BY <3>1, <3>2, <3>3
    <2> QED
      BY <2>2, <2>3
  <1>8. \A j \in DOMAIN new, k \in Int :
          k \in KeysOf(new[j]) <=>
            \/ k \in KeysOf(file[Before(i, j)])
            \/ Before(i, j) = t /\ k \in KeysOf(file[i])
    <2> SUFFICES ASSUME NEW j \in DOMAIN new, NEW k \in Int
                 PROVE  k \in KeysOf(new[j]) <=>
                          \/ k \in KeysOf(file[Before(i, j)])
                          \/ Before(i, j) = t /\ k \in KeysOf(file[i])
      OBVIOUS
    <2>1. file[i].start <= file[i].end /\ file[t].start <= file[t].end
      BY DEF Partitioned, RangesOK
    <2>2. CASE Before(i, j) # t
      BY <1>2, <2>2
    <2>3. CASE Before(i, j) = t
      <3>1. /\ file[i].start \in Int /\ file[i].end \in Int
            /\ file[t].start \in Int /\ file[t].end \in Int
        BY <1>3
      <3>2. \/ /\ file[i].end + 1 = file[t].start
               /\ new[j].start = file[i].start
               /\ new[j].end = file[t].end
            \/ /\ file[t].end + 1 = file[i].start
               /\ new[j].start = file[t].start
               /\ new[j].end = file[i].end
        BY <1>2, <2>3
      <3>3. k \in new[j].start .. new[j].end <=>
              \/ k \in file[t].start .. file[t].end
              \/ k \in file[i].start .. file[i].end
        BY <2>1, <3>1, <3>2
      <3> QED
        BY <2>3, <3>3 DEF KeysOf
    <2> QED
      BY <2>2, <2>3
  <1>9. Disjoint(new)
    <2> SUFFICES ASSUME NEW p \in DOMAIN new, NEW q \in DOMAIN new, p # q,
                        NEW k \in Int, k \in KeysOf(new[p]), k \in KeysOf(new[q])
                 PROVE  FALSE
      BY DEF Disjoint, KeysOf
    <2>1. \A r, s \in DOMAIN file : r # s => ~(k \in KeysOf(file[r]) /\ k \in KeysOf(file[s]))
      BY DEF Partitioned, Disjoint
    <2> QED
      BY <1>2, <1>4, <1>5, <1>8, <2>1
  <1>10. Covered(new)
    <2> SUFFICES ASSUME NEW k \in Key
                 PROVE  \E j \in DOMAIN new : k \in KeysOf(new[j])
      BY DEF Covered
    <2>1. PICK r \in DOMAIN file : k \in KeysOf(file[r])
      BY DEF Partitioned, Covered
    <2>2. k \in Int
      BY <1>3 DEF Key
    <2>3. CASE r # i
      BY <1>6, <1>8, <2>1, <2>2, <2>3
    <2>4. CASE r = i
      <3>1. t # i
        BY DEF Neighbours
      <3>2. PICK j \in DOMAIN new : Before(i, j) = t
        BY <1>6, <3>1
      <3> QED
        BY <1>8, <2>1, <2>2, <2>4, <3>2
    <2> QED
      BY <2>3, <2>4
  <1>11. OneEntry(new)
    <2>1. \A j \in DOMAIN new : new[j].node = file[Before(i, j)].node
      BY <1>2
    <2> QED
      BY <1>2, <1>4, <2>1 DEF Partitioned, OneEntry
  <1> QED
    BY <1>7, <1>9, <1>10, <1>11 DEF Partitioned

\* In a partition the owner of a key is the node of the entry that has it.
LEMMA OwnerIsEntry ==
  ASSUME NEW file \in File, Partitioned(file), NEW k \in Key, NEW i \in DOMAIN file,
         k \in KeysOf(file[i])
  PROVE  GetManifestStorage(file, k) = file[i].node
  <1>1. DOMAIN file = 1 .. Len(file) /\ Len(file) \in Nat
    BY DEF File
  <1>2. \A j \in DOMAIN file : k \in KeysOf(file[j]) => j = i
    BY DEF Partitioned, Disjoint
  <1>3. \A j \in 1 .. (i - 1) : k \notin KeysOf(file[j])
    BY <1>1, <1>2
  <1> DEFINE P(x) == /\ k \in KeysOf(file[x])
                     /\ \A j \in 1 .. (x - 1) : k \notin KeysOf(file[j])
             c == CHOOSE x \in DOMAIN file : P(x)
  <1>4. P(i)
    BY <1>3
  <1>5. c \in DOMAIN file /\ P(c)
    BY <1>4
  <1>6. c = i
    BY <1>2, <1>5
  <1>7. GetManifestStorage(file, k) = file[c].node
    BY DEF GetManifestStorage
  <1> HIDE DEF c
  <1> QED
    BY <1>6, <1>7

\* Somebody owns every key.
LEMMA SomeEntry ==
  ASSUME NEW file \in File, Partitioned(file), NEW k \in Key
  PROVE  \E i \in DOMAIN file :
           k \in KeysOf(file[i]) /\ GetManifestStorage(file, k) = file[i].node
  <1>1. PICK i \in DOMAIN file : k \in KeysOf(file[i])
    BY DEF Partitioned, Covered
  <1>2. GetManifestStorage(file, k) = file[i].node
    BY <1>1, OwnerIsEntry
  <1> QED
    BY <1>1, <1>2

\* No bound is negative, so that nothing that reads the file throws.
LEMMA NoneNegative ==
  ASSUME NEW file \in File, Partitioned(file), NEW i \in DOMAIN file
  PROVE  /\ file[i].node \in Node
         /\ file[i].start \in Nat /\ file[i].end \in Nat
         /\ file[i].start <= file[i].end /\ file[i].end <= MaxKey
  <1>1. file[i] \in Entry
    BY DEF File
  <1>2. 0 <= file[i].start /\ file[i].start <= file[i].end /\ file[i].end <= MaxKey
    BY DEF Partitioned, RangesOK
  <1> QED
    BY <1>1, <1>2 DEF Entry

\* The first file is a partition.
LEMMA FirstPartition == InitKeySpaceFile \in File /\ Partitioned(InitKeySpaceFile)
  <1> DEFINE file == InitKeySpaceFile
  <1>1. MaxKey \in Nat
    BY KeySpaceSize
  <1>2. file = << [node |-> Manager, start |-> 0, end |-> MaxKey] >>
    BY DEF InitKeySpaceFile
  <1> HIDE DEF file
  <1>3. [node |-> Manager, start |-> 0, end |-> MaxKey] \in Entry
    BY <1>1, ManagerAssumption DEF Entry
  <1>4. file \in File
    BY <1>2, <1>3 DEF File
  <1>5. DOMAIN file = {1} /\ file[1].start = 0 /\ file[1].end = MaxKey
    BY <1>2
  <1>6. Partitioned(file)
    BY <1>1, <1>5 DEF Partitioned, RangesOK, Disjoint, Covered, OneEntry, KeysOf, Key
  <1> QED
    BY <1>4, <1>6 DEF file

\* An add that splits a member with two keys or more.
LEMMA AddIsSplit ==
  ASSUME NEW file \in File, Partitioned(file),
         NEW from \in Members(file), NEW to \in Node,
         file[IndexOf(file, from)].start < file[IndexOf(file, from)].end
  PROVE  \E i \in DOMAIN file, cut \in Int :
           /\ file[i].node = from
           /\ file[i].start < cut /\ cut <= file[i].end
           /\ AddNode(file, from, to) = Split(file, i, cut, to)
  <1> DEFINE i == IndexOf(file, from)
             d == file[i].end - file[i].start
             cut == file[i].end - Halve(d)
  <1>1. i \in DOMAIN file /\ file[i].node = from
    BY FirstEntry
  <1>2. file[i].start \in Nat /\ file[i].end \in Nat
    BY <1>1, NoneNegative
  <1>3. d \in Nat /\ d >= 1
    BY <1>2
  <1>4. Halve(d) \in Nat /\ Halve(d) < d
    BY <1>3, HalveBounds
  <1>5. cut \in Int /\ file[i].start < cut /\ cut <= file[i].end
    BY <1>2, <1>4
  <1>6. AddNode(file, from, to) = Split(file, i, cut, to)
    BY DEF AddNode, Split
  <1> HIDE DEF i, cut
  <1> QED
    BY <1>1, <1>5, <1>6

\* A delete that merges two neighbours.
LEMMA DeleteIsMerge ==
  ASSUME NEW file \in File, Partitioned(file),
         NEW from \in Members(file), NEW to \in Members(file), from # to,
         LET f == file[IndexOf(file, from)]
             t == file[IndexOf(file, to)]
         IN  f.end + 1 = t.start \/ t.end + 1 = f.start,
         NEW garbage
  PROVE  \E i, t \in DOMAIN file :
           /\ file[i].node = from /\ file[t].node = to /\ Neighbours(file, i, t)
           /\ DelNode(file, from, to, garbage) = Widen(Erase(file, i), to, file[i])
  <1> DEFINE i == IndexOf(file, from)
             t == IndexOf(file, to)
  <1>1. i \in DOMAIN file /\ file[i].node = from
    BY FirstEntry
  <1>2. t \in DOMAIN file /\ file[t].node = to
    BY FirstEntry
  <1>3. Neighbours(file, i, t)
    BY <1>1, <1>2 DEF Neighbours
  <1>4. DelNode(file, from, to, garbage) = Widen(Erase(file, i), to, file[i])
    BY DEF DelNode
  <1> HIDE DEF i, t
  <1> QED
    BY <1>1, <1>2, <1>3, <1>4

\* A split gives the keys from the cut up to the new node, and no other.
LEMMA SplitOwners ==
  ASSUME NEW file \in File, Partitioned(file), NEW i \in DOMAIN file,
         NEW cut \in Int, file[i].start < cut, cut <= file[i].end,
         NEW to \in Node, to \notin Members(file),
         NEW new, new = Split(file, i, cut, to), NEW k \in Key
  PROVE  GetManifestStorage(new, k) =
           IF k \in KeysOf(file[i]) /\ cut <= k THEN to
                                                ELSE GetManifestStorage(file, k)
  <1>1. /\ new \in File
        /\ DOMAIN file = 1 .. Len(file)
        /\ DOMAIN new = 1 .. (Len(file) + 1)
        /\ new[Len(file) + 1] =
             [node |-> to, start |-> cut, end |-> file[i].end]
        /\ new[i] = [node |-> file[i].node, start |-> file[i].start,
                       end |-> cut - 1]
        /\ \A j \in DOMAIN file : j # i => new[j] = file[j]
    BY SplitEntries DEF SplitIn
  <1>2. Partitioned(new)
    BY SplitPartition
  <1>3. Len(file) \in Nat /\ k \in Int
    BY KeySpaceSize DEF File, Key
  <1>4. file[i].start \in Nat /\ file[i].end \in Nat
    BY NoneNegative
  <1>5. CASE k \in KeysOf(file[i]) /\ cut <= k
    <2>1. Len(file) + 1 \in DOMAIN new
      BY <1>1, <1>3
    <2>2. k \in KeysOf(new[Len(file) + 1])
      BY <1>1, <1>3, <1>4, <1>5 DEF KeysOf
    <2>3. GetManifestStorage(new, k) = new[Len(file) + 1].node
      BY <1>1, <1>2, <2>1, <2>2, OwnerIsEntry
    <2> QED
      BY <1>1, <1>5, <2>3
  <1>6. CASE ~(k \in KeysOf(file[i]) /\ cut <= k)
    <2>1. PICK j \in DOMAIN file :
            k \in KeysOf(file[j]) /\ GetManifestStorage(file, k) = file[j].node
      BY SomeEntry
    <2>2. j \in DOMAIN new
      BY <1>1, <1>3
    <2>3. k \in KeysOf(new[j]) /\ new[j].node = file[j].node
      <3>1. CASE j # i
        BY <1>1, <2>1, <3>1
      <3>2. CASE j = i
        <4>1. k < cut
          BY <1>3, <1>6, <2>1, <3>2
        <4>2. new[i].start = file[i].start /\ new[i].end = cut - 1
          BY <1>1
        <4>3. k \in new[i].start .. new[i].end
          BY <1>3, <1>4, <2>1, <3>2, <4>1, <4>2 DEF KeysOf
        <4> QED
          BY <1>1, <3>2, <4>3 DEF KeysOf
      <3> QED
        BY <3>1, <3>2
    <2>4. GetManifestStorage(new, k) = new[j].node
      BY <1>1, <1>2, <2>2, <2>3, OwnerIsEntry
    <2> QED
      BY <1>6, <2>1, <2>3, <2>4
  <1> QED
    BY <1>5, <1>6

\* A merge gives all keys of the entry that goes to its neighbour's node, and no
\* other.
LEMMA MergeOwners ==
  ASSUME NEW file \in File, Partitioned(file),
         NEW i \in DOMAIN file, NEW t \in DOMAIN file, Neighbours(file, i, t),
         NEW new, new = Widen(Erase(file, i), file[t].node, file[i]), NEW k \in Key
  PROVE  GetManifestStorage(new, k) =
           IF k \in KeysOf(file[i]) THEN file[t].node
                                    ELSE GetManifestStorage(file, k)
  <1>1. /\ new \in File
        /\ DOMAIN file = 1 .. Len(file) /\ Len(file) \in Nat
        /\ DOMAIN new = 1 .. (Len(file) - 1)
        /\ \A j \in DOMAIN new :
             /\ Before(i, j) \in DOMAIN file
             /\ Before(i, j) # t => new[j] = file[Before(i, j)]
             /\ Before(i, j) = t =>
                  /\ new[j].node = file[t].node
                  /\ \/ /\ file[i].end + 1 = file[t].start
                        /\ new[j].start = file[i].start
                        /\ new[j].end = file[t].end
                     \/ /\ file[t].end + 1 = file[i].start
                        /\ new[j].start = file[t].start
                        /\ new[j].end = file[i].end
    BY MergeEntries
  <1>2. Partitioned(new)
    BY MergePartition
  <1>3. /\ file[i].start \in Nat /\ file[i].end \in Nat
        /\ file[t].start \in Nat /\ file[t].end \in Nat
        /\ file[i].start <= file[i].end /\ file[t].start <= file[t].end
    BY NoneNegative
  <1>4. PICK j \in DOMAIN new :
          k \in KeysOf(new[j]) /\ GetManifestStorage(new, k) = new[j].node
    BY <1>1, <1>2, SomeEntry
  <1>5. \/ k \in KeysOf(file[Before(i, j)])
             /\ new[j].node = file[Before(i, j)].node
        \/ k \in KeysOf(file[i]) /\ new[j].node = file[t].node
    <2>1. CASE Before(i, j) # t
      BY <1>1, <1>4, <2>1
    <2>2. CASE Before(i, j) = t
      <3>1. \/ /\ file[i].end + 1 = file[t].start
               /\ new[j].start = file[i].start
               /\ new[j].end = file[t].end
            \/ /\ file[t].end + 1 = file[i].start
               /\ new[j].start = file[t].start
               /\ new[j].end = file[i].end
        BY <1>1, <2>2
      <3>2. k \in Int
        BY KeySpaceSize DEF Key
      <3>3. k \in file[t].start .. file[t].end \/ k \in file[i].start .. file[i].end
        BY <1>3, <1>4, <3>1, <3>2 DEF KeysOf
      <3> QED
        BY <1>1, <2>2, <3>3 DEF KeysOf
    <2> QED
      BY <2>1, <2>2
  <1>6. Before(i, j) \in DOMAIN file /\ Before(i, j) # i
    BY <1>1 DEF Before
  <1>7. CASE k \in KeysOf(file[Before(i, j)])
               /\ new[j].node = file[Before(i, j)].node
    <2>1. GetManifestStorage(file, k) = file[Before(i, j)].node
      BY <1>6, <1>7, OwnerIsEntry
    <2>2. k \notin KeysOf(file[i])
      BY <1>6, <1>7 DEF Partitioned, Disjoint
    <2> QED
      BY <1>4, <1>7, <2>1, <2>2
  <1>8. CASE k \in KeysOf(file[i]) /\ new[j].node = file[t].node
    BY <1>4, <1>8
  <1> QED
    BY <1>5, <1>7, <1>8

=============================================================================
