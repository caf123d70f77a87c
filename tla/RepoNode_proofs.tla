--------------------------- MODULE RepoNode_proofs ---------------------------
(***************************************************************************)
(* Proofs about one node: for any streams, buffer size and division of the *)
(* streams into receives, with any number of connections, faults, kills    *)
(* and restarts.                                                           *)
(***************************************************************************)
EXTENDS RepoNode, FiniteSetTheorems, TLAPS

-----------------------------------------------------------------------------
(* The storage.                                                            *)

\* What insertData is given: finitely many packets, in an order.
Batch(batch) ==
  /\ DOMAIN batch \subseteq Nat
  /\ \E b \in Nat : \A m \in DOMAIN batch : m <= b
  /\ \A m \in DOMAIN batch : batch[m].name \in Name /\ batch[m].content \in Content

\* A bounded non-empty set of natural numbers has a greatest element: the segments
\* from a number to the bound are finite sets, and inclusion is well-founded among
\* those.
LEMMA Greatest ==
  ASSUME NEW T \in SUBSET Nat, T # {}, NEW b \in Nat, \A x \in T : x <= b
  PROVE  \E x \in T : \A y \in T : y <= x
  <1> DEFINE Segments == {x .. b : x \in T}
             Below == StrictSubsetOrdering(Nat)
  <1>1. IsWellFoundedOn(Below, FiniteSubsetsOf(Nat))
    BY FS_StrictSubsetOrderingWellFounded
  <1>2. Segments \subseteq FiniteSubsetsOf(Nat)
    <2> SUFFICES ASSUME NEW x \in T
                 PROVE  x .. b \in FiniteSubsetsOf(Nat)
      OBVIOUS
    <2>1. IsFiniteSet(x .. b)
      BY FS_Interval
    <2> QED
      BY <2>1 DEF FiniteSubsetsOf
  <1>3. Segments # {}
    OBVIOUS
  <1>4. \E s \in Segments : \A r \in Segments : <<r, s>> \notin Below
    <2> HIDE DEF Segments, Below
    <2> QED
      BY <1>1, <1>2, <1>3, WFMin
  <1>5. PICK x \in T : \A y \in T : <<y .. b, x .. b>> \notin Below
    BY <1>4
  <1>6. ASSUME NEW y \in T, x < y
        PROVE  FALSE
    <2>1. y .. b \subseteq x .. b /\ x \in x .. b /\ x \notin y .. b
      BY <1>6
    <2>2. y .. b # x .. b /\ y .. b \in SUBSET Nat /\ x .. b \in SUBSET Nat
      BY <2>1
    <2>3. <<y .. b, x .. b>> \in Below
      BY <2>1, <2>2 DEF StrictSubsetOrdering
    <2> QED
      BY <1>5, <2>3
  <1> QED
    BY <1>5, <1>6

\* A bounded set of numbers is finite.
LEMMA PartsFinite ==
  ASSUME NEW batch, Batch(batch), NEW S \in SUBSET DOMAIN batch
  PROVE  IsFiniteSet(S) /\ Cardinality(S) \in Nat /\ (S # {} => Cardinality(S) > 0)
  <1>1. S \in SUBSET Nat
    BY DEF Batch
  <1>2. PICK b \in Nat : \A m \in S : m <= b
    BY DEF Batch
  <1>3. IsFiniteSet(S)
    BY <1>1, <1>2, FS_BoundedSetOfNaturals
  <1>4. Cardinality(S) \in Nat
    BY <1>3, FS_CardinalityType
  <1>5. S # {} => Cardinality(S) # 0
    BY <1>3, FS_EmptySet
  <1> QED
    BY <1>3, <1>4, <1>5

\* The way a batch goes wrong is a function on some of it, to kinds of fault,
\* and needs no more faults than are left.
LEMMA WrongShape ==
  ASSUME NEW batch, Batch(batch), NEW wrong \in Wrongs(batch)
  PROVE  /\ DOMAIN wrong \in SUBSET DOMAIN batch
         /\ Cardinality(DOMAIN wrong) \in Nat
         /\ Cardinality(DOMAIN wrong) <= faults
  <1>1. DOMAIN wrong \in SUBSET DOMAIN batch /\ Cardinality(DOMAIN wrong) <= faults
    BY DEF Wrongs
  <1>2. Cardinality(DOMAIN wrong) \in Nat
    BY <1>1, PartsFinite
  <1> QED
    BY <1>1, <1>2

\* A file keeps what it has, is torn by an insert that goes wrong, or gets the
\* content of a packet of the batch; it changes only if one of the inserts for it
\* is signalled.
LEMMA FileAfterShape ==
  ASSUME StorageTypeOK, NEW batch, Batch(batch), NEW wrong \in Wrongs(batch), NEW f \in Name
  PROVE  /\ FileAfter(batch, wrong, f) \in Content \cup {Absent, Torn}
         /\ FileAfter(batch, wrong, f) # file[f] =>
              \E m \in Signalled(batch, wrong) : batch[m].name = f
         /\ FileAfter(batch, wrong, f) = Torn => file[f] = Torn \/ DOMAIN wrong # {}
  <1> DEFINE reaching == {m \in DOMAIN batch : /\ batch[m].name = f
                                               /\ m \in DOMAIN wrong => wrong[m] = "torn"}
             last == CHOOSE m \in reaching : \A k \in reaching : k <= m
  <1>1. FileAfter(batch, wrong, f) =
          IF reaching = {} THEN file[f]
          ELSE IF last \in DOMAIN wrong THEN Torn ELSE batch[last].content
    BY DEF FileAfter
  <1>2. CASE reaching = {}
    BY <1>1, <1>2 DEF StorageTypeOK
  <1>3. CASE reaching # {}
    <2>1. reaching \in SUBSET Nat
      BY DEF Batch
    <2>2. PICK b \in Nat : \A m \in reaching : m <= b
      BY DEF Batch
    <2>3. \E m \in reaching : \A k \in reaching : k <= m
      <3> HIDE DEF reaching
      <3> QED
        BY <1>3, <2>1, <2>2, Greatest
    <2>4. last \in reaching
      <3> HIDE DEF reaching
      <3> QED
        BY <2>3
    <2>5. batch[last].content \in Content
      BY <2>4 DEF Batch
    <2>6. last \in Signalled(batch, wrong) /\ batch[last].name = f
      BY <2>4 DEF Signalled
    <2> HIDE DEF reaching, last
    <2>7. FileAfter(batch, wrong, f) \in {Torn, batch[last].content}
      BY <1>1, <1>3
    <2>8. FileAfter(batch, wrong, f) = Torn => DOMAIN wrong # {}
      BY <1>1, <1>3, <2>5, FileAssumption
    <2> QED
      BY <2>5, <2>6, <2>7, <2>8
  <1> QED
    BY <1>2, <1>3

\* insertData keeps the types; it registers, or counts, the prefix of every file
\* that it changes.
LEMMA InsertKeeps ==
  ASSUME StorageTypeOK, NEW batch, Batch(batch), NEW wrong \in Wrongs(batch),
         InsertData(batch, wrong)
  PROVE  /\ StorageTypeOK'
         /\ \A p \in Prefix : useCount'[p] >= useCount[p]
         /\ \A f \in Name : file'[f] # file[f] => useCount'[PrefixOf[f]] > 0
  <1> DEFINE Of(p) == {m \in Signalled(batch, wrong) : PrefixOf[batch[m].name] = p}
  <1>1. \A p \in Prefix : /\ useCount'[p] = useCount[p] + Cardinality(Of(p))
                          /\ useCount[p] \in Nat
                          /\ Cardinality(Of(p)) \in Nat
                          /\ Of(p) # {} => Cardinality(Of(p)) > 0
    <2> SUFFICES ASSUME NEW p \in Prefix
                 PROVE  /\ useCount'[p] = useCount[p] + Cardinality(Of(p))
                        /\ useCount[p] \in Nat
                        /\ Cardinality(Of(p)) \in Nat
                        /\ Of(p) # {} => Cardinality(Of(p)) > 0
      OBVIOUS
    <2>1. useCount'[p] = useCount[p] + Cardinality(Of(p)) /\ useCount[p] \in Nat
      BY DEF InsertData, StorageTypeOK
    <2>2. Of(p) \in SUBSET DOMAIN batch
      BY DEF Signalled
    <2> HIDE DEF Of
    <2> QED
      BY <2>1, <2>2, PartsFinite
  <1>2. useCount' \in [Prefix -> Nat]
    <2>1. useCount' = [p \in Prefix |-> useCount[p] + Cardinality(Of(p))]
      BY DEF InsertData
    <2> HIDE DEF Of
    <2> QED
      BY <1>1, <2>1
  <1>3. file' = [f \in Name |-> FileAfter(batch, wrong, f)]
    BY DEF InsertData
  <1>4. file' \in [Name -> Content \cup {Absent, Torn}]
    BY <1>3, FileAfterShape
  <1>5. faults' \in 0 .. MaxFaults
    <2>1. faults' = faults - Cardinality(DOMAIN wrong)
      BY DEF InsertData
    <2> QED
      BY <2>1, WrongShape, FaultsAssumption DEF StorageTypeOK
  <1>6. ASSUME NEW f \in Name, file'[f] # file[f]
        PROVE  useCount'[PrefixOf[f]] > 0
    <2>1. PICK m \in Signalled(batch, wrong) : batch[m].name = f
      BY <1>3, <1>6, FileAfterShape
    <2>2. PrefixOf[f] \in Prefix
      BY PrefixOfAssumption
    <2>3. m \in Of(PrefixOf[f])
      BY <2>1
    <2> HIDE DEF Of
    <2> QED
      BY <1>1, <2>2, <2>3
  <1>7. \A p \in Prefix : useCount'[p] >= useCount[p]
    <2> HIDE DEF Of
    <2> QED
      BY <1>1
  <1>8. UNCHANGED <<method, manifest>>
    BY DEF InsertData
  <1> QED
    BY <1>2, <1>4, <1>5, <1>6, <1>7, <1>8 DEF StorageTypeOK

\* To insert no packets changes nothing.
LEMMA InsertNothing ==
  ASSUME StorageTypeOK, NEW batch, DOMAIN batch = {}, NEW wrong \in Wrongs(batch),
         InsertData(batch, wrong)
  PROVE  UNCHANGED storageVars
  <1>1. DOMAIN wrong = {} /\ Cardinality({}) = 0
    BY FS_EmptySet DEF Wrongs
  <1>2. faults' = faults
    BY <1>1 DEF InsertData, StorageTypeOK
  <1>3. file' = file
    <2>1. \A f \in Name : FileAfter(batch, wrong, f) = file[f]
      BY DEF FileAfter
    <2> QED
      BY <2>1 DEF InsertData, StorageTypeOK
  <1>4. useCount' = useCount
    <2>1. Signalled(batch, wrong) = {}
      BY DEF Signalled
    <2>2. useCount' = [p \in Prefix |-> useCount[p] +
            Cardinality({m \in Signalled(batch, wrong) : PrefixOf[batch[m].name] = p})]
      BY DEF InsertData
    <2>3. \A p \in Prefix :
            {m \in Signalled(batch, wrong) : PrefixOf[batch[m].name] = p} = {}
      BY <2>1
    <2>4. useCount' = [p \in Prefix |-> useCount[p] + 0]
      BY <1>1, <2>2, <2>3
    <2> QED
      BY <2>4 DEF StorageTypeOK
  <1>5. UNCHANGED <<method, manifest>>
    BY DEF InsertData
  <1> QED
    BY <1>2, <1>3, <1>4, <1>5 DEF storageVars

-----------------------------------------------------------------------------
(* The streams and the buffers.                                            *)

\* The elements of a stream end at increasing positions.
LEMMA Ends ==
  ASSUME NEW c \in Conn
  PROVE  /\ Len(Stream[c]) \in Nat
         /\ DOMAIN Stream[c] = 1 .. Len(Stream[c])
         /\ \A i \in DOMAIN Stream[c] : Stream[c][i] \in Element
         /\ \A i \in 0 .. Len(Stream[c]) : End(c, i) \in Nat
         /\ \A i, k \in 0 .. Len(Stream[c]) : i < k => End(c, i) < End(c, k)
  <1>1. Stream[c] \in Seq(Element)
    BY StreamAssumption
  <1>2. /\ Len(Stream[c]) \in Nat
        /\ DOMAIN Stream[c] = 1 .. Len(Stream[c])
        /\ \A i \in DOMAIN Stream[c] : Stream[c][i] \in Element
    BY <1>1
  <1>3. \A i \in DOMAIN Stream[c] : Stream[c][i].end \in Nat
    BY <1>2 DEF Element
  <1>4. \A i \in DOMAIN Stream[c] :
          /\ Stream[c][i].end > 0
          /\ \A k \in DOMAIN Stream[c] : i < k => Stream[c][i].end < Stream[c][k].end
    BY StreamAssumption
  <1>5. \A i \in 0 .. Len(Stream[c]) : End(c, i) \in Nat
    BY <1>2, <1>3 DEF End
  <1>6. \A i, k \in 0 .. Len(Stream[c]) : i < k => End(c, i) < End(c, k)
    BY <1>2, <1>3, <1>4 DEF End
  <1> QED
    BY <1>2, <1>5, <1>6

\* The buffer begins where an element ends.
Aligned(c) == \E t \in 0 .. Len(Stream[c]) : End(c, t) = buffer[c].from

\* Then Taken is the number of that element, and of no other.
LEMMA TakenIs ==
  ASSUME NEW c \in Conn, Aligned(c)
  PROVE  /\ Taken(c) \in 0 .. Len(Stream[c])
         /\ End(c, Taken(c)) = buffer[c].from
         /\ \A t \in 0 .. Len(Stream[c]) : End(c, t) = buffer[c].from => t = Taken(c)
  <1>1. Taken(c) \in 0 .. Len(Stream[c]) /\ End(c, Taken(c)) = buffer[c].from
    BY DEF Aligned, Taken
  <1>2. ASSUME NEW t \in 0 .. Len(Stream[c]), End(c, t) = buffer[c].from
        PROVE  t = Taken(c)
    <2>1. ~ (t < Taken(c)) /\ ~ (Taken(c) < t)
      BY <1>1, <1>2, Ends
    <2> QED
      BY <1>1, <2>1, Ends
  <1> QED
    BY <1>1, <1>2

\* The same of the buffer after a step.
LEMMA TakenIsNext ==
  ASSUME NEW c \in Conn, NEW t \in 0 .. Len(Stream[c]), End(c, t) = buffer'[c].from
  PROVE  Aligned(c)' /\ Taken(c)' = t
  <1>1. Taken(c)' \in 0 .. Len(Stream[c]) /\ End(c, Taken(c)') = buffer'[c].from
    BY DEF Taken, End
  <1>2. ~ (t < Taken(c)') /\ ~ (Taken(c)' < t)
    BY <1>1, Ends
  <1> QED
    BY <1>1, <1>2, Ends DEF Aligned, End

\* The packets among some elements are a batch.
LEMMA PacketsBatch ==
  ASSUME NEW c \in Conn, NEW from \in Nat, NEW to \in 0 .. Len(Stream[c]), from >= 1
  PROVE  /\ Batch(Packets(c, from, to))
         /\ from > to => DOMAIN Packets(c, from, to) = {}
  <1> DEFINE batch == Packets(c, from, to)
  <1>1. Len(Stream[c]) \in Nat /\ to \in Nat
    BY Ends
  <1>2. /\ DOMAIN batch \subseteq from .. to
        /\ \A m \in DOMAIN batch : /\ batch[m].name = Stream[c][m].name
                                   /\ batch[m].content = Stream[c][m].content
    BY DEF Packets
  <1>3. \A m \in from .. to : Stream[c][m] \in Element
    BY <1>1, Ends
  <1>4. \A m \in DOMAIN batch : batch[m].name \in Name /\ batch[m].content \in Content
    BY <1>2, <1>3 DEF Element
  <1>5. DOMAIN batch \subseteq Nat /\ \A m \in DOMAIN batch : m <= to
    BY <1>1, <1>2
  <1> HIDE DEF batch
  <1>6. Batch(batch)
    BY <1>1, <1>4, <1>5 DEF Batch
  <1>7. ASSUME from > to
        PROVE  DOMAIN batch = {}
    <2>1. from .. to = {}
      BY <1>1, <1>7
    <2> QED
      BY <1>2, <2>1
  <1> QED
    BY <1>6, <1>7 DEF batch

\* So is a single packet.
LEMMA OneBatch ==
  ASSUME NEW f \in Name, NEW x \in Fetched
  PROVE  Batch(One(f, x))
  <1>1. DOMAIN One(f, x) = {1} /\ One(f, x)[1].name = f /\ One(f, x)[1].content = x
    BY DEF One
  <1>2. x \in Content
    BY FetchedAssumption
  <1> QED
    BY <1>1, <1>2 DEF Batch

-----------------------------------------------------------------------------
(* The inductive invariant.                                                *)

\* TypeOK says nothing of where a buffer may begin, nor of the buffers of
\* connections that have not been accepted.
ConnOK(c) ==
  /\ Aligned(c)
  /\ conn[c] = "waiting" => buffer[c] = [from |-> 0, size |-> 0]
  /\ conn[c] = "open" => Room(c) > 0 /\ ~ Complete(c, Taken(c) + 1, Arrived(c))
  /\ conn[c] = "refused" => Hopeless(c)

IInv ==
  /\ TypeOK
  /\ \A c \in Conn : ConnOK(c)
  /\ ServedSinceStart

\* The invariant holds initially.
LEMMA InitIInv == Init => IInv
  <1> SUFFICES ASSUME Init
               PROVE  IInv
    OBVIOUS
  <1> USE DEF Init, StorageInit, TcpInit
  <1>1. TypeOK
    BY FaultsAssumption, NodeBoundsAssumption, MaxPacketAssumption
      DEF TypeOK, StorageTypeOK, TcpTypeOK
  <1>2. \A c \in Conn : ConnOK(c)
    BY Ends DEF ConnOK, Aligned, End
  <1> QED
    BY <1>1, <1>2 DEF IInv, ServedSinceStart

\* A loop takes elements of the stream that lie in the buffer, and none that is
\* no TLV; the element after them is not there.
LEMMA LoopTakes ==
  ASSUME IInv, NEW c \in Conn, NEW to \in Nat, NEW last \in 0 .. Len(Stream[c]),
         Loop(c, to, last), to >= buffer[c].from
  PROVE  /\ last >= Taken(c)
         /\ End(c, last) >= buffer[c].from /\ End(c, last) <= to
         /\ last # Taken(c) => End(c, last) > buffer[c].from
         /\ \A i \in Taken(c) + 1 .. last : Stream[c][i].kind # "garbage"
         /\ ~ Complete(c, last + 1, to)
  <1>1. /\ Taken(c) \in 0 .. Len(Stream[c])
        /\ End(c, Taken(c)) = buffer[c].from
    BY TakenIs DEF IInv, ConnOK
  <1>2. last >= Taken(c) /\ ~ Complete(c, last + 1, to)
    BY DEF Loop
  <1>3. \A i \in Taken(c) + 1 .. last : Stream[c][i].kind # "garbage"
    BY DEF Loop, Complete
  <1>4. buffer[c].from \in Nat /\ Len(Stream[c]) \in Nat /\ End(c, last) \in Nat
    BY <1>1, Ends
  <1>5. CASE last = Taken(c)
    BY <1>1, <1>2, <1>3, <1>4, <1>5
  <1>6. CASE last > Taken(c)
    <2>1. last \in Taken(c) + 1 .. last /\ last # 0
      BY <1>1, <1>4, <1>6
    <2>2. Stream[c][last].end <= to
      BY <2>1 DEF Loop, Complete
    <2>3. End(c, last) <= to
      BY <2>1, <2>2 DEF End
    <2>4. End(c, last) > buffer[c].from
      BY <1>1, <1>4, <1>6, Ends
    <2> QED
      BY <1>2, <1>3, <1>4, <2>3, <2>4
  <1> QED
    BY <1>1, <1>2, <1>4, <1>5, <1>6

\* A step that leaves a connection's buffer alone may close the connection.
LEMMA ConnSame ==
  ASSUME NEW c \in Conn, ConnOK(c), buffer'[c] = buffer[c],
         conn'[c] \in {conn[c], "closed"}
  PROVE  ConnOK(c)'
  <1>1. Taken(c)' = Taken(c)
    BY DEF Taken, End
  <1>2. Aligned(c)' /\ Room(c)' = Room(c) /\ Arrived(c)' = Arrived(c)
    BY DEF ConnOK, Aligned, End, Room, Arrived
  <1>3. Complete(c, Taken(c) + 1, Arrived(c))' = Complete(c, Taken(c) + 1, Arrived(c))
    BY <1>1, <1>2 DEF Complete
  <1>4. Hopeless(c)' = Hopeless(c)
    BY <1>1 DEF Hopeless, End
  <1> QED
    BY <1>2, <1>3, <1>4 DEF ConnOK

\* What a process has inserted stays registered as long as no count goes down
\* and every file that is written anew is registered.
LEMMA RecordKeeps ==
  ASSUME IInv, Record, \A p \in Prefix : useCount'[p] >= useCount[p],
         StorageTypeOK',
         \A f \in Name : file'[f] # file[f] =>
           file'[f] = Absent \/ useCount'[PrefixOf[f]] > 0
  PROVE  fresh' \subseteq Name /\ ServedSinceStart'
  <1>1. fresh' \subseteq Name
    BY DEF IInv, TypeOK, Record, Written
  <1>2. ASSUME NEW f \in fresh', file'[f] # Absent
        PROVE  useCount'[PrefixOf[f]] > 0
    <2>1. f \in Name /\ PrefixOf[f] \in Prefix
      BY <1>1, PrefixOfAssumption
    <2>2. useCount[PrefixOf[f]] \in Nat /\ useCount'[PrefixOf[f]] \in Nat
      BY <2>1 DEF IInv, TypeOK, StorageTypeOK
    <2>3. CASE file'[f] # file[f]
      BY <1>2, <2>1, <2>3
    <2>4. CASE file'[f] = file[f]
      <3>1. f \in fresh
        BY <2>4 DEF Record, Written
      <3>2. useCount[PrefixOf[f]] > 0
        BY <1>2, <2>4, <3>1 DEF IInv, ServedSinceStart
      <3> QED
        BY <2>1, <2>2, <3>2
    <2> QED
      BY <2>3, <2>4
  <1> QED
    BY <1>1, <1>2 DEF ServedSinceStart

\* A receive keeps the invariant of its connection: a buffer that is still full
\* has been refused for an element that can never be taken.
LEMMA ReceiveConnOK ==
  ASSUME IInv, NEW c \in Conn, NEW n \in Sizes(c), conn[c] = "open",
         NEW last \in 0 .. Len(Stream[c]), Loop(c, Arrived(c) + n, last),
         buffer'[c] = Rest(c, n, last),
         conn'[c] = IF Overfull(buffer[c].size + n, last - Taken(c)) THEN "refused" ELSE "open"
  PROVE  ConnOK(c)' /\ buffer'[c] \in [from : Nat, size : 0 .. MaxPacket]
  <1> DEFINE from == buffer[c].from
             size == buffer[c].size
             to == Arrived(c) + n
             t == Taken(c)
  <1>1. /\ from \in Nat /\ size \in 0 .. MaxPacket
        /\ MaxPacket \in Nat /\ MaxPacket > 0
    BY MaxPacketAssumption DEF IInv, TypeOK, TcpTypeOK
  <1>2. size < MaxPacket /\ Room(c) = MaxPacket - size
    BY <1>1 DEF IInv, ConnOK, Room
  <1>3. /\ n \in Nat /\ n >= 1 /\ n <= MaxPacket - size
        /\ to = from + size + n /\ to \in Nat /\ to <= End(c, Len(Stream[c]))
    BY <1>1, <1>2 DEF Sizes, Arrived
  <1>4. /\ t \in 0 .. Len(Stream[c]) /\ End(c, t) = from /\ Len(Stream[c]) \in Nat
        /\ DOMAIN Stream[c] = 1 .. Len(Stream[c])
    BY TakenIs, Ends DEF IInv, ConnOK
  <1>5. /\ last >= t
        /\ End(c, last) >= from /\ End(c, last) <= to
        /\ last # t => End(c, last) > from
        /\ ~ Complete(c, last + 1, to)
    BY <1>1, <1>3, LoopTakes
  <1>6. End(c, last) \in Nat
    BY Ends
  <1>7. buffer'[c] = [from |-> End(c, last), size |-> to - End(c, last)]
    BY <1>1, <1>3, <1>6 DEF Rest, Arrived
  <1> HIDE DEF to
  <1>8. Aligned(c)' /\ Taken(c)' = last
    BY <1>7, TakenIsNext
  <1>9. Arrived(c)' = to
    BY <1>3, <1>6, <1>7 DEF Arrived
  <1>10. ~ Complete(c, Taken(c) + 1, Arrived(c))'
    BY <1>5, <1>8, <1>9 DEF Complete
  <1>11. CASE Overfull(size + n, last - t)
    <2>1. last = t /\ size + n = MaxPacket
      BY <1>4, <1>11 DEF Overfull
    <2>2. t < Len(Stream[c])
      BY <1>1, <1>3, <1>4, <2>1
    <2>3. t + 1 \in DOMAIN Stream[c] /\ Stream[c][t + 1].end \in Nat
      <3>1. t + 1 \in DOMAIN Stream[c]
        BY <1>4, <2>2
      <3> QED
        BY <3>1, Ends DEF Element
    <2>4. \/ Stream[c][t + 1].kind = "garbage"
          \/ Stream[c][t + 1].end > to
      BY <1>3, <1>5, <2>1, <2>3 DEF Complete
    <2>5. Stream[c][t + 1].end > to => Stream[c][t + 1].end - End(c, t) > MaxPacket
      <3>1. to = from + MaxPacket
        BY <1>1, <1>3, <2>1
      <3> HIDE DEF from, size, t
      <3> QED
        BY <1>1, <1>4, <2>3, <3>1
    <2>6. Hopeless(c)'
      BY <1>8, <2>1, <2>2, <2>4, <2>5 DEF Hopeless, End
    <2>7. buffer'[c] \in [from : Nat, size : 0 .. MaxPacket]
      <3>1. to - End(c, last) = MaxPacket
        BY <1>1, <1>3, <1>4, <2>1
      <3> QED
        BY <1>1, <1>6, <1>7, <3>1
    <2> QED
      BY <1>8, <1>11, <2>6, <2>7 DEF ConnOK
  <1>12. CASE ~ Overfull(size + n, last - t)
    <2>1. to - End(c, last) < MaxPacket /\ to - End(c, last) \in Nat
      <3>1. ~ (last = t /\ size + n = MaxPacket)
        BY <1>4, <1>12 DEF Overfull
      <3> HIDE DEF from, size, t
      <3> QED
        BY <1>1, <1>3, <1>4, <1>5, <1>6, <3>1
    <2>2. Room(c)' > 0
      BY <1>1, <1>7, <2>1 DEF Room
    <2> QED
      BY <1>1, <1>6, <1>7, <1>8, <1>10, <1>12, <2>1, <2>2 DEF ConnOK
  <1> QED
    BY <1>11, <1>12

\* The step of a whole receive.
LEMMA ReceiveIInv ==
  ASSUME IInv, NEW c \in Conn, Receive(c)
  PROVE  IInv'
  <1>1. PICK n \in Sizes(c) : HandleReceive(c, n)
    BY DEF Receive
  <1>2. PICK last \in 0 .. Len(Stream[c]) :
          /\ Loop(c, Arrived(c) + n, last)
          /\ LET batch == Packets(c, Taken(c) + 1, last)
             IN  \E wrong \in Wrongs(batch) : InsertData(batch, wrong)
          /\ conn' = [conn EXCEPT ![c] =
               IF Overfull(buffer[c].size + n, last - Taken(c)) THEN "refused" ELSE @]
          /\ buffer' = [buffer EXCEPT ![c] = Rest(c, n, last)]
    BY <1>1 DEF HandleReceive
  <1>3. conn[c] = "open" /\ UNCHANGED <<accepting, running, kills, deleting>> /\ Record
    BY <1>1 DEF HandleReceive, Receive, Stays
  <1>4. TypeOK /\ TcpTypeOK /\ StorageTypeOK /\ \A d \in Conn : ConnOK(d)
    BY DEF IInv, TypeOK
  <1>5. /\ buffer'[c] = Rest(c, n, last)
        /\ conn'[c] = IF Overfull(buffer[c].size + n, last - Taken(c)) THEN "refused" ELSE "open"
        /\ \A d \in Conn : d # c => buffer'[d] = buffer[d] /\ conn'[d] = conn[d]
    BY <1>2, <1>3, <1>4 DEF TcpTypeOK
  <1>6. ConnOK(c)' /\ buffer'[c] \in [from : Nat, size : 0 .. MaxPacket]
    BY <1>2, <1>3, <1>5, ReceiveConnOK
  <1>7. \A d \in Conn : ConnOK(d)'
    <2>1. \A d \in Conn : d # c => ConnOK(d)'
      BY <1>4, <1>5, ConnSame
    <2> QED
      BY <1>6, <2>1
  <1>8. TcpTypeOK'
    BY <1>2, <1>3, <1>4, <1>5, <1>6 DEF TcpTypeOK
  <1>9. Taken(c) \in 0 .. Len(Stream[c]) /\ Len(Stream[c]) \in Nat
    BY <1>4, TakenIs, Ends DEF ConnOK
  <1>10. PICK t \in 0 .. Len(Stream[c]) : t = Taken(c)
    BY <1>9
  <1>11. Batch(Packets(c, t + 1, last))
    BY <1>9, <1>10, PacketsBatch
  <1>12. PICK wrong \in Wrongs(Packets(c, t + 1, last)) :
           InsertData(Packets(c, t + 1, last), wrong)
    BY <1>2, <1>10
  <1>13. /\ StorageTypeOK'
         /\ \A p \in Prefix : useCount'[p] >= useCount[p]
         /\ \A f \in Name : file'[f] # file[f] => useCount'[PrefixOf[f]] > 0
    BY <1>4, <1>11, <1>12, InsertKeeps
  <1>14. fresh' \subseteq Name /\ ServedSinceStart'
    BY <1>3, <1>13, RecordKeeps
  <1>15. TypeOK'
    BY <1>3, <1>4, <1>8, <1>13, <1>14 DEF TypeOK
  <1> QED
    BY <1>7, <1>14, <1>15 DEF IInv

\* The connections and their buffers when the process ends between two handlers.
LEMMA HangupConn ==
  ASSUME IInv, Hangup, UNCHANGED <<buffer, accepting>>
  PROVE  TcpTypeOK' /\ \A c \in Conn : ConnOK(c)'
  <1>1. TcpTypeOK /\ \A c \in Conn : ConnOK(c)
    BY DEF IInv, TypeOK
  <1>2. TcpTypeOK' /\ \A c \in Conn : conn'[c] \in {conn[c], "closed"}
    BY <1>1 DEF Hangup, TcpTypeOK
  <1> QED
    BY <1>1, <1>2, ConnSame

\* A process that is killed in a receive has taken the elements up to k.
LEMMA KilledReceivingAt ==
  ASSUME IInv, NEW c \in Conn, NEW n \in Sizes(c), KilledReceiving(c, n)
  PROVE  \E last \in 0 .. Len(Stream[c]), k \in 0 .. Len(Stream[c]) :
           /\ Loop(c, Arrived(c) + n, last)
           /\ k \in Taken(c) + 1 .. last
           /\ [m \in {k} |-> "torn"] \in Wrongs(Packets(c, Taken(c) + 1, k))
           /\ InsertData(Packets(c, Taken(c) + 1, k), [m \in {k} |-> "torn"])
           /\ buffer' = [buffer EXCEPT ![c] = [from |-> End(c, k), size |-> 0]]
  <1>1. Taken(c) \in 0 .. Len(Stream[c]) /\ Len(Stream[c]) \in Nat
    BY TakenIs, Ends DEF IInv, ConnOK
  <1>2. PICK last \in 0 .. Len(Stream[c]) :
          /\ Loop(c, Arrived(c) + n, last)
          /\ \E k \in Taken(c) + 1 .. last :
               /\ [m \in {k} |-> "torn"] \in Wrongs(Packets(c, Taken(c) + 1, k))
               /\ InsertData(Packets(c, Taken(c) + 1, k), [m \in {k} |-> "torn"])
               /\ buffer' = [buffer EXCEPT ![c] = [from |-> End(c, k), size |-> 0]]
    BY DEF KilledReceiving
  <1>3. PICK k \in Taken(c) + 1 .. last :
          /\ [m \in {k} |-> "torn"] \in Wrongs(Packets(c, Taken(c) + 1, k))
          /\ InsertData(Packets(c, Taken(c) + 1, k), [m \in {k} |-> "torn"])
          /\ buffer' = [buffer EXCEPT ![c] = [from |-> End(c, k), size |-> 0]]
    BY <1>2
  <1>4. k \in 0 .. Len(Stream[c])
    BY <1>1
  <1> QED
    BY <1>2, <1>3, <1>4

\* Its connection ...
LEMMA KilledReceivingConn ==
  ASSUME IInv, Hangup, UNCHANGED accepting,
         NEW c \in Conn, NEW n \in Sizes(c), KilledReceiving(c, n)
  PROVE  TcpTypeOK' /\ \A d \in Conn : ConnOK(d)'
  <1>1. TcpTypeOK /\ \A d \in Conn : ConnOK(d)
    BY DEF IInv, TypeOK
  <1>2. PICK k \in 0 .. Len(Stream[c]) :
          buffer' = [buffer EXCEPT ![c] = [from |-> End(c, k), size |-> 0]]
    BY KilledReceivingAt
  <1>3. conn[c] = "open"
    BY DEF KilledReceiving
  <1>4. /\ buffer'[c] = [from |-> End(c, k), size |-> 0]
        /\ conn'[c] = "closed"
        /\ \A d \in Conn : conn'[d] \in {conn[d], "closed"}
        /\ \A d \in Conn : d # c => buffer'[d] = buffer[d]
    BY <1>1, <1>2, <1>3 DEF Hangup, TcpTypeOK
  <1>5. End(c, k) \in Nat /\ 0 \in 0 .. MaxPacket
    BY Ends, MaxPacketAssumption
  <1>6. TcpTypeOK'
    <2>1. conn' \in [Conn -> {"waiting", "open", "closed", "refused"}]
      BY <1>1 DEF Hangup, TcpTypeOK
    <2>2. buffer' \in [Conn -> [from : Nat, size : 0 .. MaxPacket]]
      BY <1>1, <1>2, <1>5 DEF TcpTypeOK
    <2> QED
      BY <1>1, <2>1, <2>2 DEF TcpTypeOK
  <1>7. ConnOK(c)'
    BY <1>4, TakenIsNext DEF ConnOK
  <1>8. \A d \in Conn : d # c => ConnOK(d)'
    BY <1>1, <1>4, ConnSame
  <1> QED
    BY <1>6, <1>7, <1>8

\* ... and its storage.
LEMMA KilledStorage ==
  ASSUME IInv, NEW c \in Conn, NEW n \in Sizes(c), KilledReceiving(c, n)
  PROVE  /\ StorageTypeOK'
         /\ \A p \in Prefix : useCount'[p] >= useCount[p]
         /\ \A f \in Name : file'[f] # file[f] => useCount'[PrefixOf[f]] > 0
  <1>1. PICK k \in 0 .. Len(Stream[c]) :
          /\ [m \in {k} |-> "torn"] \in Wrongs(Packets(c, Taken(c) + 1, k))
          /\ InsertData(Packets(c, Taken(c) + 1, k), [m \in {k} |-> "torn"])
    BY KilledReceivingAt
  <1>2. StorageTypeOK /\ ConnOK(c)
    BY DEF IInv, TypeOK
  <1>3. Taken(c) \in 0 .. Len(Stream[c]) /\ Len(Stream[c]) \in Nat
    BY <1>2, TakenIs, Ends DEF ConnOK
  <1>4. PICK t \in 0 .. Len(Stream[c]) : t = Taken(c)
    BY <1>3
  <1>5. Batch(Packets(c, t + 1, k))
    BY <1>3, PacketsBatch
  <1> QED
    BY <1>1, <1>2, <1>4, <1>5, InsertKeeps

\* A step that changes neither the storage nor the history.
LEMMA StorageSame ==
  ASSUME IInv, UNCHANGED <<storageVars, fresh>>
  PROVE  StorageTypeOK' /\ fresh' \subseteq Name /\ ServedSinceStart'
  <1>1. UNCHANGED <<method, file, manifest, useCount, faults, fresh>>
    BY DEF storageVars
  <1> QED
    BY <1>1 DEF IInv, TypeOK, StorageTypeOK, ServedSinceStart

\* With an unchanged storage, Record has nothing to record.
LEMMA NothingRecorded ==
  ASSUME UNCHANGED storageVars, Record
  PROVE  UNCHANGED fresh
  BY DEF storageVars, Record, Written

\* Each action keeps it: a connection is accepted,
LEMMA AcceptIInv ==
  ASSUME IInv, Accept
  PROVE  IInv'
  <1>1. TcpTypeOK /\ \A c \in Conn : ConnOK(c)
    BY DEF IInv, TypeOK
  <1>2. UNCHANGED <<storageVars, buffer, running, kills, deleting, fresh>>
    BY NothingRecorded DEF Accept, Stays, HandleAccept, HandleAcceptError
  <1>3. TcpTypeOK' /\ \A c \in Conn : ConnOK(c)'
    <2>1. CASE HandleAcceptError
      <3>1. TcpTypeOK' /\ \A c \in Conn : conn'[c] = conn[c]
        BY <1>1, <2>1 DEF HandleAcceptError, TcpTypeOK
      <3> QED
        BY <1>1, <1>2, <3>1, ConnSame
    <2>2. ASSUME NEW c \in Conn, HandleAccept(c)
          PROVE  TcpTypeOK' /\ \A d \in Conn : ConnOK(d)'
      <3>1. /\ TcpTypeOK'
            /\ conn'[c] = "open"
            /\ \A d \in Conn : d # c => conn'[d] = conn[d]
        BY <1>1, <2>2 DEF HandleAccept, TcpTypeOK
      <3>2. buffer'[c] = [from |-> 0, size |-> 0]
        BY <1>1, <1>2, <2>2 DEF HandleAccept, ConnOK
      <3>3. Aligned(c)' /\ Taken(c)' = 0
        <4>1. 0 \in 0 .. Len(Stream[c]) /\ End(c, 0) = 0
          BY Ends DEF End
        <4> QED
          BY <3>2, <4>1, TakenIsNext
      <3>4. Room(c)' > 0 /\ Arrived(c)' = 0
        BY <3>2, MaxPacketAssumption DEF Room, Arrived
      <3>5. ~ Complete(c, 1, 0)
        <4>1. 1 \in DOMAIN Stream[c] => Stream[c][1].end > 0 /\ Stream[c][1].end \in Nat
          BY Ends, StreamAssumption DEF Element
        <4> QED
          BY <4>1 DEF Complete
      <3>6. ~ Complete(c, Taken(c) + 1, Arrived(c))'
        BY <3>3, <3>4, <3>5 DEF Complete
      <3>7. ConnOK(c)'
        BY <3>1, <3>3, <3>4, <3>6 DEF ConnOK
      <3>8. \A d \in Conn : d # c => ConnOK(d)'
        BY <1>1, <1>2, <3>1, ConnSame
      <3> QED
        BY <3>1, <3>7, <3>8
    <2> QED
      BY <2>1, <2>2 DEF Accept
  <1> QED
    BY <1>2, <1>3, StorageSame DEF IInv, TypeOK

\* a receive fails,
LEMMA ReceiveErrorIInv ==
  ASSUME IInv, NEW c \in Conn, ReceiveError(c)
  PROVE  IInv'
  <1>1. TcpTypeOK /\ \A d \in Conn : ConnOK(d)
    BY DEF IInv, TypeOK
  <1>2. UNCHANGED <<storageVars, buffer, accepting, running, kills, deleting, fresh>>
    BY NothingRecorded DEF ReceiveError, Stays, HandleReceiveError
  <1>3. TcpTypeOK' /\ \A d \in Conn : conn'[d] \in {conn[d], "closed"}
    BY <1>1, <1>2 DEF ReceiveError, HandleReceiveError, TcpTypeOK
  <1>4. \A d \in Conn : ConnOK(d)'
    BY <1>1, <1>2, <1>3, ConnSame
  <1> QED
    BY <1>2, <1>3, <1>4, StorageSame DEF IInv, TypeOK

\* a segment that was fetched is inserted,
LEMMA OnSegmentDataIInv ==
  ASSUME IInv, NEW f \in Name, NEW x \in Fetched, OnSegmentData(f, x)
  PROVE  IInv'
  <1>1. StorageTypeOK /\ TcpTypeOK /\ \A c \in Conn : ConnOK(c)
    BY DEF IInv, TypeOK
  <1>2. PICK wrong \in Wrongs(One(f, x)) : InsertData(One(f, x), wrong)
    BY DEF OnSegmentData
  <1>3. /\ StorageTypeOK'
        /\ \A p \in Prefix : useCount'[p] >= useCount[p]
        /\ \A g \in Name : file'[g] # file[g] => useCount'[PrefixOf[g]] > 0
    BY <1>1, <1>2, OneBatch, InsertKeeps
  <1>4. fresh' \subseteq Name /\ ServedSinceStart'
    BY <1>3, RecordKeeps DEF OnSegmentData
  <1>5. UNCHANGED <<buffer, accepting, kills, deleting>> /\ running' \in BOOLEAN
        /\ (Hangup \/ UNCHANGED conn)
    BY DEF OnSegmentData, Exit, IInv, TypeOK
  <1>6. TcpTypeOK' /\ \A c \in Conn : ConnOK(c)'
    <2>1. CASE Hangup
      BY <1>5, <2>1, HangupConn
    <2>2. CASE UNCHANGED conn
      BY <1>1, <1>5, <2>2, ConnSame DEF TcpTypeOK
    <2> QED
      BY <1>5, <2>1, <2>2
  <1> QED
    BY <1>3, <1>4, <1>5, <1>6 DEF IInv, TypeOK

\* packets are deleted,
LEMMA HandleDeleteDataCommandIInv ==
  ASSUME IInv, NEW f \in Name, HandleDeleteDataCommand(f)
  PROVE  IInv'
  <1>1. StorageTypeOK /\ TcpTypeOK /\ \A c \in Conn : ConnOK(c)
    BY DEF IInv, TypeOK
  <1>2. UNCHANGED <<tcpVars, method, manifest, useCount, faults, running, kills, deleting>>
        /\ Record
        /\ file' = [file EXCEPT ![f] = Absent]
    BY DEF HandleDeleteDataCommand, DeleteData, Stays
  <1>3. StorageTypeOK' /\ \A p \in Prefix : useCount'[p] >= useCount[p]
    BY <1>1, <1>2 DEF StorageTypeOK
  <1>4. \A g \in Name : file'[g] # file[g] => file'[g] = Absent
    BY <1>1, <1>2 DEF StorageTypeOK
  <1>5. fresh' \subseteq Name /\ ServedSinceStart'
    BY <1>2, <1>3, <1>4, RecordKeeps
  <1>6. TcpTypeOK' /\ \A c \in Conn : ConnOK(c)'
    BY <1>1, <1>2, ConnSame DEF tcpVars, TcpTypeOK
  <1> QED
    BY <1>2, <1>3, <1>5, <1>6 DEF IInv, TypeOK

\* The ways in which a torn file ends the process.
LEMMA TornReadIInv ==
  ASSUME IInv, Exit, UNCHANGED <<storageVars, buffer, accepting, kills, deleting, fresh>>
  PROVE  IInv'
  <1>1. TcpTypeOK' /\ \A c \in Conn : ConnOK(c)'
    BY HangupConn DEF Exit
  <1>2. running' \in BOOLEAN /\ kills' \in 0 .. MaxKills
    BY DEF Exit, IInv, TypeOK
  <1> QED
    BY <1>1, <1>2, StorageSame DEF IInv, TypeOK

\* What is done to a manifest leaves the packets and prefixes alone.
LEMMA ManifestWritten ==
  ASSUME StorageTypeOK, NEW h \in Hash,
         \/ InsertManifest(h)
         \/ DeleteManifest(h)
         \/ \E wrong : InsertManifestWrong(h, wrong)
  PROVE  StorageTypeOK' /\ UNCHANGED <<file, useCount>>
  <1>1. UNCHANGED <<method, file, useCount>>
    BY DEF InsertManifest, DeleteManifest, InsertManifestWrong
  <1>2. manifest' \in [Hash -> {Whole, Absent, Torn}]
    BY DEF StorageTypeOK, InsertManifest, DeleteManifest, InsertManifestWrong
  <1>3. faults' \in 0 .. MaxFaults
    BY FaultsAssumption DEF StorageTypeOK, InsertManifest, DeleteManifest, InsertManifestWrong
  <1> QED
    BY <1>1, <1>2, <1>3 DEF StorageTypeOK

\* The handlers of manifests.
ManifestStep(h) ==
  \/ OnManifestValidated(h)
  \/ ReadManifest(h)
  \/ HandleDeleteManifestCommand(h)
  \/ OnDeleteDataCommandResponse(h)
  \/ HandleOnlyDeleteManifestCommand(h)

\* a manifest is read, saved or deleted,
LEMMA ManifestStepIInv ==
  ASSUME IInv, NEW h \in Hash, ManifestStep(h)
  PROVE  IInv'
  <1>1. StorageTypeOK /\ TcpTypeOK /\ \A c \in Conn : ConnOK(c)
    BY DEF IInv, TypeOK
  <1>2. CASE ReadManifest(h)
    BY <1>2, TornReadIInv DEF ReadManifest
  <1>3. CASE ~ ReadManifest(h)
    <2>1. /\ UNCHANGED <<buffer, accepting, kills, fresh>>
          /\ running' \in BOOLEAN /\ deleting' \subseteq Hash
          /\ Hangup \/ UNCHANGED conn
      BY <1>3 DEF ManifestStep, OnManifestValidated, HandleDeleteManifestCommand,
        OnDeleteDataCommandResponse, HandleOnlyDeleteManifestCommand, Exit, tcpVars,
        IInv, TypeOK
    <2>2. \/ UNCHANGED storageVars
          \/ InsertManifest(h)
          \/ DeleteManifest(h)
          \/ \E wrong : InsertManifestWrong(h, wrong)
      BY <1>3 DEF ManifestStep, OnManifestValidated, HandleDeleteManifestCommand,
        OnDeleteDataCommandResponse, HandleOnlyDeleteManifestCommand
    <2>3. StorageTypeOK' /\ UNCHANGED <<file, useCount>>
      <3>1. CASE UNCHANGED storageVars
        BY <1>1, <3>1 DEF storageVars, StorageTypeOK
      <3> QED
        BY <1>1, <2>2, <3>1, ManifestWritten
    <2>4. fresh' \subseteq Name /\ ServedSinceStart'
      BY <2>1, <2>3 DEF IInv, TypeOK, ServedSinceStart
    <2>5. TcpTypeOK' /\ \A c \in Conn : ConnOK(c)'
      <3>1. CASE Hangup
        BY <2>1, <3>1, HangupConn
      <3>2. CASE UNCHANGED conn
        BY <1>1, <2>1, <3>2, ConnSame DEF TcpTypeOK
      <3> QED
        BY <2>1, <3>1, <3>2
    <2> QED
      BY <2>1, <2>3, <2>4, <2>5 DEF IInv, TypeOK
  <1> QED
    BY <1>2, <1>3

\* the process is killed,
LEMMA KillIInv ==
  ASSUME IInv, Kill
  PROVE  IInv'
  <1>1. StorageTypeOK
    BY DEF IInv, TypeOK
  <1>2. running' \in BOOLEAN /\ kills' \in 0 .. MaxKills
        /\ Hangup /\ UNCHANGED <<accepting, deleting>> /\ Record
    <2>1. kills \in 0 .. MaxKills /\ MaxKills \in Nat /\ kills > 0 /\ kills' = kills - 1
      BY NodeBoundsAssumption DEF Kill, IInv, TypeOK
    <2>2. kills' \in 0 .. MaxKills
      BY <2>1
    <2> QED
      BY <2>2 DEF Kill, Exit
  <1>3. CASE UNCHANGED <<storageVars, buffer>>
    <2>1. TcpTypeOK' /\ \A c \in Conn : ConnOK(c)'
      BY <1>2, <1>3, HangupConn
    <2>2. UNCHANGED <<storageVars, fresh>>
      BY <1>2, <1>3, NothingRecorded
    <2> QED
      BY <1>2, <2>1, <2>2, StorageSame DEF IInv, TypeOK
  <1>4. CASE KilledFetching /\ UNCHANGED buffer
    <2>1. TcpTypeOK' /\ \A c \in Conn : ConnOK(c)'
      BY <1>2, <1>4, HangupConn
    <2>2. PICK f \in Name, x \in Fetched :
            /\ [m \in {1} |-> "torn"] \in Wrongs(One(f, x))
            /\ InsertData(One(f, x), [m \in {1} |-> "torn"])
      BY <1>4 DEF KilledFetching
    <2>3. /\ StorageTypeOK'
          /\ \A p \in Prefix : useCount'[p] >= useCount[p]
          /\ \A g \in Name : file'[g] # file[g] => useCount'[PrefixOf[g]] > 0
      BY <1>1, <2>2, OneBatch, InsertKeeps
    <2>4. fresh' \subseteq Name /\ ServedSinceStart'
      BY <1>2, <2>3, RecordKeeps
    <2> QED
      BY <1>2, <2>1, <2>3, <2>4 DEF IInv, TypeOK
  <1>5. ASSUME NEW c \in Conn, NEW n \in Sizes(c), KilledReceiving(c, n)
        PROVE  IInv'
    <2>1. TcpTypeOK' /\ \A d \in Conn : ConnOK(d)'
      BY <1>2, <1>5, KilledReceivingConn
    <2>2. /\ StorageTypeOK'
          /\ \A p \in Prefix : useCount'[p] >= useCount[p]
          /\ \A g \in Name : file'[g] # file[g] => useCount'[PrefixOf[g]] > 0
      BY <1>5, KilledStorage
    <2>3. fresh' \subseteq Name /\ ServedSinceStart'
      BY <1>2, <2>2, RecordKeeps
    <2> QED
      BY <1>2, <2>1, <2>2, <2>3 DEF IInv, TypeOK
  <1>6. CASE KilledSaving /\ UNCHANGED buffer
    <2>1. PICK h \in Hash : InsertManifestWrong(h, "torn")
      BY <1>6 DEF KilledSaving
    <2>2. StorageTypeOK' /\ UNCHANGED <<file, useCount>>
      BY <1>1, <2>1, ManifestWritten
    <2>3. TcpTypeOK' /\ \A c \in Conn : ConnOK(c)'
      BY <1>2, <1>6, HangupConn
    <2>4. fresh' \subseteq Name /\ ServedSinceStart'
      BY <1>1, <1>2, <2>2, RecordKeeps DEF StorageTypeOK
    <2> QED
      BY <1>2, <2>2, <2>3, <2>4 DEF IInv, TypeOK
  <1> QED
    BY <1>3, <1>4, <1>5, <1>6 DEF Kill

\* and is started again.
LEMMA RestartIInv ==
  ASSUME IInv, Restart
  PROVE  IInv'
  <1>1. StorageTypeOK /\ TcpTypeOK /\ \A c \in Conn : ConnOK(c)
    BY DEF IInv, TypeOK
  <1>2. /\ UNCHANGED <<conn, buffer, kills, method, file, manifest, faults>>
        /\ running' \in BOOLEAN /\ accepting' \in BOOLEAN /\ fresh' = {} /\ deleting' = {}
        /\ useCount' = [p \in Prefix |-> 0]
    BY DEF Restart, StorageRestart
  <1>3. StorageTypeOK' /\ TcpTypeOK'
    BY <1>1, <1>2 DEF StorageTypeOK, TcpTypeOK
  <1>4. \A c \in Conn : ConnOK(c)'
    BY <1>1, <1>2, ConnSame
  <1> QED
    BY <1>2, <1>3, <1>4 DEF IInv, TypeOK, ServedSinceStart

\* Every step keeps the invariant.
LEMMA NextIInv ==
  ASSUME IInv, [Next]_vars
  PROVE  IInv'
  <1>1. CASE HandleInfoCommand \/ \E f \in Name : OnInterest(f)
    BY <1>1, TornReadIInv DEF HandleInfoCommand, OnInterest
  <1>2. CASE UNCHANGED vars
    <2>1. UNCHANGED <<storageVars, conn, buffer, accepting, running, kills, deleting, fresh>>
      BY <1>2 DEF vars, tcpVars
    <2>2. \A c \in Conn : ConnOK(c)'
      BY <2>1, ConnSame DEF IInv
    <2> QED
      BY <2>1, <2>2, StorageSame DEF IInv, TypeOK, TcpTypeOK
  <1>3. CASE \E h \in Hash : ManifestStep(h)
    BY <1>3, ManifestStepIInv
  <1> QED
    BY <1>1, <1>2, <1>3, AcceptIInv, ReceiveIInv, ReceiveErrorIInv, OnSegmentDataIInv,
       HandleDeleteDataCommandIInv, KillIInv, RestartIInv DEF Next, ManifestStep

\* So it holds in every state.
LEMMA IInvAlways == Spec => []IInv
  BY InitIInv, NextIInv, PTL DEF Spec

\* However the streams are cut into receives (handleReceive): a connection that
\* waits has room for a byte and no complete element in its buffer, it is closed
\* only for an element that could never be taken, and every packet inserted
\* since the process started has a registered prefix (onDataInserted).
THEOREM BufferAlways ==
  Spec => [](TypeOK /\ RoomLeft /\ NothingWaits /\ RefusedHasCause /\ ServedSinceStart)
  <1>1. IInv => TypeOK /\ RoomLeft /\ NothingWaits /\ RefusedHasCause /\ ServedSinceStart
    BY DEF IInv, ConnOK, RoomLeft, NothingWaits, RefusedHasCause
  <1> QED
    BY <1>1, IInvAlways, PTL

-----------------------------------------------------------------------------
(* The ends of a process.                                                  *)

\* As long as nothing has gone wrong, nothing is torn.
Untorn ==
  faults = MaxFaults => /\ \A f \in Name : file[f] # Torn
                        /\ \A h \in Hash : manifest[h] # Torn

\* Inserts keep it so, and those that go wrong use up a fault.
LEMMA InsertUntorn ==
  ASSUME StorageTypeOK, Untorn, NEW batch, Batch(batch), NEW wrong \in Wrongs(batch),
         InsertData(batch, wrong)
  PROVE  Untorn' /\ (DOMAIN wrong # {} => faults' < MaxFaults)
  <1>1. /\ DOMAIN wrong \in SUBSET DOMAIN batch
        /\ Cardinality(DOMAIN wrong) \in Nat
        /\ DOMAIN wrong # {} => Cardinality(DOMAIN wrong) > 0
    BY WrongShape, PartsFinite
  <1>2. /\ faults' = faults - Cardinality(DOMAIN wrong)
        /\ faults \in 0 .. MaxFaults /\ MaxFaults \in Nat
        /\ file' = [f \in Name |-> FileAfter(batch, wrong, f)]
        /\ manifest' = manifest
    BY FaultsAssumption DEF InsertData, StorageTypeOK
  <1>3. DOMAIN wrong # {} => faults' < MaxFaults
    BY <1>1, <1>2
  <1>4. ASSUME faults' = MaxFaults
        PROVE  (\A f \in Name : file'[f] # Torn) /\ \A h \in Hash : manifest'[h] # Torn
    <2>1. DOMAIN wrong = {}
      BY <1>2, <1>3, <1>4
    <2>2. faults = MaxFaults
      BY <1>1, <1>2, <1>4
    <2>3. \A f \in Name : FileAfter(batch, wrong, f) # Torn
      BY <2>1, <2>2, FileAfterShape DEF Untorn
    <2> QED
      BY <1>2, <2>2, <2>3 DEF Untorn
  <1> QED
    BY <1>3, <1>4 DEF Untorn

\* So do the steps of manifests.
LEMMA ManifestUntorn ==
  ASSUME StorageTypeOK, Untorn, NEW h \in Hash
  PROVE  /\ InsertManifest(h) \/ DeleteManifest(h) => Untorn'
         /\ \A wrong : InsertManifestWrong(h, wrong) => Untorn' /\ faults' < MaxFaults
  <1>1. ASSUME InsertManifest(h) \/ DeleteManifest(h)
        PROVE  Untorn'
    <2>1. UNCHANGED <<file, faults>>
          /\ \A g \in Hash : manifest'[g] \in {manifest[g], Whole, Absent}
      BY <1>1 DEF InsertManifest, DeleteManifest, StorageTypeOK
    <2> QED
      BY <2>1, FileAssumption DEF Untorn
  <1>2. ASSUME NEW wrong, InsertManifestWrong(h, wrong)
        PROVE  Untorn' /\ faults' < MaxFaults
    <2>1. faults' < MaxFaults /\ faults' # MaxFaults
      BY <1>2, FaultsAssumption DEF InsertManifestWrong, StorageTypeOK
    <2> QED
      BY <2>1 DEF Untorn
  <1> QED
    BY <1>1, <1>2

\* ExitHasCause with what makes it inductive.
Caused == Untorn /\ ExitHasCause

\* A receive ends the process or tears a file only after a fault.
LEMMA ReceiveCaused ==
  ASSUME IInv, Caused, NEW c \in Conn, Receive(c)
  PROVE  Caused'
  <1>1. PICK n \in Sizes(c) : HandleReceive(c, n)
    BY DEF Receive
  <1>2. PICK last \in 0 .. Len(Stream[c]) :
          \E wrong \in Wrongs(Packets(c, Taken(c) + 1, last)) :
            InsertData(Packets(c, Taken(c) + 1, last), wrong)
    BY <1>1 DEF HandleReceive
  <1>3. Taken(c) \in 0 .. Len(Stream[c]) /\ Len(Stream[c]) \in Nat
    BY TakenIs, Ends DEF IInv, ConnOK
  <1>4. PICK t \in 0 .. Len(Stream[c]) : t = Taken(c)
    BY <1>3
  <1>5. Batch(Packets(c, t + 1, last))
    BY <1>3, <1>4, PacketsBatch
  <1>6. Untorn'
    BY <1>2, <1>4, <1>5, InsertUntorn DEF IInv, TypeOK, Caused
  <1>7. running'
    BY DEF Receive, Stays
  <1> QED
    BY <1>6, <1>7 DEF Caused, ExitHasCause

\* So does the insert of a segment that was fetched.
LEMMA OnSegmentDataCaused ==
  ASSUME IInv, Caused, NEW f \in Name, NEW x \in Fetched, OnSegmentData(f, x)
  PROVE  Caused'
  <1>1. PICK wrong \in Wrongs(One(f, x)) :
          /\ InsertData(One(f, x), wrong)
          /\ IF 1 \in Signalled(One(f, x), wrong) THEN UNCHANGED <<conn, running>> ELSE Exit
    BY DEF OnSegmentData
  <1>2. Untorn' /\ (DOMAIN wrong # {} => faults' < MaxFaults)
    BY <1>1, OneBatch, InsertUntorn DEF IInv, TypeOK, Caused
  <1>3. 1 \notin Signalled(One(f, x), wrong) => DOMAIN wrong # {}
    BY DEF Signalled, One
  <1>4. running
    BY DEF OnSegmentData
  <1> QED
    BY <1>1, <1>2, <1>3, <1>4 DEF Caused, ExitHasCause

\* A torn file is read: there was a fault.
LEMMA TornReadCaused ==
  ASSUME IInv, Caused, UNCHANGED storageVars,
         (\E f \in Name : file[f] = Torn) \/ \E h \in Hash : manifest[h] = Torn
  PROVE  Caused'
  <1>1. UNCHANGED <<file, manifest, faults>>
    BY DEF storageVars
  <1>2. faults < MaxFaults
    BY FaultsAssumption DEF Caused, Untorn, IInv, TypeOK, StorageTypeOK
  <1> QED
    BY <1>1, <1>2 DEF Caused, Untorn, ExitHasCause

\* So does what is done with a manifest.
LEMMA ManifestStepCaused ==
  ASSUME IInv, Caused, NEW h \in Hash, ManifestStep(h)
  PROVE  Caused'
  <1>1. StorageTypeOK /\ Untorn
    BY DEF IInv, TypeOK, Caused
  <1>2. CASE ReadManifest(h)
    BY <1>2, TornReadCaused DEF ReadManifest, Unreadable
  <1>3. CASE OnManifestValidated(h)
    <2>1. running /\ (\/ InsertManifest(h) /\ UNCHANGED running
                      \/ \E wrong : InsertManifestWrong(h, wrong))
      BY <1>3 DEF OnManifestValidated
    <2> QED
      BY <1>1, <2>1, ManifestUntorn DEF Caused, ExitHasCause
  <1>4. CASE HandleDeleteManifestCommand(h)
    BY <1>1, <1>4 DEF HandleDeleteManifestCommand, storageVars, Caused, Untorn, ExitHasCause
  <1>5. CASE OnDeleteDataCommandResponse(h) \/ HandleOnlyDeleteManifestCommand(h)
    <2>1. DeleteManifest(h) /\ running'
      BY <1>5 DEF OnDeleteDataCommandResponse, HandleOnlyDeleteManifestCommand
    <2> QED
      BY <1>1, <2>1, ManifestUntorn DEF Caused, ExitHasCause
  <1> QED
    BY <1>2, <1>3, <1>4, <1>5 DEF ManifestStep

\* A kill is counted.
LEMMA KillCaused ==
  ASSUME IInv, Caused, Kill
  PROVE  Caused'
  <1>1. StorageTypeOK /\ Untorn
    BY DEF IInv, TypeOK, Caused
  <1>2. kills' < MaxKills
    BY NodeBoundsAssumption DEF Kill, IInv, TypeOK
  <1>3. Untorn'
    <2>1. CASE UNCHANGED storageVars
      BY <1>1, <2>1 DEF storageVars, Untorn
    <2>2. CASE KilledFetching
      <3>1. PICK f \in Name, x \in Fetched :
              /\ [m \in {1} |-> "torn"] \in Wrongs(One(f, x))
              /\ InsertData(One(f, x), [m \in {1} |-> "torn"])
        BY <2>2 DEF KilledFetching
      <3> QED
        BY <1>1, <3>1, OneBatch, InsertUntorn
    <2>3. CASE KilledSaving
      BY <1>1, <2>3, ManifestUntorn DEF KilledSaving
    <2>4. ASSUME NEW c \in Conn, NEW n \in Sizes(c), KilledReceiving(c, n)
          PROVE  Untorn'
      <3>1. PICK k \in 0 .. Len(Stream[c]) :
              /\ [m \in {k} |-> "torn"] \in Wrongs(Packets(c, Taken(c) + 1, k))
              /\ InsertData(Packets(c, Taken(c) + 1, k), [m \in {k} |-> "torn"])
        BY <2>4, KilledReceivingAt
      <3>2. Taken(c) \in 0 .. Len(Stream[c]) /\ Len(Stream[c]) \in Nat
        BY TakenIs, Ends DEF IInv, ConnOK
      <3>3. PICK t \in 0 .. Len(Stream[c]) : t = Taken(c)
        BY <3>2
      <3>4. Batch(Packets(c, t + 1, k))
        BY <3>2, PacketsBatch
      <3> QED
        BY <1>1, <3>1, <3>3, <3>4, InsertUntorn
    <2> QED
      BY <2>1, <2>2, <2>3, <2>4 DEF Kill
  <1> QED
    BY <1>2, <1>3 DEF Caused, ExitHasCause

\* Every step keeps what makes ExitHasCause inductive.
LEMMA NextCaused ==
  ASSUME IInv, Caused, [Next]_vars
  PROVE  Caused'
  <1>1. CASE UNCHANGED <<storageVars, running, kills>>
    BY <1>1 DEF storageVars, Caused, Untorn, ExitHasCause
  <1>2. CASE Accept \/ \E c \in Conn : ReceiveError(c)
    BY <1>1, <1>2 DEF Accept, HandleAccept, HandleAcceptError, ReceiveError,
      HandleReceiveError, Stays
  <1>3. CASE HandleInfoCommand \/ \E f \in Name : OnInterest(f)
    BY <1>3, TornReadCaused DEF HandleInfoCommand, OnInterest
  <1>4. ASSUME NEW f \in Name, HandleDeleteDataCommand(f)
        PROVE  Caused'
    <2>1. UNCHANGED <<manifest, faults>> /\ running'
          /\ \A g \in Name : file'[g] \in {file[g], Absent}
      BY <1>4 DEF HandleDeleteDataCommand, DeleteData, Stays, IInv, TypeOK, StorageTypeOK
    <2> QED
      BY <2>1, FileAssumption DEF Caused, Untorn, ExitHasCause
  <1>5. CASE Restart
    BY <1>5 DEF Restart, StorageRestart, Caused, Untorn, ExitHasCause
  <1>6. CASE UNCHANGED vars
    BY <1>1, <1>6 DEF vars
  <1>7. CASE \E h \in Hash : ManifestStep(h)
    BY <1>7, ManifestStepCaused
  <1> QED
    BY <1>2, <1>3, <1>4, <1>5, <1>6, <1>7, ReceiveCaused, OnSegmentDataCaused, KillCaused
      DEF Next, ManifestStep

\* Whatever is inserted, read, found and deleted, in whatever order, and whether
\* it is there or not: a process ends by itself (no handler catches the exception)
\* only after a fault of its storage or a kill.
THEOREM ExitHasCauseAlways == Spec => []ExitHasCause
  <1>1. Init => Caused
    <2> SUFFICES ASSUME Init
                 PROVE  Caused
      OBVIOUS
    <2>1. (\A f \in Name : file[f] = Absent) /\ \A h \in Hash : manifest[h] = Absent
      BY DEF Init, StorageInit
    <2> QED
      BY <2>1, FileAssumption DEF Caused, Untorn, ExitHasCause, Init
  <1>2. Caused => ExitHasCause
    BY DEF Caused
  <1> QED
    BY <1>1, <1>2, NextCaused, IInvAlways, PTL DEF Spec

-----------------------------------------------------------------------------
(* The node implements BulkInsert.                                         *)

\* What the abstract specification says of the storage is what RepoStorage says.
LEMMA SameStorage ==
  /\ Promise!StorageInit <=> StorageInit
  /\ Promise!StorageRestart <=> StorageRestart
  /\ \A f : Promise!DeleteData(f) <=> DeleteData(f)
  /\ \A h : Promise!InsertManifest(h) <=> InsertManifest(h)
  /\ \A h : Promise!DeleteManifest(h) <=> DeleteManifest(h)
  /\ \A h, wrong : Promise!InsertManifestWrong(h, wrong) <=> InsertManifestWrong(h, wrong)
  /\ Promise!ManifestFault = ManifestFault
  /\ \A batch : Promise!Wrongs(batch) = Wrongs(batch)
  /\ \A batch, wrong : Promise!InsertData(batch, wrong) <=> InsertData(batch, wrong)
  /\ \A c, from, to : Promise!Packets(c, from, to) = Packets(c, from, to)
  /\ \A f, x : Promise!One(f, x) = One(f, x)
  <1>1. \A S : Promise!Cardinality(S) = Cardinality(S)
    BY DEF Promise!Cardinality, Cardinality
  <1>2. Promise!StorageInit <=> StorageInit
    BY DEF Promise!StorageInit, StorageInit, Promise!Method, Method
  <1>3. Promise!StorageRestart <=> StorageRestart
    BY DEF Promise!StorageRestart, StorageRestart
  <1>4. \A f : Promise!DeleteData(f) <=> DeleteData(f)
    BY DEF Promise!DeleteData, DeleteData
  <1>5. \A batch : Promise!Wrongs(batch) = Wrongs(batch)
    BY <1>1 DEF Promise!Wrongs, Wrongs, Promise!Fault, Fault,
      Promise!MongoFault, MongoFault, Promise!FsFault, FsFault
  <1>6. \A batch, wrong, f : Promise!FileAfter(batch, wrong, f) = FileAfter(batch, wrong, f)
    BY Zenon DEF Promise!FileAfter, FileAfter
  <1>7. \A batch, wrong : Promise!Signalled(batch, wrong) = Signalled(batch, wrong)
    BY Zenon DEF Promise!Signalled, Signalled
  <1>8. \A batch, wrong : Promise!InsertData(batch, wrong) <=> InsertData(batch, wrong)
    <2> SUFFICES ASSUME NEW batch, NEW wrong
                 PROVE  Promise!InsertData(batch, wrong) <=> InsertData(batch, wrong)
      OBVIOUS
    <2>1. [f \in Name |-> Promise!FileAfter(batch, wrong, f)] =
          [f \in Name |-> FileAfter(batch, wrong, f)]
      BY <1>6
    <2>2. Promise!Signalled(batch, wrong) = Signalled(batch, wrong)
      BY <1>7
    <2>3. [p \in Prefix |-> useCount[p] + Promise!Cardinality(
             {m \in Promise!Signalled(batch, wrong) : PrefixOf[batch[m].name] = p})] =
          [p \in Prefix |-> useCount[p] + Cardinality(
             {m \in Signalled(batch, wrong) : PrefixOf[batch[m].name] = p})]
      BY <1>1, <2>2
    <2> QED
      BY <1>1, <2>1, <2>3 DEF Promise!InsertData, InsertData
  <1>9. \A c, from, to : Promise!Packets(c, from, to) = Packets(c, from, to)
    BY Zenon DEF Promise!Packets, Packets
  <1>10. \A f, x : Promise!One(f, x) = One(f, x)
    BY Zenon DEF Promise!One, One
  <1>11. /\ \A h : Promise!InsertManifest(h) <=> InsertManifest(h)
         /\ \A h : Promise!DeleteManifest(h) <=> DeleteManifest(h)
         /\ \A h, wrong : Promise!InsertManifestWrong(h, wrong) <=> InsertManifestWrong(h, wrong)
    BY DEF Promise!InsertManifest, InsertManifest, Promise!DeleteManifest, DeleteManifest,
      Promise!InsertManifestWrong, InsertManifestWrong
  <1>12. Promise!ManifestFault = ManifestFault
    BY DEF Promise!ManifestFault, ManifestFault, Promise!MongoFault, MongoFault,
      Promise!FsFault, FsFault
  <1> QED
    BY <1>2, <1>3, <1>4, <1>5, <1>8, <1>9, <1>10, <1>11, <1>12

\* While no buffer moves, nothing is taken.
LEMMA TakenSame ==
  ASSUME UNCHANGED buffer
  PROVE  [c \in Conn |-> Taken(c)]' = [c \in Conn |-> Taken(c)]
  <1>1. \A c \in Conn : Taken(c)' = Taken(c)
    BY DEF Taken, End
  <1> QED
    BY <1>1

\* When one buffer moves, its connection has taken elements.
LEMMA TakenOne ==
  ASSUME IInv, NEW c \in Conn, NEW t \in 0 .. Len(Stream[c]), NEW size,
         buffer' = [buffer EXCEPT ![c] = [from |-> End(c, t), size |-> size]]
  PROVE  [d \in Conn |-> Taken(d)]' = [[d \in Conn |-> Taken(d)] EXCEPT ![c] = t]
  <1>1. /\ buffer'[c].from = End(c, t)
        /\ \A d \in Conn : d # c => buffer'[d] = buffer[d]
    BY DEF IInv, TypeOK, TcpTypeOK
  <1>2. Taken(c)' = t
    BY <1>1, TakenIsNext
  <1>3. \A d \in Conn : d # c => Taken(d)' = Taken(d)
    BY <1>1 DEF Taken, End
  <1> QED
    BY <1>2, <1>3

\* Elements up to t that are TLVs and whose packets have been inserted are what
\* the abstract specification takes in one step.
LEMMA IsTake ==
  ASSUME IInv, NEW c \in Conn, NEW t \in DOMAIN Stream[c], Taken(c) < t, NEW size,
         buffer' = [buffer EXCEPT ![c] = [from |-> End(c, t), size |-> size]],
         \A i \in Taken(c) + 1 .. t : Stream[c][i].kind # "garbage",
         NEW wrong, wrong \in Wrongs(Packets(c, Taken(c) + 1, t)),
         InsertData(Packets(c, Taken(c) + 1, t), wrong)
  PROVE  Promise!TakeNext
  <1> DEFINE taken == [d \in Conn |-> Taken(d)]
  <1>1. t \in 0 .. Len(Stream[c]) /\ taken[c] = Taken(c)
    BY Ends
  <1>2. taken' = [taken EXCEPT ![c] = t]
    BY <1>1, TakenOne
  <1>3. taken[c] < t /\ \A i \in taken[c] + 1 .. t : Stream[c][i].kind # "garbage"
    BY <1>1
  <1>4. PICK k : k = Taken(c)
    OBVIOUS
  <1>5. /\ wrong \in Promise!Wrongs(Promise!Packets(c, k + 1, t))
        /\ Promise!InsertData(Promise!Packets(c, k + 1, t), wrong)
    BY <1>4, SameStorage
  <1>6. taken[c] = k
    BY <1>1, <1>4
  <1>7. Promise!Take(c, t)
    BY <1>2, <1>3, <1>5, <1>6 DEF Promise!Take
  <1>8. [d \in Conn |-> Taken(d)]'[c] = t
    BY <1>2
  <1> QED
    BY <1>7, <1>8 DEF Promise!TakeNext

\* A step of the abstract specification, or one that it does not see.
Kept == UNCHANGED <<[c \in Conn |-> Taken(c)], storageVars>>

\* A receive is a step of BulkInsert, or takes nothing.
LEMMA ReceiveTakes ==
  ASSUME IInv, NEW c \in Conn, Receive(c)
  PROVE  Promise!TakeNext \/ Kept
  <1>1. PICK n \in Sizes(c) : HandleReceive(c, n)
    BY DEF Receive
  <1>2. PICK last \in 0 .. Len(Stream[c]) :
          /\ Loop(c, Arrived(c) + n, last)
          /\ \E wrong \in Wrongs(Packets(c, Taken(c) + 1, last)) :
               InsertData(Packets(c, Taken(c) + 1, last), wrong)
          /\ buffer' = [buffer EXCEPT ![c] = Rest(c, n, last)]
    BY <1>1 DEF HandleReceive
  <1>3. PICK wrong \in Wrongs(Packets(c, Taken(c) + 1, last)) :
          InsertData(Packets(c, Taken(c) + 1, last), wrong)
    BY <1>2
  <1>4. /\ Taken(c) \in 0 .. Len(Stream[c]) /\ Len(Stream[c]) \in Nat
        /\ DOMAIN Stream[c] = 1 .. Len(Stream[c])
    BY TakenIs, Ends DEF IInv, ConnOK
  <1>5. last >= Taken(c) /\ \A i \in Taken(c) + 1 .. last : Stream[c][i].kind # "garbage"
    BY <1>2 DEF Loop, Complete
  <1>6. CASE last = Taken(c)
    <2>1. PICK t \in 0 .. Len(Stream[c]) : t = Taken(c)
      BY <1>4
    <2>2. DOMAIN Packets(c, t + 1, last) = {}
      BY <1>4, <1>6, <2>1, PacketsBatch
    <2>3. UNCHANGED storageVars
      BY <1>3, <2>1, <2>2, InsertNothing DEF IInv, TypeOK
    <2>4. [d \in Conn |-> Taken(d)]' = [[d \in Conn |-> Taken(d)] EXCEPT ![c] = last]
      BY <1>2, TakenOne DEF Rest
    <2> QED
      BY <1>6, <2>3, <2>4 DEF Kept
  <1>7. CASE last > Taken(c)
    <2>1. last \in DOMAIN Stream[c] /\ Taken(c) < last
      BY <1>4, <1>7
    <2> QED
      BY <1>2, <1>3, <1>5, <2>1, IsTake DEF Rest
  <1> QED
    BY <1>4, <1>5, <1>6, <1>7

\* A receive that a kill cuts short is a step of BulkInsert.
LEMMA KilledReceivingTakes ==
  ASSUME IInv, NEW c \in Conn, NEW n \in Sizes(c), KilledReceiving(c, n)
  PROVE  Promise!TakeNext
  <1> DEFINE wrong(k) == [m \in {k} |-> "torn"]
  <1>1. PICK last \in 0 .. Len(Stream[c]), k \in 0 .. Len(Stream[c]) :
          /\ Loop(c, Arrived(c) + n, last)
          /\ k \in Taken(c) + 1 .. last
          /\ wrong(k) \in Wrongs(Packets(c, Taken(c) + 1, k))
          /\ InsertData(Packets(c, Taken(c) + 1, k), wrong(k))
          /\ buffer' = [buffer EXCEPT ![c] = [from |-> End(c, k), size |-> 0]]
    BY KilledReceivingAt
  <1>2. /\ Taken(c) \in 0 .. Len(Stream[c]) /\ Len(Stream[c]) \in Nat
        /\ DOMAIN Stream[c] = 1 .. Len(Stream[c])
    BY TakenIs, Ends DEF IInv, ConnOK
  <1>3. k \in DOMAIN Stream[c] /\ Taken(c) < k
    BY <1>1, <1>2
  <1>4. \A i \in Taken(c) + 1 .. k : Stream[c][i].kind # "garbage"
    <2>1. \A i \in Taken(c) + 1 .. k : i \in Taken(c) + 1 .. last
      BY <1>1, <1>2
    <2> QED
      BY <1>1, <2>1 DEF Loop, Complete
  <1> HIDE DEF wrong
  <1> QED
    BY <1>1, <1>3, <1>4, IsTake

\* Inserts of the fetcher, deletes, manifests and restarts.
LEMMA IsElsewhere ==
  ASSUME UNCHANGED buffer,
         \/ \E f \in Name, x \in Fetched : \E wrong \in Wrongs(One(f, x)) :
              InsertData(One(f, x), wrong)
         \/ \E f \in Name : DeleteData(f)
         \/ \E h \in Hash : \/ InsertManifest(h)
                            \/ DeleteManifest(h)
                            \/ \E wrong \in ManifestFault : InsertManifestWrong(h, wrong)
         \/ StorageRestart
  PROVE  Promise!TakeNext
  <1>1. [c \in Conn |-> Taken(c)]' = [c \in Conn |-> Taken(c)]
    BY TakenSame
  <1>2. \/ \E f \in Name, x \in Fetched : \E wrong \in Promise!Wrongs(Promise!One(f, x)) :
             Promise!InsertData(Promise!One(f, x), wrong)
        \/ \E f \in Name : Promise!DeleteData(f)
        \/ \E h \in Hash :
             \/ Promise!InsertManifest(h)
             \/ Promise!DeleteManifest(h)
             \/ \E wrong \in Promise!ManifestFault : Promise!InsertManifestWrong(h, wrong)
        \/ Promise!StorageRestart
    BY SameStorage
  <1>3. Promise!Elsewhere
    BY <1>1, <1>2 DEF Promise!Elsewhere
  <1> QED
    BY <1>3 DEF Promise!TakeNext

\* However the streams are cut into receives, and whatever faults, kills and
\* restarts come in between, a node takes each element once and in order
\* (handleReceive), and its disk has what BulkInsert says.
THEOREM TakesInOrderAlways == Spec => TakesInOrder
  <1>1. Init => Promise!TakeInit
    <2> SUFFICES ASSUME Init
                 PROVE  Promise!TakeInit
      OBVIOUS
    <2>1. Promise!StorageInit
      BY SameStorage DEF Init
    <2>2. \A c \in Conn : Taken(c) = 0
      <3> SUFFICES ASSUME NEW c \in Conn
                   PROVE  Taken(c) = 0
        OBVIOUS
      <3>1. 0 \in 0 .. Len(Stream[c]) /\ End(c, 0) = buffer[c].from
        BY Ends DEF Init, TcpInit, End
      <3> QED
        BY <3>1, TakenIs DEF Aligned
    <2> QED
      BY <2>1, <2>2 DEF Promise!TakeInit
  <1>2. IInv /\ [Next]_vars => Promise!TakeNext \/ Kept
    <2> SUFFICES ASSUME IInv, [Next]_vars
                 PROVE  Promise!TakeNext \/ Kept
      OBVIOUS
    <2>1. CASE UNCHANGED <<buffer, storageVars>>
      BY <2>1, TakenSame DEF Kept
    <2>2. CASE Accept \/ \E c \in Conn : ReceiveError(c)
      BY <2>1, <2>2
        DEF Accept, HandleAccept, HandleAcceptError, ReceiveError, HandleReceiveError
    <2>3. CASE \E f \in Name : \E x \in Fetched : OnSegmentData(f, x)
      BY <2>3, IsElsewhere DEF OnSegmentData
    <2>4. CASE \E f \in Name : HandleDeleteDataCommand(f)
      BY <2>4, IsElsewhere DEF HandleDeleteDataCommand, tcpVars
    <2>5. CASE HandleInfoCommand \/ \E f \in Name : OnInterest(f)
      BY <2>1, <2>5 DEF HandleInfoCommand, OnInterest
    <2>6. CASE Kill
      <3>1. CASE KilledFetching /\ UNCHANGED buffer
        BY <3>1, IsElsewhere DEF KilledFetching
      <3>2. CASE \E c \in Conn : \E n \in Sizes(c) : KilledReceiving(c, n)
        BY <3>2, KilledReceivingTakes
      <3>3. CASE KilledSaving /\ UNCHANGED buffer
        BY <3>3, IsElsewhere DEF KilledSaving
      <3> QED
        BY <2>1, <2>6, <3>1, <3>2, <3>3 DEF Kill
    <2>7. CASE Restart
      BY <2>7, IsElsewhere DEF Restart
    <2>8. CASE UNCHANGED vars
      BY <2>1, <2>8 DEF vars, tcpVars
    <2>9. CASE \E h \in Hash : ManifestStep(h)
      <3>1. PICK h \in Hash : ManifestStep(h)
        BY <2>9
      <3>2. CASE ReadManifest(h) \/ HandleDeleteManifestCommand(h)
        BY <2>1, <3>2 DEF ReadManifest, HandleDeleteManifestCommand, tcpVars
      <3>3. CASE OnManifestValidated(h)
        BY <3>3, IsElsewhere DEF OnManifestValidated
      <3>4. CASE OnDeleteDataCommandResponse(h) \/ HandleOnlyDeleteManifestCommand(h)
        BY <3>4, IsElsewhere
          DEF OnDeleteDataCommandResponse, HandleOnlyDeleteManifestCommand, tcpVars
      <3> QED
        BY <3>1, <3>2, <3>3, <3>4 DEF ManifestStep
    <2> QED
      BY <2>2, <2>3, <2>4, <2>5, <2>6, <2>7, <2>8, <2>9, ReceiveTakes DEF Next, ManifestStep
  <1>3. Promise!TakeNext \/ Kept
          => [Promise!TakeNext]_<<[c \in Conn |-> Taken(c)], Promise!storageVars>>
    BY DEF Kept, storageVars, Promise!storageVars
  <1> QED
    BY <1>1, <1>2, <1>3, IInvAlways, PTL DEF Spec, TakesInOrder, Promise!TakeSpec

=============================================================================
