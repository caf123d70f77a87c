--------------------------- MODULE TcpBulkInsert ---------------------------
(***************************************************************************)
(* Packets sent to a node over TCP (TcpBulkInsertHandle): each connection   *)
(* has a buffer for one largest packet, in which the bytes of its stream    *)
(* are gathered until the element they begin is complete.                  *)
(*                                                                         *)
(* A byte is a position in its stream.  TCP hands over any number of the    *)
(* bytes that are left, in their order, as many as there is room for.      *)
(***************************************************************************)
EXTENDS TcpStream

CONSTANT MaxPacket    \* MAX_NDN_PACKET_SIZE

ASSUME MaxPacketAssumption == MaxPacket \in Nat \ {0}

VARIABLES
  conn,        \* the connections: "waiting" to be accepted, "open", "closed",
               \* or "refused", closed because of what was sent
  buffer,      \* m_inputBuffer: the size bytes of the stream after from
  accepting    \* an accept is under way

tcpVars == <<conn, buffer, accepting>>

TcpTypeOK ==
  /\ conn \in [Conn -> {"waiting", "open", "closed", "refused"}]
  /\ buffer \in [Conn -> [from : Nat, size : 0 .. MaxPacket]]
  /\ accepting \in BOOLEAN

TcpInit ==
  /\ conn = [c \in Conn |-> "waiting"]
  /\ buffer = [c \in Conn |-> [from |-> 0, size |-> 0]]
  /\ accepting = TRUE

-----------------------------------------------------------------------------

\* The element that fromBuffer finds at a position, provided that it is all
\* there: it is a TLV, begins there, and ends by the position to.
Complete(c, i, to) ==
  /\ i \in DOMAIN Stream[c]
  /\ Stream[c][i].kind # "garbage"
  /\ Stream[c][i].end <= to

\* The number of elements that end where the buffer begins.
Taken(c) == CHOOSE t \in 0 .. Len(Stream[c]) : End(c, t) = buffer[c].from

\* A mutant of Loop: one element is taken, not all that are complete.
LoopOnce(c, to, last) ==
  last = IF Complete(c, Taken(c) + 1, to) THEN Taken(c) + 1 ELSE Taken(c)

\* The loop of handleReceive over the bytes of the buffer, which end at the
\* position to: last is the last element that it takes.
Loop(c, to, last) ==
  /\ last >= Taken(c)
  /\ \A i \in Taken(c) + 1 .. last : Complete(c, i, to)
  /\ ~ Complete(c, last + 1, to)

Arrived(c) == buffer[c].from + buffer[c].size

Room(c) == MaxPacket - buffer[c].size

\* A mutant of Sizes: the length of the whole buffer is passed.
SizesWhole(c) ==
  {n \in 1 .. MaxPacket : Arrived(c) + n <= End(c, Len(Stream[c]))}

\* What a receive may bring: at least a byte, unless there is no room.
Sizes(c) ==
  IF Room(c) = 0 THEN {0}
  ELSE {n \in 1 .. Room(c) : Arrived(c) + n <= End(c, Len(Stream[c]))}

\* A mutant of Overfull: whatever was taken, a full buffer is too full.
OverfullAnyway(size, taken) == size = MaxPacket

\* A mutant of Overfull: a full buffer is never noticed.
OverfullNever(size, taken) == FALSE

\* The buffer is full and the loop took nothing.
Overfull(size, taken) == size = MaxPacket /\ taken = 0

\* A mutant of Rest: the size is reduced, the bytes are not moved.
RestUnmoved(c, n, last) ==
  LET to == Arrived(c) + n
  IN  [from |-> IF End(c, last) = to THEN to ELSE buffer[c].from,
       size |-> to - End(c, last)]

\* The bytes after the last element that was taken, moved to the front.
Rest(c, n, last) == [from |-> End(c, last), size |-> Arrived(c) + n - End(c, last)]

-----------------------------------------------------------------------------

\* The next connection is accepted, and the accept after it begins.
HandleAccept(c) ==
  /\ accepting
  /\ conn[c] = "waiting"
  /\ conn' = [conn EXCEPT ![c] = "open"]
  /\ UNCHANGED <<buffer, accepting, storageVars>>

\* An accept that fails is the last one.
HandleAcceptError ==
  /\ accepting
  /\ accepting' = FALSE
  /\ UNCHANGED <<conn, buffer, storageVars>>

\* The bytes are appended and the complete elements taken; a buffer full of an
\* element that is not complete closes the connection.  The rest is moved to
\* the front, and the next receive begins.
HandleReceive(c, n) ==
  /\ conn[c] = "open"
  /\ \E last \in 0 .. Len(Stream[c]) :
       /\ Loop(c, Arrived(c) + n, last)
       /\ LET batch == Packets(c, Taken(c) + 1, last)
          IN  \E wrong \in Wrongs(batch) : InsertData(batch, wrong)
       /\ conn' = [conn EXCEPT ![c] =
            IF Overfull(buffer[c].size + n, last - Taken(c)) THEN "refused" ELSE @]
       /\ buffer' = [buffer EXCEPT ![c] = Rest(c, n, last)]
  /\ UNCHANGED accepting

\* The peer closes, or the connection breaks.
HandleReceiveError(c) ==
  /\ conn[c] = "open"
  /\ conn' = [conn EXCEPT ![c] = "closed"]
  /\ UNCHANGED <<buffer, accepting, storageVars>>

\* The process is killed in the loop, while it writes packet k: the elements
\* before it have been taken, and its file is torn.
KilledReceiving(c, n) ==
  /\ conn[c] = "open"
  /\ faults > 0
  /\ "torn" \in Fault
  /\ \E last \in 0 .. Len(Stream[c]) :
       /\ Loop(c, Arrived(c) + n, last)
       /\ \E k \in Taken(c) + 1 .. last :
            LET batch == Packets(c, Taken(c) + 1, k)
                wrong == [m \in {k} |-> "torn"]
            IN  /\ Stream[c][k].kind = "data"
                /\ wrong \in Wrongs(batch)
                /\ InsertData(batch, wrong)
                /\ buffer' = [buffer EXCEPT ![c] = [from |-> End(c, k), size |-> 0]]

\* The connections of a process that ends.
Hangup == conn' = [c \in Conn |-> IF conn[c] = "open" THEN "closed" ELSE conn[c]]

=============================================================================
