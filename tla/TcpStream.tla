----------------------------- MODULE TcpStream -----------------------------
(***************************************************************************)
(* What peers send to a node over TCP: streams of TLV elements.             *)
(***************************************************************************)
EXTENDS RepoStorage, Sequences

CONSTANTS Conn,      \* the connections
          Stream,    \* what the peer of each of them sends, a sequence of elements
          Fetched    \* what the node's other inserts put into packets

\* An element is a Data packet, one that does not decode, a TLV of another
\* type, or bytes that are no TLV; end is the stream's length up to it.
Element == [kind : {"data", "undecodable", "other", "garbage"},
            name : Name, content : Content, end : Nat]

ASSUME StreamAssumption ==
  /\ Stream \in [Conn -> Seq(Element)]
  /\ \A c \in Conn : \A i \in DOMAIN Stream[c] :
       /\ Stream[c][i].end > 0
       /\ \A k \in DOMAIN Stream[c] : i < k => Stream[c][i].end < Stream[c][k].end

ASSUME FetchedAssumption == Fetched \subseteq Content

-----------------------------------------------------------------------------

\* Where the first i elements of a stream end.
End(c, i) == IF i = 0 THEN 0 ELSE Stream[c][i].end

\* The packets among the elements from .. to of a stream.
Packets(c, from, to) ==
  [m \in {i \in from .. to : Stream[c][i].kind = "data"} |->
     [name |-> Stream[c][m].name, content |-> Stream[c][m].content]]

One(f, content) == [m \in {1} |-> [name |-> f, content |-> content]]

=============================================================================
