----------------------------- MODULE FileStorage -----------------------------
(***************************************************************************)
(* What the disks of the cluster hold of ONE file name: its manifest, at   *)
(* the node that the ring names for its hash, and its segments, at the     *)
(* node that fetched them (RepoStorage over FsStorage).  The ring is at    *)
(* rest here; KeySpaceHandle is about its changes.                         *)
(*                                                                         *)
(* Contents are compared only, so a segment is represented by the put that *)
(* wrote it, and so is a manifest: that of put p names the node At[p] and  *)
(* the segments 0 .. Last(p).                                              *)
(***************************************************************************)
EXTENDS FilePut

CONSTANTS Node,     \* the nodes that store segments
          Put,      \* the runs of ndnputfile for the name
          NoPut,    \* no content
          At,       \* the node each put is sent to
          Size      \* the bytes of each put's content

ASSUME NoPutAssumption == NoPut \notin Put
ASSUME AtAssumption == At \in [Put -> Node]
ASSUME SizeAssumption == Size \in [Put -> Nat \ {0}]

VARIABLES manifest,   \* the manifest file, NoPut when there is none
          segs        \* segs[n][s]: the file of segment s at node n

storageVars == <<manifest, segs>>

\* The segments that the client announces; it has some of them, or none.
Last(p) == EndBlock(Size[p])
SegmentsOf(p) == 0 .. Last(p)

Segment == UNION {SegmentsOf(p) : p \in Put}

StorageTypeOK ==
  /\ manifest \in Put \cup {NoPut}
  /\ segs \in [Node -> [Segment -> Put \cup {NoPut}]]

StorageInit ==
  /\ manifest = NoPut
  /\ segs = [n \in Node |-> [s \in Segment |-> NoPut]]

\* The file of a segment is named by the segment alone, so that an insert
\* overwrites what another put wrote there.
InsertData(p, s) == segs' = [segs EXCEPT ![At[p]][s] = p]

\* Segments 0 .. last are erased, whoever wrote them.
DeleteData(n, last) ==
  segs' = [segs EXCEPT ![n] =
             [s \in Segment |-> IF s <= last THEN NoPut ELSE @[s]]]

\* What ndngetfile prints, NoPut unless it is the whole content of a put: it
\* asks for the manifest, then fetches from the node that the manifest names,
\* from segment 0 up to the FinalBlockId that the segments carry.
Readable ==
  IF manifest = NoPut THEN NoPut
  ELSE LET n == At[manifest]
           p == segs[n][0]
       IN  IF p # NoPut /\ \A s \in SegmentsOf(p) : segs[n][s] = p
           THEN p ELSE NoPut

=============================================================================
