------------------------------ MODULE FileStore ------------------------------
(***************************************************************************)
(* The life of one file name: puts (WriteHandle), deletes (DeleteHandle)   *)
(* and gets (ReadHandle) by any number of clients, interleaved step by     *)
(* step.                                                                   *)
(*                                                                         *)
(* With Exclusive, the operator of the clients starts a put or a delete    *)
(* when nothing that an earlier one set off is under way any more.         *)
(***************************************************************************)
EXTENDS WriteHandle, DeleteHandle, ReadHandle

CONSTANTS Home,         \* the node that stores the manifest
          Exclusive,    \* whether clients take turns
          MaxRestarts   \* bound on the restarts of nodes

ASSUME HomeAssumption == Home \in Node
ASSUME ExclusiveAssumption == Exclusive \in BOOLEAN
ASSUME MaxRestartsAssumption == MaxRestarts \in Nat

VARIABLES restarts,  \* what is left of MaxRestarts
          stored,    \* history, for clients that take turns: the puts a reader could have got
          excused,   \* history: the puts that something visible happened to
          steady     \* history: the content that the name has had since a get began

historyVars == <<stored, excused, steady>>

vars == <<putVars, deleteVars, reader, storageVars, budget, restarts, historyVars>>

TypeOK ==
  /\ StorageTypeOK
  /\ PutTypeOK
  /\ DeleteTypeOK
  /\ ReadTypeOK
  /\ restarts \in 0 .. MaxRestarts
  /\ stored \subseteq Put
  /\ excused \subseteq Put
  /\ steady \in [Get -> Put \cup {NoPut}]

Init ==
  /\ StorageInit
  /\ PutInit
  /\ DeleteInit
  /\ ReadInit
  /\ restarts = MaxRestarts
  /\ stored = {}
  /\ excused = {}
  /\ steady = [g \in Get |-> NoPut]

\* Nothing is under way that a put has set off, or a delete.
PutAtRest(p) ==
  /\ putter[p].state \notin {"inserting", "checking"}
  /\ \A t \in 1 .. MaxRetry + 1 :
       LET j == job[<<p, t>>]
       IN  /\ j.insert \in {"unsent", "over"} /\ j.info \in {"unsent", "over"}
           /\ j.fetch = {}                    /\ j.save \in {"unsent", "over"}

DeleteAtRest(d) == deleter[d] # "waiting" /\ removal[d].at = "none"

AtRest == (\A p \in Put : PutAtRest(p)) /\ (\A d \in Delete : DeleteAtRest(d))

-----------------------------------------------------------------------------
(* Nodes restart.                                                          *)

\* A node exits and is started again, with its files: its processes and its
\* requests are forgotten, what it has sent is still delivered.
Restart(n) ==
  /\ restarts > 0
  /\ restarts' = restarts - 1
  /\ proc' = [pid \in {q \in DOMAIN proc : At[q[1]] # n} |-> proc[pid]]
  /\ job' = [pid \in Pid |->
       LET j    == job[pid]
           mine == At[pid[1]] = n
       IN  [insert |-> IF mine /\ j.insert \in {"free", "found"} THEN "over" ELSE j.insert,
            info   |-> IF mine /\ j.info \in {"interest", "data"} THEN "over" ELSE j.info,
            fetch  |-> IF mine THEN {} ELSE j.fetch,
            save   |-> IF n = Home /\ j.save \in {"write-info", "json"} THEN "over" ELSE j.save]]
  /\ removal' = [d \in Delete |->
       IF n # Home THEN removal[d]
       ELSE [removal[d] EXCEPT !.at = IF @ = "data" THEN "late"
                                      ELSE IF @ = "erased" THEN "none" ELSE @]]
  /\ deleter' = [d \in Delete |->
       IF n = Home /\ deleter[d] = "waiting" /\ removal[d].at \in {"data", "erased"}
       THEN "unknown" ELSE deleter[d]]
  /\ UNCHANGED <<putter, reader, storageVars, budget>>

-----------------------------------------------------------------------------
(* History.                                                                *)

\* A process of the put has begun.
Begun(p) == \E t \in 1 .. MaxRetry + 1 : job[<<p, t>>].info # "unsent"

Accepting(p) == \E t \in 1 .. MaxRetry + 1 : job[<<p, t>>].info = "unsent"
                                              /\ job'[<<p, t>>].info = "interest"

\* A delete has read a manifest and may yet erase something.
Erasing(d) == removal[d].at \in {"data", "late", "erased"}

\* What may do away with the file of a put: that its manifest was not stored, a
\* delete that reads the manifest or is at work when the put begins, another put
\* at the same node.
Mishaps(p) ==
  \/ \E t \in 1 .. MaxRetry + 1 :
       /\ job[<<p, t>>].save \in {"create", "write-info", "json"}
       /\ job'[<<p, t>>].save = "over"
       /\ manifest' # p
  \/ \E d \in Delete :
       \/ Begun(p) /\ removal[d].at = "asked" /\ removal'[d].at = "data"
       \/ Accepting(p) /\ Erasing(d)
  \/ \E q \in Put \ {p} :
       /\ At[q] = At[p]
       /\ \/ Accepting(p) /\ (Begun(q) \/ Accepting(q))
          \/ Begun(p) /\ Accepting(q)

Ended(g) == reader[g].at \in {"whole", "failed"}

History ==
  /\ excused' = excused \cup {p \in Put : Mishaps(p)}
  /\ stored' = IF Exclusive THEN stored \cup ({Readable'} \ {NoPut}) ELSE {}
  /\ steady' = [g \in Get |->
       IF Ended(g) THEN steady[g]
       ELSE IF reader[g].at = "idle" THEN IF reader'[g].at = "idle" THEN NoPut ELSE Readable'
       ELSE IF Readable' = steady[g] THEN steady[g] ELSE NoPut]

-----------------------------------------------------------------------------

\* The steps of each kind of client leave the others alone.
OfPut == UNCHANGED <<deleteVars, reader, restarts>> /\ History
OfDelete == UNCHANGED <<putVars, reader, restarts>> /\ History
OfGet == UNCHANGED <<putVars, deleteVars, budget, restarts>> /\ History

\* The handlers of a put, by what they belong to.
InsertStep(pid) ==
  \/ HandleFindCommand(pid) /\ OfPut
  \/ OnFindResponse(pid) /\ OfPut
  \/ OnInsertCommandResponse(pid) /\ OfPut
  \/ OnInsertCommandTimeout(pid) /\ OfPut

FetchStep(pid) ==
  \/ PutFileSendManifest(pid) /\ OfPut
  \/ OnDataValidated(pid) /\ OfPut
  \/ OnTimeout(pid) /\ OfPut
  \/ \E s \in Segment : OnSegmentData(pid, s) /\ OfPut
  \/ OnFetchError(pid) /\ OfPut

SaveStep(pid) ==
  \/ HandleCreateCommand(pid) /\ OfPut
  \/ HandleInfoCommand(pid) /\ OfPut
  \/ OnManifestData(pid) /\ OfPut

CheckStep(p) ==
  \/ PutFileStartCheckCommand(p) /\ OfPut
  \/ HandleCheckCommand(p) /\ OfPut
  \/ OnCheckCommandResponse(p) /\ OfPut

PutStep ==
  \/ \E p \in Put :
       \/ (Exclusive => AtRest) /\ StartPut(p) /\ OfPut
       \/ CheckStep(p)
       \/ OnCheckCommandTimeout(p) /\ OfPut
  \/ \E pid \in Pid :
       \/ InsertStep(pid) \/ FetchStep(pid) \/ SaveStep(pid)
       \/ OnCreateTimeout(pid) /\ OfPut
       \/ NoEndTimePasses(pid) /\ OfPut
       \/ DeleteProcess(pid) /\ OfPut

DeleteDeliver(d) ==
  \/ HandleDeleteManifestCommand(d) /\ UNCHANGED budget /\ OfDelete
  \/ HandleDeleteDataCommand(d) /\ UNCHANGED budget /\ OfDelete
  \/ OnDeleteDataCommandResponse(d) /\ UNCHANGED budget /\ OfDelete
  \/ OnDeleteCommandResponse(d) /\ UNCHANGED budget /\ OfDelete

DeleteStep ==
  \E d \in Delete :
    \/ (Exclusive => AtRest) /\ StartDelete(d) /\ UNCHANGED budget /\ OfDelete
    \/ DeleteDeliver(d)
    \/ OnDeleteCommandTimeout(d) /\ Lose /\ OfDelete
    \/ OnDeleteDataTimeout(d) /\ Lose /\ OfDelete

GetStep ==
  \E g \in Get :
    \/ OnGetInterest(g) /\ OfGet
    \/ OnDataCommandResponse(g) /\ OfGet
    \/ OnDataError(g) /\ OfGet

Next == PutStep \/ DeleteStep \/ GetStep \/ \E n \in Node : Restart(n) /\ History

Spec == Init /\ [][Next]_vars

\* Clients and nodes handle what arrives, and what is sent arrives or is given
\* up.
Fairness ==
  /\ \A pid \in Pid : /\ WF_vars(InsertStep(pid))
                      /\ WF_vars(FetchStep(pid))
                      /\ WF_vars(SaveStep(pid))
  /\ \A p \in Put : WF_vars(CheckStep(p))
  /\ \A d \in Delete : WF_vars(DeleteDeliver(d))

FairSpec == Spec /\ Fairness

-----------------------------------------------------------------------------
(* Properties.                                                             *)

\* When clients take turns and put at different nodes, the name behaves as FileRegister
\* says, though a put stores its manifest before its segments and a delete erases
\* its segments before its manifest, and though a put may fail half way.
Register == INSTANCE FileRegister
  WITH value <- Readable,
       deleting <- {d \in Delete : ~DeleteAtRest(d)},
       confirmed <- {d \in Delete : deleter[d] = "done"}

BehavesAsRegister == Register!Spec

\* Once all is at rest, a put that reported success has left a manifest, and if
\* the put that the manifest is from reported success too, its content is what a
\* reader gets, unless something visible happened to either of them: however
\* inserts were retried and processes ran out of time or were restarted.
DoneHasCause ==
  AtRest => \A p \in Put \ excused :
    putter[p].state = "done" =>
      /\ manifest # NoPut
      /\ manifest \notin excused /\ putter[manifest].state = "done"
           => Readable = manifest

\* A put that reports success has had all its segments stored, and they stay,
\* unless something visible happened to it (difs.cpp:710: the client infers from
\* a count that the write operation has been finished).
DoneIsWritten ==
  \A p \in Put \ excused :
    putter[p].state = "done" => \A s \in SegmentsOf(p) : segs[At[p]][s] = p

\* A content that the name has from the beginning to the end of a get is what the
\* get prints, in whole, though it reads the manifest and each segment at a moment
\* of its own, and whatever other puts and deletes are under way.
FindsWhatStays ==
  \A g \in Get : Ended(g) /\ steady[g] # NoPut =>
    /\ reader[g].at = "whole"
    /\ reader[g].content = steady[g]
    /\ reader[g].next = Last(steady[g]) + 1

\* The fetcher of a live process has ended without all segments.
FetchFailed(pid) ==
  /\ pid \in DOMAIN proc
  /\ job[pid].info = "over"
  /\ job[pid].fetch = {}
  /\ proc[pid].count <= Last(pid[1])

\* A put comes to its end: the client succeeds, fails or stops asking, unless the
\* fetcher of its process has failed.
PutEnds ==
  \A p \in Put : putter[p].state = "inserting"
                   ~> \/ putter[p].state \in {"done", "failed", "stopped"}
                      \/ FetchFailed(Current(p))

=============================================================================
