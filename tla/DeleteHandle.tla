---------------------------- MODULE DeleteHandle ----------------------------
(***************************************************************************)
(* Deleting a file: the client (deleteFile of DIFS, in ndndelfile), the    *)
(* node that it is sent to, which passes the command on, and the node that *)
(* stores the manifest (DeleteHandle), which first has the segments        *)
(* erased at the node that its manifest names.                             *)
(*                                                                         *)
(*   client --delete--> node --delete-manifest--> manifest node            *)
(*                             manifest node --delete-data--> segment node *)
(***************************************************************************)
EXTENDS FileStorage

CONSTANT Delete    \* the runs of ndndelfile for the name

VARIABLES
  deleter,   \* the clients
  removal    \* what is under way for each delete

deleteVars == <<deleter, removal>>

\* "unknown": the client was not answered in time.
Deleter == {"idle", "waiting", "done", "notfound", "unknown"}

\* at: "asked" before the manifest is read; "data" while delete-data is on its
\* way, "late" when it is but the manifest node has given up; "erased" while its
\* answer is; then the answer to the client.  read is the manifest's put.
Removal ==
  [at : {"none", "asked", "data", "late", "erased", "deleted", "missing"},
   read : Put \cup {NoPut}]

DeleteTypeOK ==
  /\ deleter \in [Delete -> Deleter]
  /\ removal \in [Delete -> Removal]

DeleteInit ==
  /\ deleter = [d \in Delete |-> "idle"]
  /\ removal = [d \in Delete |-> [at |-> "none", read |-> NoPut]]

-----------------------------------------------------------------------------

StartDelete(d) ==
  /\ deleter[d] = "idle"
  /\ deleter' = [deleter EXCEPT ![d] = "waiting"]
  /\ removal' = [removal EXCEPT ![d].at = "asked"]
  /\ UNCHANGED storageVars

\* The answer travels to the client, if it still waits.
Reported(d, answer) == IF deleter[d] = "waiting" THEN answer ELSE "none"

\* The node that the manifest names is asked to erase its segments.
HandleDeleteManifestCommand(d) ==
  /\ removal[d].at = "asked"
  /\ removal' = [removal EXCEPT ![d] =
                   IF manifest = NoPut
                   THEN [at |-> Reported(d, "missing"), read |-> NoPut]
                   ELSE [at |-> "data", read |-> manifest]]
  /\ UNCHANGED <<deleter, storageVars>>

HandleDeleteDataCommand(d) ==
  /\ removal[d].at \in {"data", "late"}
  /\ DeleteData(At[removal[d].read], Last(removal[d].read))
  /\ removal' = [removal EXCEPT ![d] =
                   [at |-> IF @.at = "data" THEN "erased" ELSE "none", read |-> NoPut]]
  /\ UNCHANGED <<deleter, manifest>>

\* Whatever manifest is there by now is erased.
OnDeleteDataCommandResponse(d) ==
  /\ removal[d].at = "erased"
  /\ manifest' = NoPut
  /\ removal' = [removal EXCEPT ![d].at = Reported(d, "deleted")]
  /\ UNCHANGED <<deleter, segs>>

OnDeleteCommandResponse(d) ==
  /\ removal[d].at \in {"deleted", "missing"}
  /\ deleter' = [deleter EXCEPT ![d] =
                   IF removal[d].at = "deleted" THEN "done" ELSE "notfound"]
  /\ removal' = [removal EXCEPT ![d].at = "none"]
  /\ UNCHANGED storageVars

\* The client gives up, or the node it asked does, which then answers a wrong
\* Interest: its command or an answer is lost, or still under way.  (The client
\* asks again, but for a name made of the Interest's: not for this file.)
OnDeleteCommandTimeout(d) ==
  /\ deleter[d] = "waiting"
  /\ deleter' = [deleter EXCEPT ![d] = "unknown"]
  /\ \/ /\ removal[d].at \in {"asked", "deleted", "missing"}
        /\ removal' = [removal EXCEPT ![d].at = "none"]
     \/ /\ removal[d].at \notin {"deleted", "missing"}
        /\ UNCHANGED removal
  /\ UNCHANGED storageVars

\* The manifest node gives up on delete-data, and also answers a wrong Interest,
\* so that in the end the client is not answered.
OnDeleteDataTimeout(d) ==
  /\ removal[d].at \in {"data", "erased"}
  /\ \/ removal' = [removal EXCEPT ![d].at = "none"]
     \/ removal[d].at = "data" /\ removal' = [removal EXCEPT ![d].at = "late"]
  /\ deleter' = [deleter EXCEPT ![d] = IF @ = "waiting" THEN "unknown" ELSE @]
  /\ UNCHANGED storageVars

=============================================================================
