------------------------------ MODULE RepoNode ------------------------------
(***************************************************************************)
(* One node as a keeper of packets (Repo in repo.cpp): packets come over    *)
(* TCP (TcpBulkInsert) and from the fetcher of WriteHandle, go with the     *)
(* commands of DeleteHandle, and are read by Interests (ReadHandle) and by  *)
(* "info" commands (InfoHandle); manifests are stored, found and deleted    *)
(* (ManifestHandle, DeleteHandle).  One event loop runs all the handlers;   *)
(* an exception that no handler catches ends it, and the process, which the *)
(* service manager starts again (Restart=on-failure).                      *)
(***************************************************************************)
EXTENDS TcpBulkInsert

CONSTANTS MaxKills,   \* bound on the times the process is killed
          MaxUse      \* bound on the counts up to which segments are fetched

ASSUME NodeBoundsAssumption == {MaxKills, MaxUse} \subseteq Nat

VARIABLES
  running,     \* the process is there
  kills,       \* what is left of MaxKills
  deleting,    \* m_processes of DeleteHandle, by the manifests to be deleted
  fresh        \* history: the names inserted by the process that runs

vars == <<storageVars, tcpVars, running, kills, deleting, fresh>>

Init ==
  /\ StorageInit
  /\ TcpInit
  /\ running = TRUE
  /\ kills = MaxKills
  /\ deleting = {}
  /\ fresh = {}

TypeOK ==
  /\ StorageTypeOK
  /\ TcpTypeOK
  /\ running \in BOOLEAN
  /\ kills \in 0 .. MaxKills
  /\ deleting \subseteq Hash
  /\ fresh \subseteq Name

-----------------------------------------------------------------------------

\* The names to which a step writes something new.
Written == {f \in Name : file'[f] \notin {file[f], Absent}}

Record == fresh' = fresh \cup Written

Stays == UNCHANGED <<running, kills, deleting>> /\ Record

\* The sockets go with the process.
Exit == running' = FALSE /\ Hangup

Accept ==
  /\ running
  /\ HandleAcceptError \/ \E c \in Conn : HandleAccept(c)
  /\ Stays

Receive(c) == running /\ (\E n \in Sizes(c) : HandleReceive(c, n)) /\ Stays

ReceiveError(c) == running /\ HandleReceiveError(c) /\ Stays

\* A segment from the fetcher of WriteHandle.  It does not catch what the
\* storage throws.
OnSegmentData(f, x) ==
  /\ running
  /\ useCount[PrefixOf[f]] < MaxUse
  /\ \E wrong \in Wrongs(One(f, x)) :
       /\ InsertData(One(f, x), wrong)
       /\ IF 1 \in Signalled(One(f, x), wrong) THEN UNCHANGED <<conn, running>> ELSE Exit
  /\ UNCHANGED <<buffer, accepting, kills, deleting>>
  /\ Record

\* One segment of a "delete-data" command.
HandleDeleteDataCommand(f) ==
  /\ running
  /\ DeleteData(f)
  /\ UNCHANGED tcpVars
  /\ Stays

\* An Interest for the packet is answered when it reaches onInterest and the
\* file can be decoded.  A torn one throws.
OnInterest(f) ==
  /\ running
  /\ Listening
  /\ file[f] = Torn
  /\ Exit
  /\ UNCHANGED <<storageVars, buffer, accepting, kills, deleting, fresh>>

\* "info" decodes every file.
HandleInfoCommand ==
  /\ running
  /\ \E f \in Name : file[f] = Torn
  /\ Exit
  /\ UNCHANGED <<storageVars, buffer, accepting, kills, deleting, fresh>>

\* The manifest of a put or of a migration comes and is stored.  An exception of
\* the data base is not caught.
OnManifestValidated(h) ==
  /\ running
  /\ \/ InsertManifest(h) /\ UNCHANGED <<conn, running>>
     \/ \E wrong \in ManifestFault :
          /\ InsertManifestWrong(h, wrong)
          /\ IF wrong = "refused" THEN Exit ELSE UNCHANGED <<conn, running>>
  /\ UNCHANGED <<buffer, accepting, kills, deleting, fresh>>

\* A mutant of Unreadable: that the file was opened is not asked for.
UnreadableUnopened(h) == manifest[h] \in {Absent, Torn}

\* What readManifest opens cannot be parsed, which throws.
Unreadable(h) == manifest[h] = Torn

\* A manifest is looked for, or about to be deleted: it is read first.
ReadManifest(h) ==
  /\ running
  /\ Unreadable(h)
  /\ Exit
  /\ UNCHANGED <<storageVars, buffer, accepting, kills, deleting, fresh>>

\* The manifest has been read, and its data are to be deleted first.
HandleDeleteManifestCommand(h) ==
  /\ running
  /\ manifest[h] = Whole
  /\ deleting' = deleting \cup {h}
  /\ UNCHANGED <<storageVars, tcpVars, running, kills, fresh>>

\* Whatever is stored by now is erased, unread.
OnDeleteDataCommandResponse(h) ==
  /\ running
  /\ h \in deleting
  /\ DeleteManifest(h)
  /\ deleting' = deleting \ {h}
  /\ UNCHANGED <<tcpVars, running, kills, fresh>>

HandleOnlyDeleteManifestCommand(h) ==
  /\ running
  /\ manifest[h] = Whole
  /\ DeleteManifest(h)
  /\ UNCHANGED <<tcpVars, running, kills, deleting, fresh>>

KilledSaving ==
  \E h \in Hash : "torn" \in ManifestFault /\ InsertManifestWrong(h, "torn")

KilledFetching ==
  \E f \in Name, x \in Fetched :
    LET wrong == [m \in {1} |-> "torn"]
    IN  wrong \in Wrongs(One(f, x)) /\ InsertData(One(f, x), wrong)

\* The process is killed, between two handlers or while it writes a file.
Kill ==
  /\ running
  /\ kills > 0
  /\ kills' = kills - 1
  /\ Exit
  /\ UNCHANGED <<accepting, deleting>>
  /\ \/ UNCHANGED <<storageVars, buffer>>
     \/ (KilledFetching \/ KilledSaving) /\ UNCHANGED buffer
     \/ \E c \in Conn : \E n \in Sizes(c) : KilledReceiving(c, n)
  /\ Record

Restart ==
  /\ ~ running
  /\ running' = TRUE
  /\ accepting' = TRUE
  /\ StorageRestart
  /\ deleting' = {}
  /\ fresh' = {}
  /\ UNCHANGED <<conn, buffer, kills>>

Next ==
  \/ Accept
  \/ \E c \in Conn : Receive(c) \/ ReceiveError(c)
  \/ \E f \in Name :
       \/ \E x \in Fetched : OnSegmentData(f, x)
       \/ HandleDeleteDataCommand(f)
       \/ OnInterest(f)
  \/ HandleInfoCommand
  \/ \E h \in Hash :
       \/ OnManifestValidated(h)
       \/ ReadManifest(h)
       \/ HandleDeleteManifestCommand(h)
       \/ OnDeleteDataCommandResponse(h)
       \/ HandleOnlyDeleteManifestCommand(h)
  \/ Kill
  \/ Restart

Spec == Init /\ [][Next]_vars

-----------------------------------------------------------------------------
(* Properties.                                                             *)

\* A connection that waits for bytes always has room for one: a receive into
\* no room would return at once, and for ever (handleReceive, where the rest
\* of the buffer is computed).
RoomLeft == \A c \in Conn : conn[c] = "open" => Room(c) > 0

\* Nothing more of the stream can be taken: its next element is no TLV, or
\* does not fit into the buffer.
Hopeless(c) ==
  LET t == Taken(c)
  IN  /\ t < Len(Stream[c])
      /\ \/ Stream[c][t + 1].kind = "garbage"
         \/ Stream[c][t + 1].end - End(c, t) > MaxPacket

\* The node closes a connection only for an element that it could not have
\* taken, never because of how the bytes happened to come in.
RefusedHasCause == \A c \in Conn : conn[c] = "refused" => Hopeless(c)

\* Across any division of the streams into receives, with connections that
\* take turns, deletes, faults of the disk and restarts in between, each
\* element is taken once and in order, and the file of a name has what the
\* last insert wrote.
Promise == INSTANCE BulkInsert WITH taken <- [c \in Conn |-> Taken(c)]

TakesInOrder == Promise!TakeSpec

\* An element never lies complete in the buffer while the connection waits for
\* more: the bytes after it may never come.
NothingWaits ==
  \A c \in Conn : conn[c] = "open" => ~ Complete(c, Taken(c) + 1, Arrived(c))

\* The process ends by itself only after a fault of the disk or of the data base,
\* or over a file that was torn when it was killed: no order of inserts, deletes
\* and reads, of what is there or not, makes it end.
ExitHasCause == ~ running => kills < MaxKills \/ faults < MaxFaults

\* A packet that this process has inserted can be asked for: its prefix has
\* been registered, also when it was there before the process started.
ServedSinceStart ==
  \A f \in fresh : file[f] # Absent => useCount[PrefixOf[f]] > 0

=============================================================================
