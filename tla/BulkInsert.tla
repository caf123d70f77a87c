----------------------------- MODULE BulkInsert -----------------------------
(***************************************************************************)
(* What the bulk insertion of packets over TCP promises: the elements of    *)
(* each stream are taken once each, in their order, however the bytes come  *)
(* in, and the packets among them are inserted.                            *)
(***************************************************************************)
EXTENDS TcpStream

VARIABLE taken       \* how many elements of each stream have been taken

TakeInit == taken = [c \in Conn |-> 0] /\ StorageInit

Take(c, to) ==
  /\ taken[c] < to
  /\ taken' = [taken EXCEPT ![c] = to]
  /\ \A i \in taken[c] + 1 .. to : Stream[c][i].kind # "garbage"
  /\ LET batch == Packets(c, taken[c] + 1, to)
     IN  \E wrong \in Wrongs(batch) : InsertData(batch, wrong)

\* The node's other inserts and deletes, and its restarts.
Elsewhere ==
  /\ UNCHANGED taken
  /\ \/ \E h \in Hash : \/ InsertManifest(h)
                        \/ DeleteManifest(h)
                        \/ \E wrong \in ManifestFault : InsertManifestWrong(h, wrong)
     \/ \E f \in Name : DeleteData(f)
     \/ StorageRestart
     \/ \E f \in Name, x \in Fetched : \E wrong \in Wrongs(One(f, x)) :
          InsertData(One(f, x), wrong)

TakeNext ==
  \/ Elsewhere
  \/ \E c \in Conn : \E to \in DOMAIN Stream[c] : taken'[c] = to /\ Take(c, to)

TakeSpec == TakeInit /\ [][TakeNext]_<<taken, storageVars>>

=============================================================================
