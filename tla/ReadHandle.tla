----------------------------- MODULE ReadHandle -----------------------------
(***************************************************************************)
(* Getting a file: the client (getFile of DIFS, in ndngetfile), the node   *)
(* that its command reaches (onGetInterest of ReadHandle), which asks the  *)
(* manifest node, and the node that stores the segments (onInterest).      *)
(*                                                                         *)
(*   client --get--> node --find--> manifest node                          *)
(*   client <--segments-- node that the manifest names                     *)
(*                                                                         *)
(* The client prints segments as they come, in their order: the fetcher    *)
(* (a library) takes one only when it follows, by the hash chain that the  *)
(* writer made, from the one before it.                                    *)
(*                                                                         *)
(* A get whose command or answer is lost is one that stays idle here: the  *)
(* client asks again, but for a name made of the Interest's, not for this. *)
(***************************************************************************)
EXTENDS FileStorage

CONSTANT Get    \* the runs of ndngetfile for the name

VARIABLE reader    \* the clients

\* read is the put whose manifest the client has got, content what it prints, next
\* the number of segments that it has printed.
Reader ==
  [at : {"idle", "fetching", "whole", "failed"},
   read : Put \cup {NoPut}, content : Put \cup {NoPut}, next : Nat]

ReadTypeOK == reader \in [Get -> Reader]

\* A client that has no content.
Bare(how) == [at |-> how, read |-> NoPut, content |-> NoPut, next |-> 0]

ReadInit == reader = [g \in Get |-> Bare("idle")]

-----------------------------------------------------------------------------

\* The manifest node answers the find that the node passes on for the client
\* (getFile); the client ends for an empty answer, or begins to fetch.  A find that
\* is not answered has the client told "timeout" (read-handle.cpp:135-141) or told
\* nothing: either way it does not begin.
OnGetInterest(g) ==
  /\ reader[g].at = "idle"
  /\ reader' = [reader EXCEPT ![g] =
                   IF manifest = NoPut THEN Bare("failed")
                   ELSE [@ EXCEPT !.at = "fetching", !.read = manifest]]
  /\ UNCHANGED storageVars

\* The file of the next segment at the node that the manifest names, and whether
\* it is the first or follows from the one before it.
Sent(g) == segs[At[reader[g].read]][reader[g].next]
Follows(g) == Sent(g) # NoPut /\ (reader[g].next = 0 \/ Sent(g) = reader[g].content)

\* A mutant of OnDataCommandResponse: the last segment is taken for the end.
OnDataCommandResponseEarly(g) ==
  /\ reader[g].at = "fetching"
  /\ Follows(g)
  /\ reader' = [reader EXCEPT ![g].content = Sent(g),
                              ![g].next = @ + 1,
                              ![g].at = IF reader[g].next + 1 >= Chunks(Size[Sent(g)])
                                        THEN "whole" ELSE @]
  /\ UNCHANGED storageVars

\* A segment is printed.  The FinalBlockId that it carries says if it is the last.
OnDataCommandResponse(g) ==
  /\ reader[g].at = "fetching"
  /\ Follows(g)
  /\ reader' = [reader EXCEPT ![g].content = Sent(g),
                              ![g].next = @ + 1,
                              ![g].at = IF reader[g].next = Chunks(Size[Sent(g)])
                                        THEN "whole" ELSE @]
  /\ UNCHANGED storageVars

\* The next segment is not there, or is of another content: the fetcher gives up.
OnDataError(g) ==
  /\ reader[g].at = "fetching"
  /\ ~ Follows(g)
  /\ reader' = [reader EXCEPT ![g] = Bare("failed")]
  /\ UNCHANGED storageVars

=============================================================================
