----------------------------- MODULE WriteHandle -----------------------------
(***************************************************************************)
(* Putting a file: the client (putFile of DIFS, in ndnputfile), the insert *)
(* process of the node it is sent to (WriteHandle, single inserts), and    *)
(* the node that stores the manifest ("find" and "create" of               *)
(* ManifestHandle).                                                        *)
(*                                                                         *)
(*   client --insert--> node --find--> manifest node                       *)
(*   client <--info, segments-- node --create--> manifest node             *)
(*   client --check--> node <--write-info-- manifest node                  *)
(*                                                                         *)
(* Every process is one event loop, so a handler is one action; handlers   *)
(* that only pass an Interest or an answer on are part of the step that    *)
(* reads or writes something on its behalf.  A loss is a timeout.          *)
(***************************************************************************)
EXTENDS FileStorage, FiniteSets

CONSTANTS MaxRetry,     \* MAX_RETRY of the client
          MaxLosses,    \* bound on the timeouts
          MaxExpiries   \* bound on the insert processes that run out of time

ASSUME PutBoundsAssumption == {MaxRetry, MaxLosses, MaxExpiries} \subseteq Nat

\* Each insert command makes a process of its own, of a random id.
Pid == Put \X (1 .. MaxRetry + 1)

VARIABLES
  putter,    \* the clients
  proc,      \* m_processes of WriteHandle: a function of the live process ids
  job,       \* what is under way for each process id
  budget     \* what is left of MaxLosses and MaxExpiries

putVars == <<putter, proc, job>>

Reply == {<<>>} \cup ({100, 300, 403, 404, 405} \X Nat)

\* tries counts the insert commands; seen is the status on its way to the
\* client when check = "data".
Putter ==
  [state : {"idle", "inserting", "checking", "done", "failed", "stopped"},
   tries : 0 .. MaxRetry + 1, retries : 0 .. MaxRetry,
   check : {"none", "interest", "data"}, seen : Reply]

\* wire is the cached encoding of the response, <<>> when it has been reset;
\* noEndTime is "unset" (the epoch), in the future ("ahead") or in the past.
Process ==
  [code : {300, 405}, count : Nat, wire : Reply,
   noEndTime : {"unset", "ahead", "past"}, dying : BOOLEAN]

\* insert: the command, until it is answered; info: the Interest for the
\* client's name; fetch: the segments the fetcher still wants; save: the create
\* command and the write-info it calls for.
Job ==
  [insert : {"unsent", "interest", "free", "found", "accepted", "exists", "over"},
   info : {"unsent", "interest", "data", "over"},
   fetch : SUBSET Segment,
   save : {"unsent", "create", "write-info", "json", "over"}]

PutTypeOK ==
  /\ putter \in [Put -> Putter]
  /\ DOMAIN proc \subseteq Pid
  /\ \A pid \in DOMAIN proc : proc[pid] \in Process
  /\ job \in [Pid -> Job]
  /\ budget \in [losses : 0 .. MaxLosses, expiries : 0 .. MaxExpiries]

\* m_retryCount is not initialised: any number of retries may be left.
PutInit ==
  /\ putter \in [Put -> [state : {"idle"}, tries : {0}, retries : 0 .. MaxRetry,
                         check : {"none"}, seen : {<<>>}]]
  /\ proc = [pid \in {} |-> 0]
  /\ job = [pid \in Pid |-> [insert |-> "unsent", info |-> "unsent",
                             fetch |-> {}, save |-> "unsent"]]
  /\ budget = [losses |-> MaxLosses, expiries |-> MaxExpiries]

-----------------------------------------------------------------------------

\* The client's process answers Interests for its name.
Serving(p) == putter[p].state \in {"inserting", "checking", "stopped"}

\* The client has the segment (onPutFileInterest).
Has(p, s) == Serving(p) /\ s < Prepared(Size[p])

\* The process id of the client's last insert command.
Current(p) == <<p, putter[p].tries>>

\* The client waits for the answer to this insert command.
Awaited(pid) == putter[pid[1]].state = "inserting" /\ Current(pid[1]) = pid

Without(pid) == [q \in DOMAIN proc \ {pid} |-> proc[q]]

Lose == budget.losses > 0 /\ budget' = [budget EXCEPT !.losses = @ - 1]

-----------------------------------------------------------------------------
(* insert.                                                                 *)

\* A user puts a file.  The client's own deadline (difs.cpp:541-542) is left out: the
\* tools do not set it.
StartPut(p) ==
  /\ putter[p].state = "idle"
  /\ putter' = [putter EXCEPT ![p].state = "inserting", ![p].tries = 1]
  /\ job' = [job EXCEPT ![<<p, 1>>].insert = "interest"]
  /\ UNCHANGED <<proc, budget, storageVars>>

\* The node passes a "find" on: what it learns is whether there is a manifest
\* at this moment.
HandleFindCommand(pid) ==
  /\ job[pid].insert = "interest"
  /\ job' = [job EXCEPT ![pid].insert = IF manifest = NoPut THEN "free" ELSE "found"]
  /\ UNCHANGED <<putter, proc, budget, storageVars>>

\* The answer to the client, if it still waits.
Answered(pid, answer) == IF Awaited(pid) THEN answer ELSE "over"

\* A mutant of OnFindResponse: the command is accepted in any case.
OnFindResponseAny(pid) ==
  /\ job[pid].insert \in {"found", "free"}
  /\ job' = [job EXCEPT ![pid].insert = Answered(pid, "accepted"),
                        ![pid].info = "interest"]
  /\ proc' = [q \in DOMAIN proc \cup {pid} |->
                IF q # pid THEN proc[q]
                ELSE [code |-> 300, count |-> 0, wire |-> <<100, 0>>,
                      noEndTime |-> "unset", dying |-> FALSE]]
  /\ UNCHANGED <<putter, budget, storageVars>>

\* With a manifest the answer is 403.  Otherwise the process begins: it answers
\* 100, which stays encoded, and asks the client for the file's info.
OnFindResponse(pid) ==
  /\ \/ /\ job[pid].insert = "found"
        /\ job' = [job EXCEPT ![pid].insert = Answered(pid, "exists")]
        /\ UNCHANGED proc
     \/ /\ job[pid].insert = "free"
        /\ job' = [job EXCEPT ![pid].insert = Answered(pid, "accepted"),
                              ![pid].info = "interest"]
        /\ proc' = [q \in DOMAIN proc \cup {pid} |->
                      IF q # pid THEN proc[q]
                      ELSE [code |-> 300, count |-> 0, wire |-> <<100, 0>>,
                            noEndTime |-> "unset", dying |-> FALSE]]
  /\ UNCHANGED <<putter, budget, storageVars>>

OnInsertCommandResponse(pid) ==
  LET p == pid[1]
  IN  /\ job[pid].insert \in {"accepted", "exists"}
      /\ job' = [job EXCEPT ![pid].insert = "over"]
      /\ putter' = [putter EXCEPT ![p].state =
                      IF job[pid].insert = "exists" THEN "failed" ELSE "checking"]
      /\ UNCHANGED <<proc, budget, storageVars>>

\* The Interest or an answer is lost, or the Interest is only late, or the node has
\* forgotten it.  The command is sent again, as a new one, while retries are left.
OnInsertCommandTimeout(pid) ==
  LET p    == pid[1]
      rest == IF job[pid].insert \in {"accepted", "exists"} THEN {"over"}
              ELSE {"over", job[pid].insert}
  IN  /\ Awaited(pid)
      /\ IF job[pid].insert = "over" THEN UNCHANGED budget ELSE Lose
      /\ \E left \in rest :
           IF putter[p].retries > 0
           THEN /\ putter' = [putter EXCEPT ![p].retries = @ - 1, ![p].tries = @ + 1]
                /\ job' = [job EXCEPT ![pid].insert = left,
                                      ![<<p, pid[2] + 1>>].insert = "interest"]
           ELSE /\ putter' = [putter EXCEPT ![p].state = "stopped"]
                /\ job' = [job EXCEPT ![pid].insert = left]
      /\ UNCHANGED <<proc, storageVars>>

-----------------------------------------------------------------------------
(* The node fetches: info, segments.                                       *)

\* The client sends the file's name and end.
PutFileSendManifest(pid) ==
  /\ job[pid].info = "interest"
  /\ Serving(pid[1])
  /\ job' = [job EXCEPT ![pid].info = "data"]
  /\ UNCHANGED <<putter, proc, budget, storageVars>>

\* The manifest is sent off (writeManifest) before the first segment is asked
\* for (segInit).
OnDataValidated(pid) ==
  /\ job[pid].info = "data"
  /\ IF pid \in DOMAIN proc
     THEN /\ proc' = [proc EXCEPT ![pid].noEndTime = "ahead"]
          /\ job' = [job EXCEPT ![pid].info = "over", ![pid].save = "create",
                                ![pid].fetch = SegmentsOf(pid[1])]
     ELSE /\ job' = [job EXCEPT ![pid].info = "over"]
          /\ UNCHANGED proc
  /\ UNCHANGED <<putter, budget, storageVars>>

\* The process is dropped.  The info of a client that has ended never comes.
OnTimeout(pid) ==
  /\ job[pid].info \in {"interest", "data"}
  /\ IF job[pid].info = "interest" /\ ~Serving(pid[1]) THEN UNCHANGED budget ELSE Lose
  /\ job' = [job EXCEPT ![pid].info = "over"]
  /\ proc' = Without(pid)
  /\ UNCHANGED <<putter, storageVars>>

\* A segment of the client is stored and counted.  Single inserts never have an
\* EndBlockId: past noEndTime the code is 405, the process is due to be deleted
\* and the fetcher stops.  In time, nothing ends the process.
OnSegmentData(pid, s) ==
  LET p       == pid[1]
      past    == proc[pid].noEndTime = "past"
      counted == [proc[pid] EXCEPT !.count = @ + 1, !.wire = <<>>]
  IN  /\ s \in job[pid].fetch
      /\ Has(p, s)
      /\ InsertData(p, s)
      /\ proc' = [proc EXCEPT ![pid] = IF past
                                       THEN [counted EXCEPT !.code = 405, !.dying = TRUE]
                                       ELSE counted]
      /\ job' = [job EXCEPT ![pid].fetch = IF past THEN {} ELSE @ \ {s}]
      /\ UNCHANGED <<putter, budget, manifest>>

\* What becomes of a client that is asked for a segment: when it has prepared
\* none, it reads m_data[0] all the same, and may crash.
Asked(p) ==
  {putter[p]} \cup
  (IF Serving(p) /\ Prepared(Size[p]) = 0
   THEN {[putter[p] EXCEPT !.state = "failed", !.check = "none", !.seen = <<>>]}
   ELSE {})

\* The fetcher ends for want of a segment, which the client does not have or which
\* is lost.  Its onError handler logs.
OnFetchError(pid) ==
  /\ job[pid].fetch # {}
  /\ IF \E s \in job[pid].fetch : Has(pid[1], s) THEN Lose ELSE UNCHANGED budget
  /\ job' = [job EXCEPT ![pid].fetch = {}]
  /\ \E client \in Asked(pid[1]) : putter' = [putter EXCEPT ![pid[1]] = client]
  /\ UNCHANGED <<proc, storageVars>>

\* noEndTime passes, no check having come for NOEND_TIMEOUT.
NoEndTimePasses(pid) ==
  /\ pid \in DOMAIN proc
  /\ proc[pid].noEndTime = "ahead"
  /\ budget.expiries > 0
  /\ budget' = [budget EXCEPT !.expiries = @ - 1]
  /\ proc' = [proc EXCEPT ![pid].noEndTime = "past"]
  /\ UNCHANGED <<putter, job, storageVars>>

\* PROCESS_DELETE_TIME later.
DeleteProcess(pid) ==
  /\ pid \in DOMAIN proc
  /\ proc[pid].dying
  /\ proc' = Without(pid)
  /\ UNCHANGED <<putter, job, budget, storageVars>>

-----------------------------------------------------------------------------
(* The manifest is stored: create, write-info.                             *)

\* The manifest node answers at once and asks for the manifest.
HandleCreateCommand(pid) ==
  /\ job[pid].save = "create"
  /\ job' = [job EXCEPT ![pid].save = "write-info"]
  /\ UNCHANGED <<putter, proc, budget, storageVars>>

\* There is no answer when the process is gone.
HandleInfoCommand(pid) ==
  /\ job[pid].save = "write-info"
  /\ job' = [job EXCEPT ![pid].save = IF pid \in DOMAIN proc THEN "json" ELSE "over"]
  /\ UNCHANGED <<putter, proc, budget, storageVars>>

\* onDataValidated of ManifestHandle: whatever manifest was there is overwritten.
OnManifestData(pid) ==
  /\ job[pid].save = "json"
  /\ job' = [job EXCEPT ![pid].save = "over"]
  /\ manifest' = pid[1]
  /\ UNCHANGED <<putter, proc, budget, segs>>

\* The create, the write-info or its answer is lost; nobody asks again.
OnCreateTimeout(pid) ==
  /\ job[pid].save \in {"create", "write-info", "json"}
  /\ Lose
  /\ job' = [job EXCEPT ![pid].save = "over"]
  /\ UNCHANGED <<putter, proc, storageVars>>

-----------------------------------------------------------------------------
(* insert check.                                                           *)

PutFileStartCheckCommand(p) ==
  /\ putter[p].state = "checking"
  /\ putter[p].check = "none"
  /\ putter' = [putter EXCEPT ![p].check = "interest"]
  /\ UNCHANGED <<proc, job, budget, storageVars>>

\* extendNoEndTime: a process that has not begun to fetch is past its time, too.
ExtendNoEndTime(process) ==
  IF process.noEndTime = "ahead" THEN process ELSE [process EXCEPT !.code = 405]

\* A response is encoded once: setCode does not reset the encoding, the other
\* setters do.
Encoded(process) ==
  IF process.wire # <<>> THEN process.wire ELSE <<process.code, process.count>>

\* A mutant of HandleCheckCommand: there is no answer when the process is gone.
HandleCheckCommandSilent(p) ==
  LET pid == Current(p)
  IN  /\ putter[p].check = "interest"
      /\ pid \in DOMAIN proc
      /\ LET process == ExtendNoEndTime(proc[pid])
             wire    == Encoded(process)
         IN  /\ proc' = [proc EXCEPT ![pid] = [process EXCEPT !.wire = wire]]
             /\ putter' = [putter EXCEPT ![p].check = "data", ![p].seen = wire]
      /\ UNCHANGED <<job, budget, storageVars>>

\* The answer is the response of the process, or 404 when it is gone.
HandleCheckCommand(p) ==
  LET pid == Current(p)
  IN  /\ putter[p].check = "interest"
      /\ IF pid \notin DOMAIN proc
         THEN /\ putter' = [putter EXCEPT ![p].check = "data", ![p].seen = <<404, 0>>]
              /\ UNCHANGED proc
         ELSE LET process == ExtendNoEndTime(proc[pid])
                  wire    == Encoded(process)
              IN  /\ proc' = [proc EXCEPT ![pid] = [process EXCEPT !.wire = wire]]
                  /\ putter' = [putter EXCEPT ![p].check = "data", ![p].seen = wire]
      /\ UNCHANGED <<job, budget, storageVars>>

\* A mutant of OnCheckCommandResponse: the last segment number, not their count.
OnCheckCommandResponseEarly(p) ==
  LET code  == putter[p].seen[1]
      count == putter[p].seen[2]
  IN  /\ putter[p].check = "data"
      /\ putter' = [putter EXCEPT ![p].check = "none", ![p].seen = <<>>,
                      ![p].state = IF code >= 400 THEN "failed"
                                   ELSE IF count = Prepared(Size[p]) - 1 THEN "done" ELSE @]
      /\ UNCHANGED <<proc, job, budget, storageVars>>

\* The client ends when the count is that of the segments it has prepared.
OnCheckCommandResponse(p) ==
  LET code  == putter[p].seen[1]
      count == putter[p].seen[2]
  IN  /\ putter[p].check = "data"
      /\ putter' = [putter EXCEPT ![p].check = "none", ![p].seen = <<>>,
                      ![p].state = IF code >= 400 THEN "failed"
                                   ELSE IF count = Prepared(Size[p]) THEN "done" ELSE @]
      /\ UNCHANGED <<proc, job, budget, storageVars>>

\* A mutant of OnCheckCommandTimeout: retries are not limited.
OnCheckCommandTimeoutAlways(p) ==
  /\ putter[p].check # "none"
  /\ Lose
  /\ putter' = [putter EXCEPT ![p].retries = @ - 1, ![p].check = "interest",
                              ![p].seen = <<>>]
  /\ UNCHANGED <<proc, job, storageVars>>

\* A client without retries left stops asking, but still serves its segments.
OnCheckCommandTimeout(p) ==
  /\ putter[p].check # "none"
  /\ Lose
  /\ putter' = [putter EXCEPT ![p] =
                  IF putter[p].retries > 0
                  THEN [@ EXCEPT !.retries = putter[p].retries - 1, !.check = "interest",
                                 !.seen = <<>>]
                  ELSE [@ EXCEPT !.state = "stopped", !.check = "none", !.seen = <<>>]]
  /\ UNCHANGED <<proc, job, storageVars>>

=============================================================================
