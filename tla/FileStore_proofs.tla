-------------------------- MODULE FileStore_proofs --------------------------
EXTENDS FileStore, FiniteSetTheorems, TLAPS

-----------------------------------------------------------------------------
(* A client's segments.                                                    *)

\* Division with remainder (m_bytes / m_blockSize, m_bytes % m_blockSize).
LEMMA Division ==
  ASSUME NEW bytes \in Nat
  PROVE  /\ Chunks(bytes) \in Nat
         /\ LastDataSize(bytes) \in 0 .. BlockSize - 1
         /\ bytes = BlockSize * Chunks(bytes) + LastDataSize(bytes)
  BY BlockSizeAssumption, SMT DEF Chunks, LastDataSize

\* putFilePrepareNextData: a file whose size is no multiple of the block size is
\* cut into packets that are the file, and that are what its info announces.
THEOREM CutsWholeAlways ==
  ASSUME NEW bytes \in Nat, bytes % BlockSize # 0
  PROVE  CutsWhole(bytes)
<1> DEFINE n == Chunks(bytes)
           r == LastDataSize(bytes)
           data == Packets(bytes)
<1>1. /\ n \in Nat /\ r \in 1 .. BlockSize - 1
      /\ bytes = BlockSize * n + r
      /\ BlockSize \in Nat
  <2>1. n \in Nat /\ r \in 0 .. BlockSize - 1 /\ bytes = BlockSize * n + r
    BY Division
  <2>2. r # 0
    BY DEF LastDataSize
  <2> HIDE DEF n, r
  <2> QED BY <2>1, <2>2, BlockSizeAssumption
<1>2. Prepared(bytes) = n + 1 /\ EndBlock(bytes) = n
  BY <1>1 DEF Prepared, PieceSize, EndBlock, LastDataSize, Chunks
<1>3. DOMAIN data = 0 .. n
  BY <1>1, <1>2 DEF Packets
<1>4. ASSUME NEW i \in 0 .. n
      PROVE  /\ data[i].segment = i
             /\ data[i].first = BlockSize * i
             /\ data[i].last = IF i = n THEN bytes - 1 ELSE BlockSize * i + BlockSize - 1
  <2>1. /\ data[i].segment = n - (n - i)
        /\ data[i].first = PieceStart(bytes, n - i)
        /\ data[i].last = PieceStart(bytes, n - i) + PieceSize(bytes, n - i) - 1
    BY <1>1, <1>2 DEF Packets, PieceSegment
  <2>2. BlockSize * n - BlockSize * (n - i) = BlockSize * i
    BY <1>1, SMT
  <2>3. PieceStart(bytes, n - i) = BlockSize * i
    BY <1>1, <2>2 DEF PieceStart
  <2> QED BY <1>1, <2>1, <2>3 DEF PieceSize
<1>5. ASSUME NEW i \in 0 .. n
      PROVE  /\ data[i].segment = i
             /\ data[i].first <= data[i].last
             /\ data[i].first = IF i = 0 THEN 0 ELSE data[i - 1].last + 1
  <2>1. BlockSize * i \in Int
    BY <1>1
  <2>2. data[i].first <= data[i].last
    BY <1>1, <1>4, <2>1
  <2>3. CASE i = 0
    BY <1>1, <1>4, <2>2, <2>3
  <2>4. CASE i # 0
    <3>1. i - 1 \in 0 .. n /\ i - 1 # n
      BY <1>1, <2>4
    <3>2. data[i - 1].last = BlockSize * (i - 1) + BlockSize - 1
      BY <1>4, <3>1
    <3>3. BlockSize * (i - 1) + BlockSize = BlockSize * i
      BY <1>1, SMT
    <3> QED BY <1>1, <1>4, <2>1, <2>2, <2>4, <3>2, <3>3
  <2> QED BY <2>3, <2>4
<1>6. data[n].last = bytes - 1
  BY <1>1, <1>4
<1> HIDE DEF data
<1> QED BY <1>1, <1>2, <1>3, <1>5, <1>6 DEF CutsWhole, data

\* The loop of putFilePrepareNextData returns in its first turn, with nothing
\* prepared, for any other file, though the info announces at least one segment.
THEOREM NothingPrepared ==
  ASSUME NEW bytes \in Nat \ {0}, bytes % BlockSize = 0
  PROVE  Prepared(bytes) = 0 /\ EndBlock(bytes) >= 0
<1>1. bytes = BlockSize * Chunks(bytes) /\ Chunks(bytes) \in Nat
  <2>1. /\ Chunks(bytes) \in Nat
        /\ bytes = BlockSize * Chunks(bytes) + LastDataSize(bytes)
    BY Division
  <2>2. LastDataSize(bytes) = 0
    BY DEF LastDataSize
  <2> QED BY <2>1, <2>2, BlockSizeAssumption
<1>2. Chunks(bytes) # 0
  BY <1>1, BlockSizeAssumption, SMT
<1> QED BY <1>1, <1>2 DEF Prepared, PieceSize, EndBlock, LastDataSize, Chunks

-----------------------------------------------------------------------------
(* The inductive invariant of the puts.                                    *)

\* The pids are pairs.
LEMMA Pids ==
  ASSUME NEW pid \in Pid
  PROVE  /\ pid[1] \in Put /\ pid[2] \in 1 .. MaxRetry + 1
         /\ pid = <<pid[1], pid[2]>>
  BY DEF Pid

\* The manifest of a put has been sent off.
Saved(p) == \E t \in 1 .. MaxRetry + 1 : job[<<p, t>>].save # "unsent"

\* Segments of a put are on the disk of its node, unless something happened.
Kept(p, W) == p \in excused \/ \A s \in W : segs[At[p]][s] = p

\* So many segments of the put have been stored.
Stored(p, n) ==
  \E W \in SUBSET SegmentsOf(p) : /\ Cardinality(W) = n
                                  /\ Kept(p, W)
                                  /\ W # {} => Saved(p)

\* Retries are limited, and a command that was not sent has no process; the count
\* that a client is going to see is that of segments that were stored.
ClientOK(p) ==
  /\ putter[p].tries + putter[p].retries <= MaxRetry + 1
  /\ putter[p].state = "idle" => putter[p].tries = 0
  /\ \A t \in 1 .. MaxRetry + 1 : t > putter[p].tries => job[<<p, t>>].insert = "unsent"
  /\ putter[p].check = "data" =>
       putter[p].seen # <<>> /\ Stored(p, putter[p].seen[2])

\* What is under way for a process comes in its order: insert, info, then create
\* and the segments; only a live process is fetching.
JobFits(pid, j, live) ==
  /\ j.insert \in {"unsent", "interest", "free", "found"} => j.info = "unsent"
  /\ j.info = "unsent" => ~live
  /\ j.info # "over" => j.save = "unsent"
  /\ j.save = "unsent" => j.fetch = {}
  /\ j.fetch # {} => live
  /\ j.fetch \subseteq SegmentsOf(pid[1])

JobOK(pid) == JobFits(pid, job[pid], pid \in DOMAIN proc)

\* The count is that of segments which are stored and no longer wanted.
ProcFits(pid, j, x) ==
  /\ j.save = "unsent" => x.count = 0
  /\ x.dying => j.info = "over" /\ j.fetch = {}
  /\ x.wire # <<>> => x.wire[2] = x.count
  /\ \E W \in SUBSET (SegmentsOf(pid[1]) \ j.fetch) :
       Cardinality(W) = x.count /\ Kept(pid[1], W)

ProcOK(pid) == ProcFits(pid, job[pid], proc[pid])

PutInv ==
  /\ PutTypeOK
  /\ \A p \in Put : ClientOK(p)
  /\ \A pid \in Pid : JobOK(pid)
  /\ \A pid \in DOMAIN proc : ProcOK(pid)

-----------------------------------------------------------------------------
(* The steps of a put.                                                     *)

\* What no step does to the things under way: that a process begins twice, or a
\* manifest is stored that was not sent off.
Goes(a, b) ==
  /\ a.info # "unsent" => b.info # "unsent"
  /\ a.info = "unsent" /\ b.info # "unsent" => b.info = "interest"
  /\ a.save # "unsent" => b.save # "unsent"
  /\ b.save = "over" => a.save # "unsent"

AllGo == \A pid \in Pid : Goes(job[pid], job'[pid])

\* What is stored stays so.
AllKept == \A p \in Put : \A W \in SUBSET SegmentsOf(p) : Kept(p, W) => Kept(p, W)'

\* No insert command is sent.
NoneSent == \A pid \in Pid : job[pid].insert = "unsent" => job'[pid].insert = "unsent"

\* The disks have a file or none for every segment.
SegsTyped == segs \in [Node -> [Segment -> Put \cup {NoPut}]]

\* The info of a file announces one segment or more.
LEMMA LastIsNat ==
  ASSUME NEW p \in Put
  PROVE  Last(p) \in Nat
  <1>1. Size[p] \in Nat \ {0} /\ BlockSize \in Nat \ {0}
    BY SizeAssumption, BlockSizeAssumption
  <1>2. /\ Chunks(Size[p]) \in Nat /\ LastDataSize(Size[p]) \in 0 .. BlockSize - 1
        /\ Size[p] = BlockSize * Chunks(Size[p]) + LastDataSize(Size[p])
    BY <1>1, Division
  <1>3. LastDataSize(Size[p]) = 0 => Chunks(Size[p]) # 0
    <2> SUFFICES ASSUME LastDataSize(Size[p]) = 0, Chunks(Size[p]) = 0
                 PROVE  FALSE
      OBVIOUS
    <2>1. Size[p] = BlockSize * 0 + 0
      BY <1>2
    <2> QED
      BY <1>1, <2>1
  <1>4. Last(p) = Chunks(Size[p]) + (IF LastDataSize(Size[p]) # 0 THEN 1 ELSE 0) - 1
    BY DEF Last, EndBlock, Chunks, LastDataSize
  <1> QED
    BY <1>2, <1>3, <1>4

LEMMA StoredStays ==
  ASSUME AllKept, AllGo, NEW p \in Put, NEW n, Stored(p, n)
  PROVE  Stored(p, n)'
  <1>1. PICK W \in SUBSET SegmentsOf(p) :
          Cardinality(W) = n /\ Kept(p, W) /\ (W # {} => Saved(p))
    BY DEF Stored
  <1>2. Kept(p, W)'
    BY <1>1 DEF AllKept
  <1>3. Saved(p) => Saved(p)'
    <2>1. \A t \in 1 .. MaxRetry + 1 : <<p, t>> \in Pid
      BY DEF Pid
    <2> QED
      BY <2>1 DEF Saved, AllGo, Goes
  <1> QED
    BY <1>1, <1>2, <1>3 DEF Stored

LEMMA JobTo ==
  ASSUME PutTypeOK, NEW pid \in Pid, NEW j \in Job, job' = [job EXCEPT ![pid] = j]
  PROVE  /\ job' \in [Pid -> Job]
         /\ job'[pid] = j
         /\ \A q \in Pid : q # pid => job'[q] = job[q]
         /\ Goes(job[pid], j) => AllGo
         /\ (job[pid].insert = "unsent" => j.insert = "unsent") => NoneSent
  BY DEF PutTypeOK, AllGo, NoneSent, Goes

\* Clients that do nothing.
LEMMA ClientStays ==
  ASSUME PutInv, AllKept, AllGo, NEW p \in Put, putter'[p] = putter[p],
         \A t \in 1 .. MaxRetry + 1 :
           job[<<p, t>>].insert = "unsent" => job'[<<p, t>>].insert = "unsent"
  PROVE  ClientOK(p)'
  <1>1. ClientOK(p)
    BY DEF PutInv
  <1> QED
    BY <1>1, StoredStays DEF ClientOK

LEMMA ClientsStay ==
  ASSUME PutInv, AllKept, AllGo, NoneSent, UNCHANGED putter
  PROVE  \A p \in Put : ClientOK(p)'
  <1>1. \A p \in Put, t \in 1 .. MaxRetry + 1 : <<p, t>> \in Pid
    BY DEF Pid
  <1> QED
    BY <1>1, ClientStays DEF NoneSent

\* A process that goes on with what it has got.
LEMMA ProcStays ==
  ASSUME PutInv, AllKept, AllGo, NEW pid \in Pid, pid \in DOMAIN proc,
         job'[pid].fetch \subseteq job[pid].fetch,
         proc'[pid].dying => job'[pid].info = "over" /\ job'[pid].fetch = {},
         proc'[pid].wire # <<>> => proc'[pid].wire[2] = proc[pid].count,
         proc'[pid].count = proc[pid].count
  PROVE  ProcOK(pid)'
  <1>1. ProcFits(pid, job[pid], proc[pid])
    BY DEF PutInv, ProcOK
  <1>2. PICK W \in SUBSET (SegmentsOf(pid[1]) \ job[pid].fetch) :
          Cardinality(W) = proc[pid].count /\ Kept(pid[1], W)
    BY <1>1 DEF ProcFits
  <1>3. Kept(pid[1], W)'
    BY <1>2, Pids DEF AllKept
  <1>4. W \in SUBSET (SegmentsOf(pid[1]) \ job'[pid].fetch)
    BY <1>2
  <1>5. job'[pid].save = "unsent" => proc'[pid].count = 0
    BY <1>1 DEF ProcFits, AllGo, Goes
  <1> QED
    BY <1>2, <1>3, <1>4, <1>5 DEF ProcOK, ProcFits

Budget == [losses : 0 .. MaxLosses, expiries : 0 .. MaxExpiries]

LEMMA LoseTypes ==
  ASSUME PutTypeOK, Lose \/ UNCHANGED budget
  PROVE  budget' \in Budget
  BY PutBoundsAssumption DEF PutTypeOK, Lose, Budget

\* A step of one process that its node and its client take no part in.
LEMMA JobOnly ==
  ASSUME PutInv, AllKept, NEW pid \in Pid, NEW j \in Job, job' = [job EXCEPT ![pid] = j],
         UNCHANGED <<putter, proc>>, budget' \in Budget, Goes(job[pid], j),
         job[pid].insert = "unsent" => j.insert = "unsent",
         job[pid].info = "over" => j.info = "over",
         j.fetch = job[pid].fetch, JobFits(pid, j, pid \in DOMAIN proc)
  PROVE  PutInv' /\ AllGo
  <1>1. PutTypeOK
    BY DEF PutInv
  <1>2. /\ job' \in [Pid -> Job] /\ job'[pid] = j
        /\ \A q \in Pid : q # pid => job'[q] = job[q]
        /\ AllGo /\ NoneSent
    BY <1>1, JobTo
  <1>3. PutTypeOK'
    BY <1>1, <1>2 DEF PutTypeOK, Budget
  <1>4. \A p \in Put : ClientOK(p)'
    BY <1>2, ClientsStay
  <1>5. ASSUME NEW q \in Pid
        PROVE  JobOK(q)'
    <2>1. JobOK(q)
      BY DEF PutInv
    <2> QED
      BY <1>2, <2>1 DEF JobOK, JobFits
  <1>6. ASSUME NEW q \in DOMAIN proc
        PROVE  ProcOK(q)'
    <2>1. q \in Pid /\ ProcFits(q, job[q], proc[q])
      BY <1>1 DEF PutTypeOK, PutInv, ProcOK
    <2>2. job'[q].fetch = job[q].fetch /\ (job[q].info = "over" => job'[q].info = "over")
      BY <1>2, <2>1
    <2> QED
      BY <1>2, <2>1, <2>2, ProcStays DEF ProcFits
  <1> QED
    BY <1>2, <1>3, <1>4, <1>5, <1>6 DEF PutInv

LEMMA HandleFindKeeps ==
  ASSUME PutInv, AllKept, NEW pid \in Pid, HandleFindCommand(pid)
  PROVE  PutInv' /\ AllGo
  <1> DEFINE j == [job[pid] EXCEPT !.insert = IF manifest = NoPut THEN "free" ELSE "found"]
  <1>1. job[pid] \in Job /\ JobFits(pid, job[pid], pid \in DOMAIN proc) /\ PutTypeOK
    BY DEF PutInv, PutTypeOK, JobOK
  <1>2. j \in Job /\ job' = [job EXCEPT ![pid] = j]
    BY <1>1 DEF HandleFindCommand, Job
  <1>3. /\ Goes(job[pid], j) /\ JobFits(pid, j, pid \in DOMAIN proc)
        /\ j.fetch = job[pid].fetch /\ j.info = job[pid].info
    BY <1>1 DEF HandleFindCommand, Job, Goes, JobFits
  <1>4. budget' \in Budget /\ UNCHANGED <<putter, proc>> /\ job[pid].insert # "unsent"
    BY <1>1, LoseTypes DEF HandleFindCommand
  <1> HIDE DEF j
  <1> QED
    BY <1>2, <1>3, <1>4, JobOnly

LEMMA FindResponseFoundKeeps ==
  ASSUME PutInv, AllKept, NEW pid \in Pid, job[pid].insert = "found", OnFindResponse(pid)
  PROVE  PutInv' /\ AllGo
  <1> DEFINE j == [job[pid] EXCEPT !.insert = Answered(pid, "exists")]
  <1>1. job[pid] \in Job /\ JobFits(pid, job[pid], pid \in DOMAIN proc) /\ PutTypeOK
    BY DEF PutInv, PutTypeOK, JobOK
  <1>2. j \in Job /\ job' = [job EXCEPT ![pid] = j]
    BY <1>1 DEF OnFindResponse, Answered, Job
  <1>3. /\ Goes(job[pid], j) /\ JobFits(pid, j, pid \in DOMAIN proc)
        /\ j.fetch = job[pid].fetch
        /\ job[pid].info = "over" => j.info = "over"
        /\ job[pid].insert = "unsent" => j.insert = "unsent"
    BY <1>1 DEF OnFindResponse, Answered, Job, Goes, JobFits
  <1>4. budget' \in Budget /\ UNCHANGED <<putter, proc>>
    BY <1>1, LoseTypes DEF OnFindResponse
  <1> HIDE DEF j
  <1> QED
    BY <1>2, <1>3, <1>4, JobOnly

LEMMA PutFileSendManifestKeeps ==
  ASSUME PutInv, AllKept, NEW pid \in Pid, PutFileSendManifest(pid)
  PROVE  PutInv' /\ AllGo
  <1> DEFINE j == [job[pid] EXCEPT !.info = "data"]
  <1>1. job[pid] \in Job /\ JobFits(pid, job[pid], pid \in DOMAIN proc) /\ PutTypeOK
    BY DEF PutInv, PutTypeOK, JobOK
  <1>2. j \in Job /\ job' = [job EXCEPT ![pid] = j]
    BY <1>1 DEF PutFileSendManifest, Job
  <1>3. /\ Goes(job[pid], j) /\ JobFits(pid, j, pid \in DOMAIN proc)
        /\ j.fetch = job[pid].fetch
        /\ job[pid].info = "over" => j.info = "over"
        /\ job[pid].insert = "unsent" => j.insert = "unsent"
    BY <1>1 DEF PutFileSendManifest, Job, Goes, JobFits
  <1>4. budget' \in Budget /\ UNCHANGED <<putter, proc>>
    BY <1>1, LoseTypes DEF PutFileSendManifest
  <1> HIDE DEF j
  <1> QED
    BY <1>2, <1>3, <1>4, JobOnly

LEMMA HandleCreateKeeps ==
  ASSUME PutInv, AllKept, NEW pid \in Pid, HandleCreateCommand(pid)
  PROVE  PutInv' /\ AllGo
  <1> DEFINE j == [job[pid] EXCEPT !.save = "write-info"]
  <1>1. job[pid] \in Job /\ JobFits(pid, job[pid], pid \in DOMAIN proc) /\ PutTypeOK
    BY DEF PutInv, PutTypeOK, JobOK
  <1>2. j \in Job /\ job' = [job EXCEPT ![pid] = j]
    BY <1>1 DEF HandleCreateCommand, Job
  <1>3. /\ Goes(job[pid], j) /\ JobFits(pid, j, pid \in DOMAIN proc)
        /\ j.fetch = job[pid].fetch
        /\ job[pid].info = "over" => j.info = "over"
        /\ job[pid].insert = "unsent" => j.insert = "unsent"
    BY <1>1 DEF HandleCreateCommand, Job, Goes, JobFits
  <1>4. budget' \in Budget /\ UNCHANGED <<putter, proc>>
    BY <1>1, LoseTypes DEF HandleCreateCommand
  <1> HIDE DEF j
  <1> QED
    BY <1>2, <1>3, <1>4, JobOnly

LEMMA HandleInfoKeeps ==
  ASSUME PutInv, AllKept, NEW pid \in Pid, HandleInfoCommand(pid)
  PROVE  PutInv' /\ AllGo
  <1> DEFINE j == [job[pid] EXCEPT !.save = IF pid \in DOMAIN proc THEN "json" ELSE "over"]
  <1>1. job[pid] \in Job /\ JobFits(pid, job[pid], pid \in DOMAIN proc) /\ PutTypeOK
    BY DEF PutInv, PutTypeOK, JobOK
  <1>2. j \in Job /\ job' = [job EXCEPT ![pid] = j]
    BY <1>1 DEF HandleInfoCommand, Job
  <1>3. /\ Goes(job[pid], j) /\ JobFits(pid, j, pid \in DOMAIN proc)
        /\ j.fetch = job[pid].fetch
        /\ job[pid].info = "over" => j.info = "over"
        /\ job[pid].insert = "unsent" => j.insert = "unsent"
    BY <1>1 DEF HandleInfoCommand, Job, Goes, JobFits
  <1>4. budget' \in Budget /\ UNCHANGED <<putter, proc>>
    BY <1>1, LoseTypes DEF HandleInfoCommand
  <1> HIDE DEF j
  <1> QED
    BY <1>2, <1>3, <1>4, JobOnly

LEMMA ManifestDataKeeps ==
  ASSUME PutInv, AllKept, NEW pid \in Pid, OnManifestData(pid)
  PROVE  PutInv' /\ AllGo
  <1> DEFINE j == [job[pid] EXCEPT !.save = "over"]
  <1>1. job[pid] \in Job /\ JobFits(pid, job[pid], pid \in DOMAIN proc) /\ PutTypeOK
    BY DEF PutInv, PutTypeOK, JobOK
  <1>2. j \in Job /\ job' = [job EXCEPT ![pid] = j]
    BY <1>1 DEF OnManifestData, Job
  <1>3. /\ Goes(job[pid], j) /\ JobFits(pid, j, pid \in DOMAIN proc)
        /\ j.fetch = job[pid].fetch
        /\ job[pid].info = "over" => j.info = "over"
        /\ job[pid].insert = "unsent" => j.insert = "unsent"
    BY <1>1 DEF OnManifestData, Job, Goes, JobFits
  <1>4. budget' \in Budget /\ UNCHANGED <<putter, proc>>
    BY <1>1, LoseTypes DEF OnManifestData
  <1> HIDE DEF j
  <1> QED
    BY <1>2, <1>3, <1>4, JobOnly

LEMMA CreateTimeoutKeeps ==
  ASSUME PutInv, AllKept, NEW pid \in Pid, OnCreateTimeout(pid)
  PROVE  PutInv' /\ AllGo
  <1> DEFINE j == [job[pid] EXCEPT !.save = "over"]
  <1>1. job[pid] \in Job /\ JobFits(pid, job[pid], pid \in DOMAIN proc) /\ PutTypeOK
    BY DEF PutInv, PutTypeOK, JobOK
  <1>2. j \in Job /\ job' = [job EXCEPT ![pid] = j]
    BY <1>1 DEF OnCreateTimeout, Job
  <1>3. /\ Goes(job[pid], j) /\ JobFits(pid, j, pid \in DOMAIN proc)
        /\ j.fetch = job[pid].fetch
        /\ job[pid].info = "over" => j.info = "over"
        /\ job[pid].insert = "unsent" => j.insert = "unsent"
    BY <1>1 DEF OnCreateTimeout, Job, Goes, JobFits
  <1>4. budget' \in Budget /\ UNCHANGED <<putter, proc>>
    BY <1>1, LoseTypes DEF OnCreateTimeout
  <1> HIDE DEF j
  <1> QED
    BY <1>2, <1>3, <1>4, JobOnly

\* A step of one process that its client takes no part in.
LEMMA OneProcess ==
  ASSUME PutInv, AllKept, NEW pid \in Pid, NEW j \in Job, job' = [job EXCEPT ![pid] = j],
         UNCHANGED putter, budget' \in Budget, Goes(job[pid], j),
         job[pid].insert = "unsent" => j.insert = "unsent",
         DOMAIN proc' \subseteq DOMAIN proc \cup {pid},
         \A q \in DOMAIN proc : q # pid => q \in DOMAIN proc' /\ proc'[q] = proc[q],
         JobFits(pid, j, pid \in DOMAIN proc'),
         pid \in DOMAIN proc' => proc'[pid] \in Process /\ ProcOK(pid)'
  PROVE  PutInv' /\ AllGo
  <1>1. PutTypeOK
    BY DEF PutInv
  <1>2. /\ job' \in [Pid -> Job] /\ job'[pid] = j
        /\ \A q \in Pid : q # pid => job'[q] = job[q]
        /\ AllGo /\ NoneSent
    BY <1>1, JobTo
  <1>3. PutTypeOK'
    BY <1>1, <1>2 DEF PutTypeOK, Budget
  <1>4. \A p \in Put : ClientOK(p)'
    BY <1>2, ClientsStay
  <1>5. ASSUME NEW q \in Pid
        PROVE  JobOK(q)'
    <2>1. JobOK(q)
      BY DEF PutInv
    <2>2. q # pid => ((q \in DOMAIN proc') <=> (q \in DOMAIN proc))
      OBVIOUS
    <2> QED
      BY <1>2, <2>1, <2>2 DEF JobOK, JobFits
  <1>6. ASSUME NEW q \in DOMAIN proc'
        PROVE  ProcOK(q)'
    <2>1. CASE q # pid
      <3>1. q \in DOMAIN proc /\ q \in Pid /\ ProcFits(q, job[q], proc[q])
        BY <1>1, <2>1 DEF PutTypeOK, PutInv, ProcOK
      <3> QED
        BY <1>2, <2>1, <3>1, ProcStays DEF ProcFits
    <2> QED
      BY <2>1
  <1> QED
    BY <1>2, <1>3, <1>4, <1>5, <1>6 DEF PutInv

LEMMA FindResponseFreeKeeps ==
  ASSUME PutInv, AllKept, NEW pid \in Pid, job[pid].insert = "free", OnFindResponse(pid)
  PROVE  PutInv' /\ AllGo
  <1> DEFINE j == [job[pid] EXCEPT !.insert = Answered(pid, "accepted"),
                                   !.info = "interest"]
             x == [code |-> 300, count |-> 0, wire |-> <<100, 0>>,
                   noEndTime |-> "unset", dying |-> FALSE]
  <1>1. job[pid] \in Job /\ JobFits(pid, job[pid], pid \in DOMAIN proc) /\ PutTypeOK
    BY DEF PutInv, PutTypeOK, JobOK
  <1>2. j \in Job /\ job' = [job EXCEPT ![pid] = j]
    <2>1. job' = [job EXCEPT ![pid].insert = Answered(pid, "accepted"),
                             ![pid].info = "interest"]
      BY DEF OnFindResponse
    <2>2. job' = [job EXCEPT ![pid] = j]
      BY <1>1, <2>1 DEF Job
    <2>3. j \in Job
      BY <1>1 DEF Answered, Job
    <2> QED
      BY <2>2, <2>3
  <1>3. /\ DOMAIN proc' = DOMAIN proc \cup {pid} /\ proc'[pid] = x
        /\ \A q \in DOMAIN proc : q # pid => q \in DOMAIN proc' /\ proc'[q] = proc[q]
    BY DEF OnFindResponse
  <1>4. /\ Goes(job[pid], j) /\ JobFits(pid, j, TRUE)
        /\ j.save = "unsent" /\ j.fetch = {}
    BY <1>1 DEF OnFindResponse, Answered, Job, Goes, JobFits
  <1>5. x \in Process /\ x.count = 0 /\ x.wire[2] = 0 /\ x.dying = FALSE
    BY DEF Process, Reply
  <1>6. budget' \in Budget /\ UNCHANGED putter /\ job[pid].insert # "unsent"
    BY <1>1, LoseTypes DEF OnFindResponse
  <1>7. job'[pid] = j
    BY <1>1, <1>2, JobTo
  <1> HIDE DEF j, x
  <1>8. ProcOK(pid)'
    <2>1. {} \in SUBSET (SegmentsOf(pid[1]) \ j.fetch) /\ Cardinality({}) = 0
      BY FS_EmptySet
    <2>2. Kept(pid[1], {})'
      BY DEF Kept
    <2> QED
      BY <1>3, <1>5, <1>7, <2>1, <2>2 DEF ProcOK, ProcFits
  <1> QED
    BY <1>2, <1>3, <1>4, <1>5, <1>6, <1>8, OneProcess

LEMMA FindResponseKeeps ==
  ASSUME PutInv, AllKept, NEW pid \in Pid, OnFindResponse(pid)
  PROVE  PutInv' /\ AllGo
  BY FindResponseFoundKeeps, FindResponseFreeKeeps DEF OnFindResponse

LEMMA DataValidatedKeeps ==
  ASSUME PutInv, AllKept, NEW pid \in Pid, OnDataValidated(pid)
  PROVE  PutInv' /\ AllGo
  <1>1. /\ job[pid] \in Job /\ JobFits(pid, job[pid], pid \in DOMAIN proc) /\ PutTypeOK
        /\ job[pid].info = "data" /\ job[pid].insert # "unsent"
    BY DEF PutInv, PutTypeOK, JobOK, JobFits, OnDataValidated
  <1>2. budget' \in Budget /\ UNCHANGED putter
    BY <1>1, LoseTypes DEF OnDataValidated
  <1>3. CASE pid \in DOMAIN proc
    <2> DEFINE j == [job[pid] EXCEPT !.info = "over", !.save = "create",
                                     !.fetch = SegmentsOf(pid[1])]
               x == [proc[pid] EXCEPT !.noEndTime = "ahead"]
    <2>1. SegmentsOf(pid[1]) \subseteq Segment
      BY Pids DEF Segment
    <2>2. j \in Job /\ job' = [job EXCEPT ![pid] = j]
      BY <1>1, <1>3, <2>1 DEF OnDataValidated, Job
    <2>3. proc[pid] \in Process /\ ProcFits(pid, job[pid], proc[pid])
      BY <1>1, <1>3 DEF PutTypeOK, PutInv, ProcOK
    <2>4. /\ x \in Process /\ x.count = proc[pid].count /\ x.wire = proc[pid].wire
          /\ x.dying = proc[pid].dying
      BY <2>3 DEF Process
    <2>5. proc' = [proc EXCEPT ![pid] = x]
      BY <1>3 DEF OnDataValidated
    <2>6. /\ Goes(job[pid], j) /\ JobFits(pid, j, TRUE) /\ j.insert = job[pid].insert
          /\ j.fetch = SegmentsOf(pid[1]) /\ j.save = "create"
      BY <1>1 DEF Job, Goes, JobFits
    <2>7. job'[pid] = j
      BY <1>1, <2>2, JobTo
    <2> HIDE DEF j, x
    <2>8. DOMAIN proc' = DOMAIN proc /\ proc'[pid] = x
          /\ \A q \in DOMAIN proc : q # pid => proc'[q] = proc[q]
      BY <1>3, <2>5
    <2>9. x.count = 0 /\ ~x.dying
      BY <1>1, <2>3, <2>4 DEF ProcFits, JobFits
    <2>10. ProcOK(pid)'
      <3>1. {} \in SUBSET (SegmentsOf(pid[1]) \ j.fetch) /\ Cardinality({}) = 0
        BY FS_EmptySet
      <3>2. Kept(pid[1], {})'
        BY DEF Kept
      <3>3. x.wire # <<>> => x.wire[2] = x.count
        BY <2>3, <2>4 DEF ProcFits
      <3> QED
        BY <2>6, <2>7, <2>8, <2>9, <3>1, <3>2, <3>3 DEF ProcOK, ProcFits
    <2> QED
      BY <1>1, <1>2, <1>3, <2>2, <2>4, <2>6, <2>8, <2>10, OneProcess
  <1>4. CASE pid \notin DOMAIN proc
    <2> DEFINE j == [job[pid] EXCEPT !.info = "over"]
    <2>1. j \in Job /\ job' = [job EXCEPT ![pid] = j]
      BY <1>1, <1>4 DEF OnDataValidated, Job
    <2>2. /\ Goes(job[pid], j) /\ JobFits(pid, j, pid \in DOMAIN proc) /\ j.insert = job[pid].insert
          /\ j.fetch = job[pid].fetch
      BY <1>1, <1>4 DEF Job, Goes, JobFits
    <2>3. UNCHANGED proc
      BY <1>4 DEF OnDataValidated
    <2> HIDE DEF j
    <2> QED
      BY <1>1, <1>2, <1>4, <2>1, <2>2, <2>3, JobOnly
  <1> QED
    BY <1>3, <1>4

LEMMA TimeoutKeeps ==
  ASSUME PutInv, AllKept, NEW pid \in Pid, OnTimeout(pid)
  PROVE  PutInv' /\ AllGo
  <1> DEFINE j == [job[pid] EXCEPT !.info = "over"]
  <1>1. /\ job[pid] \in Job /\ JobFits(pid, job[pid], pid \in DOMAIN proc) /\ PutTypeOK
        /\ job[pid].info \in {"interest", "data"} /\ job[pid].insert # "unsent"
    BY DEF PutInv, PutTypeOK, JobOK, JobFits, OnTimeout
  <1>2. j \in Job /\ job' = [job EXCEPT ![pid] = j]
    BY <1>1 DEF OnTimeout, Job
  <1>3. Goes(job[pid], j) /\ JobFits(pid, j, FALSE)
    BY <1>1 DEF Job, Goes, JobFits
  <1>4. budget' \in Budget /\ UNCHANGED putter
    BY <1>1, LoseTypes DEF OnTimeout
  <1>5. /\ pid \notin DOMAIN proc' /\ DOMAIN proc' \subseteq DOMAIN proc
        /\ \A q \in DOMAIN proc : q # pid => q \in DOMAIN proc' /\ proc'[q] = proc[q]
    BY DEF OnTimeout, Without
  <1> HIDE DEF j
  <1>6. JobFits(pid, j, pid \in DOMAIN proc')
    BY <1>3, <1>5 DEF JobFits
  <1> QED
    BY <1>1, <1>2, <1>3, <1>4, <1>5, <1>6, OneProcess

LEMMA DeleteProcessKeeps ==
  ASSUME PutInv, AllKept, NEW pid \in Pid, DeleteProcess(pid)
  PROVE  PutInv' /\ AllGo
  <1>1. /\ job[pid] \in Job /\ JobFits(pid, job[pid], pid \in DOMAIN proc) /\ PutTypeOK
        /\ pid \in DOMAIN proc /\ ProcFits(pid, job[pid], proc[pid]) /\ proc[pid].dying
    BY DEF PutInv, PutTypeOK, JobOK, DeleteProcess, ProcOK
  <1>2. job' = [job EXCEPT ![pid] = job[pid]]
    BY <1>1 DEF DeleteProcess, PutTypeOK
  <1>3. Goes(job[pid], job[pid]) /\ JobFits(pid, job[pid], FALSE)
    BY <1>1 DEF Goes, JobFits, ProcFits
  <1>4. budget' \in Budget /\ UNCHANGED putter
    BY <1>1, LoseTypes DEF DeleteProcess
  <1>5. /\ pid \notin DOMAIN proc' /\ DOMAIN proc' \subseteq DOMAIN proc
        /\ \A q \in DOMAIN proc : q # pid => q \in DOMAIN proc' /\ proc'[q] = proc[q]
    BY DEF DeleteProcess, Without
  <1>6. JobFits(pid, job[pid], pid \in DOMAIN proc')
    BY <1>3, <1>5 DEF JobFits
  <1> QED
    BY <1>1, <1>2, <1>3, <1>4, <1>5, <1>6, OneProcess

LEMMA NoEndTimePassesKeeps ==
  ASSUME PutInv, AllKept, NEW pid \in Pid, NoEndTimePasses(pid)
  PROVE  PutInv' /\ AllGo
  <1> DEFINE x == [proc[pid] EXCEPT !.noEndTime = "past"]
  <1>1. /\ job[pid] \in Job /\ JobFits(pid, job[pid], pid \in DOMAIN proc) /\ PutTypeOK
        /\ pid \in DOMAIN proc /\ ProcFits(pid, job[pid], proc[pid])
        /\ proc[pid] \in Process
    BY DEF PutInv, PutTypeOK, JobOK, NoEndTimePasses, ProcOK
  <1>2. job' = [job EXCEPT ![pid] = job[pid]]
    BY <1>1 DEF NoEndTimePasses, PutTypeOK
  <1>3. Goes(job[pid], job[pid])
    BY DEF Goes
  <1>4. budget' \in Budget /\ UNCHANGED putter
    BY <1>1, PutBoundsAssumption DEF NoEndTimePasses, PutTypeOK, Budget
  <1>5. x \in Process /\ x.count = proc[pid].count /\ x.wire = proc[pid].wire
        /\ x.dying = proc[pid].dying
    BY <1>1 DEF Process
  <1>6. proc' = [proc EXCEPT ![pid] = x]
    BY <1>1 DEF NoEndTimePasses
  <1> HIDE DEF x
  <1>7. DOMAIN proc' = DOMAIN proc /\ proc'[pid] = x
        /\ \A q \in DOMAIN proc : q # pid => proc'[q] = proc[q]
    BY <1>1, <1>6
  <1>8. AllGo /\ job'[pid] = job[pid]
    BY <1>1, <1>2, <1>3, JobTo
  <1>9. ProcOK(pid)'
    BY <1>1, <1>5, <1>7, <1>8, ProcStays DEF ProcFits
  <1> QED
    BY <1>1, <1>2, <1>3, <1>4, <1>5, <1>7, <1>9, OneProcess

\* A segment is stored and counted: one more that the fetcher wants no longer.
LEMMA SegmentDataKeeps ==
  ASSUME PutInv, AllKept, SegsTyped, NEW pid \in Pid, NEW s \in Segment, OnSegmentData(pid, s)
  PROVE  PutInv' /\ AllGo
  <1> DEFINE past == proc[pid].noEndTime = "past"
             j == [job[pid] EXCEPT !.fetch = IF past THEN {} ELSE @ \ {s}]
             counted == [proc[pid] EXCEPT !.count = @ + 1, !.wire = <<>>]
             ended == [counted EXCEPT !.code = 405, !.dying = TRUE]
             x == IF past THEN ended ELSE counted
  <1>1. /\ job[pid] \in Job /\ JobFits(pid, job[pid], pid \in DOMAIN proc) /\ PutTypeOK
        /\ s \in job[pid].fetch /\ pid \in DOMAIN proc
        /\ ProcFits(pid, job[pid], proc[pid]) /\ proc[pid] \in Process
    BY DEF PutInv, PutTypeOK, JobOK, JobFits, OnSegmentData, ProcOK
  <1>2. job[pid].info = "over" /\ job[pid].save # "unsent" /\ s \in SegmentsOf(pid[1])
    BY <1>1 DEF JobFits, Job
  <1>3. job' = [job EXCEPT ![pid] = j]
    BY <1>1 DEF OnSegmentData, Job
  <1>4. proc' = [proc EXCEPT ![pid] = x] /\ InsertData(pid[1], s)
    BY Zenon DEF OnSegmentData
  <1> HIDE DEF past
  <1>5. /\ j \in Job /\ j.fetch \subseteq job[pid].fetch \ {s}
        /\ j.insert = job[pid].insert /\ j.info = job[pid].info /\ j.save = job[pid].save
    BY <1>1 DEF Job
  <1>6. counted \in Process /\ counted.count = proc[pid].count + 1 /\ counted.wire = <<>>
        /\ counted.dying = proc[pid].dying
    <2> DEFINE more == [proc[pid] EXCEPT !.count = @ + 1]
    <2>1. more \in Process /\ more.count = proc[pid].count + 1 /\ more.dying = proc[pid].dying
      BY <1>1 DEF Process
    <2>2. counted = [more EXCEPT !.wire = <<>>]
      BY <1>1 DEF Process
    <2> HIDE DEF more, counted
    <2> QED
      BY <2>1, <2>2 DEF Process, Reply
  <1> HIDE DEF counted
  <1>7. x \in Process /\ x.count = proc[pid].count + 1 /\ x.wire = <<>> /\ (x.dying => past)
    <2>1. ~proc[pid].dying
      BY <1>1 DEF ProcFits
    <2>2. ended \in Process /\ ended.count = counted.count /\ ended.wire = counted.wire
      <3> DEFINE coded == [counted EXCEPT !.code = 405]
      <3>1. coded \in Process /\ coded.count = counted.count /\ coded.wire = counted.wire
        BY <1>6 DEF Process
      <3>2. ended = [coded EXCEPT !.dying = TRUE]
        BY <1>6 DEF Process
      <3> HIDE DEF coded, ended
      <3>3. ended \in Process
        BY <3>1, <3>2, ZenonT(60) DEF Process
      <3>4. ended.count = coded.count /\ ended.wire = coded.wire
        BY <3>1, <3>2 DEF Process
      <3> QED
        BY <3>1, <3>3, <3>4
    <2> HIDE DEF ended
    <2>3. CASE past
      BY <1>6, <2>2, <2>3
    <2>4. CASE ~past
      BY <1>6, <2>1, <2>4
    <2> QED
      BY <2>3, <2>4
  <1>8. past => j.fetch = {}
    BY <1>1 DEF Job
  <1> HIDE DEF j, x
  <1>9. Goes(job[pid], j) /\ JobFits(pid, j, TRUE)
    BY <1>1, <1>2, <1>5 DEF Goes, JobFits
  <1>10. budget' \in Budget /\ UNCHANGED putter
    BY <1>1, LoseTypes DEF OnSegmentData
  <1>11. DOMAIN proc' = DOMAIN proc /\ proc'[pid] = x
         /\ \A q \in DOMAIN proc : q # pid => proc'[q] = proc[q]
    BY <1>1, <1>4
  <1>12. job'[pid] = j
    BY <1>1, <1>3, <1>5, JobTo
  <1>13. ProcOK(pid)'
    <2>1. PICK W \in SUBSET (SegmentsOf(pid[1]) \ job[pid].fetch) :
            Cardinality(W) = proc[pid].count /\ Kept(pid[1], W)
      BY <1>1 DEF ProcFits
    <2> DEFINE V == W \cup {s}
    <2>2. V \in SUBSET (SegmentsOf(pid[1]) \ j.fetch)
      BY <1>2, <1>5, <2>1
    <2>3. Cardinality(V) = x.count
      <3>1. IsFiniteSet(SegmentsOf(pid[1]))
        BY FS_Interval, Pids, LastIsNat DEF SegmentsOf
      <3>2. IsFiniteSet(W)
        BY <2>1, <3>1, FS_Subset
      <3>3. s \notin W
        BY <1>1, <2>1
      <3>4. Cardinality(V) = Cardinality(W) + 1
        BY <3>2, <3>3, FS_AddElement
      <3> HIDE DEF V
      <3> QED
        BY <1>7, <2>1, <3>4
    <2>4. Kept(pid[1], V)'
      <3>1. Kept(pid[1], W)'
        BY <2>1, Pids DEF AllKept
      <3>2. segs'[At[pid[1]]][s] = pid[1]
        <4>1. /\ segs \in [Node -> [Segment -> Put \cup {NoPut}]]
              /\ At[pid[1]] \in Node /\ s \in Segment
          BY Pids, AtAssumption DEF SegsTyped
        <4>2. segs' = [segs EXCEPT ![At[pid[1]]][s] = pid[1]]
          BY <1>4 DEF InsertData
        <4> HIDE DEF V
        <4> QED
          BY <4>1, <4>2
      <3> QED
        BY <3>1, <3>2 DEF Kept
    <2> HIDE DEF V
    <2>5. j.save # "unsent" /\ (x.dying => j.info = "over" /\ j.fetch = {})
      BY <1>2, <1>5, <1>7, <1>8
    <2> QED
      BY <1>7, <1>11, <1>12, <2>2, <2>3, <2>4, <2>5 DEF ProcOK, ProcFits
  <1> QED
    BY <1>1, <1>3, <1>5, <1>7, <1>9, <1>10, <1>11, <1>13, OneProcess

-----------------------------------------------------------------------------
(* The steps of a client.                                                  *)

LEMMA ClientTo ==
  ASSUME PutInv, AllKept, AllGo, NEW p \in Put, NEW c \in Putter,
         putter' = [putter EXCEPT ![p] = c],
         \A q \in Pid : q[1] # p /\ job[q].insert = "unsent" => job'[q].insert = "unsent",
         c.tries + c.retries <= MaxRetry + 1, c.state = "idle" => c.tries = 0,
         \A t \in 1 .. MaxRetry + 1 : t > c.tries => job'[<<p, t>>].insert = "unsent",
         c.check = "data" => c.seen # <<>> /\ Stored(p, c.seen[2])
  PROVE  putter' \in [Put -> Putter] /\ \A q \in Put : ClientOK(q)'
  <1>1. /\ putter' \in [Put -> Putter] /\ putter'[p] = c
        /\ \A q \in Put : q # p => putter'[q] = putter[q]
    BY DEF PutInv, PutTypeOK
  <1>2. ASSUME NEW q \in Put, q # p
        PROVE  ClientOK(q)'
    <2>1. \A t \in 1 .. MaxRetry + 1 : <<q, t>> \in Pid /\ <<q, t>>[1] = q
      BY DEF Pid
    <2> QED
      BY <1>1, <1>2, <2>1, ClientStays
  <1>3. ClientOK(p)'
    <2>1. c.check = "data" => Stored(p, c.seen[2])'
      BY StoredStays
    <2> QED
      BY <1>1, <2>1 DEF ClientOK
  <1> QED
    BY <1>1, <1>2, <1>3

LEMMA JobsRest ==
  ASSUME PutInv, AllKept, UNCHANGED <<proc, job>>
  PROVE  /\ AllGo
         /\ \A pid \in Pid : JobOK(pid)'
         /\ \A pid \in DOMAIN proc' : ProcOK(pid)'
  <1>1. AllGo
    BY DEF AllGo, Goes
  <1>2. ASSUME NEW pid \in Pid
        PROVE  JobOK(pid)'
    <2>1. JobOK(pid)
      BY DEF PutInv
    <2> QED
      BY <2>1 DEF JobOK, JobFits
  <1>3. ASSUME NEW pid \in DOMAIN proc'
        PROVE  ProcOK(pid)'
    <2>1. pid \in DOMAIN proc /\ pid \in Pid /\ ProcFits(pid, job[pid], proc[pid])
      BY DEF PutInv, PutTypeOK, ProcOK
    <2> QED
      BY <1>1, <2>1, ProcStays DEF ProcFits
  <1> QED
    BY <1>1, <1>2, <1>3

\* A step of a client that changes nothing else.
LEMMA OneClient ==
  ASSUME PutInv, AllKept, NEW p \in Put, NEW c \in Putter,
         putter' = [putter EXCEPT ![p] = c], UNCHANGED <<proc, job>>, budget' \in Budget,
         c.tries = putter[p].tries, c.retries <= putter[p].retries,
         c.state = "idle" => putter[p].state = "idle",
         c.check = "data" => c.seen # <<>> /\ Stored(p, c.seen[2])
  PROVE  PutInv' /\ AllGo
  <1>1. PutTypeOK /\ putter[p] \in Putter /\ ClientOK(p) /\ MaxRetry \in Nat
    BY PutBoundsAssumption DEF PutInv, PutTypeOK
  <1>2. /\ c.tries + c.retries <= MaxRetry + 1
        /\ c.state = "idle" => c.tries = 0
        /\ \A t \in 1 .. MaxRetry + 1 : t > c.tries => job'[<<p, t>>].insert = "unsent"
    BY <1>1 DEF ClientOK, Putter
  <1>3. AllGo
    BY JobsRest
  <1>4. putter' \in [Put -> Putter] /\ \A q \in Put : ClientOK(q)'
    BY <1>2, <1>3, ClientTo
  <1>5. PutTypeOK'
    BY <1>1, <1>4 DEF PutTypeOK, Budget
  <1> QED
    BY <1>3, <1>4, <1>5, JobsRest DEF PutInv

\* Steps that have nothing to do with puts.
LEMMA PutsRest ==
  ASSUME PutInv, AllKept, UNCHANGED putVars, budget' \in Budget
  PROVE  PutInv' /\ AllGo
  <1>1. UNCHANGED <<putter, proc, job>>
    BY DEF putVars
  <1>2. AllGo /\ NoneSent
    BY <1>1, JobsRest DEF NoneSent
  <1>3. PutTypeOK'
    BY <1>1 DEF PutInv, PutTypeOK, Budget
  <1> QED
    BY <1>1, <1>2, <1>3, JobsRest, ClientsStay DEF PutInv

LEMMA StartCheckKeeps ==
  ASSUME PutInv, AllKept, NEW p \in Put, PutFileStartCheckCommand(p)
  PROVE  PutInv' /\ AllGo
  <1> DEFINE c == [putter[p] EXCEPT !.check = "interest"]
  <1>1. putter[p] \in Putter /\ PutTypeOK
    BY DEF PutInv, PutTypeOK
  <1>2. putter' = [putter EXCEPT ![p] = c] /\ c \in Putter
    BY <1>1 DEF PutFileStartCheckCommand, Putter
  <1>3. /\ c.tries = putter[p].tries /\ c.retries <= putter[p].retries
        /\ c.state = putter[p].state /\ c.check = "interest"
    BY <1>1, PutBoundsAssumption DEF Putter
  <1>4. UNCHANGED <<proc, job>> /\ budget' \in Budget
    BY <1>1, LoseTypes DEF PutFileStartCheckCommand
  <1> HIDE DEF c
  <1> QED
    BY <1>2, <1>3, <1>4, OneClient

LEMMA CheckTimeoutKeeps ==
  ASSUME PutInv, AllKept, NEW p \in Put, OnCheckCommandTimeout(p)
  PROVE  PutInv' /\ AllGo
  <1> DEFINE c == IF putter[p].retries > 0
                  THEN [putter[p] EXCEPT !.retries = putter[p].retries - 1,
                                         !.check = "interest", !.seen = <<>>]
                  ELSE [putter[p] EXCEPT !.state = "stopped", !.check = "none", !.seen = <<>>]
  <1>1. putter[p] \in Putter /\ PutTypeOK /\ MaxRetry \in Nat
    BY PutBoundsAssumption DEF PutInv, PutTypeOK
  <1>2. putter' = [putter EXCEPT ![p] = c]
    BY <1>1 DEF OnCheckCommandTimeout
  <1>3. c \in Putter
    <2> DEFINE x1 == [putter[p] EXCEPT !.seen = <<>>]
               x2 == [x1 EXCEPT !.retries = putter[p].retries - 1]
               x3 == [x1 EXCEPT !.state = "stopped"]
    <2>1. x1 \in Putter
      BY <1>1 DEF Putter, Reply
    <2>2. CASE putter[p].retries > 0
      <3>1. c = [x2 EXCEPT !.check = "interest"]
        BY <2>2
      <3> HIDE DEF c, x1
      <3>2. x2 \in Putter
        BY <1>1, <2>1, <2>2 DEF Putter
      <3> HIDE DEF x2
      <3> QED
        BY <3>1, <3>2 DEF Putter
    <2>3. CASE ~(putter[p].retries > 0)
      <3>1. c = [x3 EXCEPT !.check = "none"]
        BY <2>3
      <3> HIDE DEF c, x1
      <3>2. x3 \in Putter
        BY <2>1 DEF Putter
      <3> HIDE DEF x3
      <3> QED
        BY <3>1, <3>2 DEF Putter
    <2> QED
      BY <2>2, <2>3
  <1>4. /\ c.tries = putter[p].tries /\ c.retries <= putter[p].retries
        /\ c.state \in {putter[p].state, "stopped"} /\ c.check # "data"
    BY <1>1 DEF Putter
  <1>5. UNCHANGED <<proc, job>> /\ budget' \in Budget
    BY <1>1, LoseTypes DEF OnCheckCommandTimeout
  <1> HIDE DEF c
  <1> QED
    BY <1>2, <1>3, <1>4, <1>5, OneClient

LEMMA CheckResponseKeeps ==
  ASSUME PutInv, AllKept, NEW p \in Put, OnCheckCommandResponse(p)
  PROVE  PutInv' /\ AllGo
  <1> DEFINE s == IF putter[p].seen[1] >= 400 THEN "failed"
                  ELSE IF putter[p].seen[2] = Prepared(Size[p]) THEN "done"
                  ELSE putter[p].state
             c == [putter[p] EXCEPT !.check = "none", !.seen = <<>>, !.state = s]
  <1>1. putter[p] \in Putter /\ PutTypeOK /\ MaxRetry \in Nat
    BY PutBoundsAssumption DEF PutInv, PutTypeOK
  <1>2. s \in {"failed", "done", putter[p].state}
    OBVIOUS
  <1>3. putter' = [putter EXCEPT ![p] = c]
    BY <1>1 DEF OnCheckCommandResponse
  <1> HIDE DEF s
  <1>4. c \in Putter
    <2> DEFINE x1 == [putter[p] EXCEPT !.seen = <<>>]
               x2 == [x1 EXCEPT !.check = "none"]
    <2>1. x1 \in Putter
      BY <1>1 DEF Putter, Reply
    <2>2. c = [x2 EXCEPT !.state = s]
      OBVIOUS
    <2> HIDE DEF c, x1
    <2>3. x2 \in Putter
      BY <2>1 DEF Putter
    <2>4. s \in {"idle", "inserting", "checking", "done", "failed", "stopped"}
      BY <1>1, <1>2 DEF Putter
    <2> HIDE DEF x2
    <2> QED
      BY <2>2, <2>3, <2>4 DEF Putter
  <1>5. /\ c.tries = putter[p].tries /\ c.retries <= putter[p].retries
        /\ c.state = s /\ c.check # "data"
    BY <1>1 DEF Putter
  <1>6. UNCHANGED <<proc, job>> /\ budget' \in Budget
    BY <1>1, LoseTypes DEF OnCheckCommandResponse
  <1> HIDE DEF c
  <1> QED
    BY <1>2, <1>3, <1>4, <1>5, <1>6, OneClient

\* The response of a process, encoded now or before: its count is up to date.
LEMMA Encodes ==
  ASSUME NEW x \in Process, x.wire # <<>> => x.wire[2] = x.count
  PROVE  LET y == ExtendNoEndTime(x)
             w == Encoded(y)
         IN  /\ w \in Reply /\ w # <<>> /\ w[2] = x.count
             /\ [y EXCEPT !.wire = w] \in Process
             /\ [y EXCEPT !.wire = w].wire = w
             /\ [y EXCEPT !.wire = w].count = x.count
             /\ [y EXCEPT !.wire = w].dying = x.dying
  <1> DEFINE y == ExtendNoEndTime(x)
             w == Encoded(y)
  <1>1. y \in Process /\ y.count = x.count /\ y.wire = x.wire /\ y.dying = x.dying
    BY DEF ExtendNoEndTime, Process
  <1> HIDE DEF y
  <1>2. w \in Reply /\ w # <<>> /\ w[2] = x.count
    <2>1. CASE x.wire # <<>>
      BY <1>1, <2>1 DEF Encoded, Process
    <2>2. CASE x.wire = <<>>
      <3>1. w = <<y.code, y.count>>
        BY <1>1, <2>2 DEF Encoded
      <3>2. y.code \in {300, 405} /\ y.count \in Nat
        BY <1>1 DEF Process
      <3> HIDE DEF w
      <3> QED
        BY <1>1, <3>1, <3>2 DEF Reply
    <2> QED
      BY <2>1, <2>2
  <1> HIDE DEF w
  <1>3. /\ [y EXCEPT !.wire = w] \in Process
        /\ [y EXCEPT !.wire = w].wire = w
        /\ [y EXCEPT !.wire = w].count = x.count
        /\ [y EXCEPT !.wire = w].dying = x.dying
    BY <1>1, <1>2 DEF Process
  <1> QED
    BY <1>2, <1>3 DEF w, y

\* The client is told the count of its process.
LEMMA HandleCheckKeeps ==
  ASSUME PutInv, AllKept, NEW p \in Put, HandleCheckCommand(p)
  PROVE  PutInv' /\ AllGo
  <1> DEFINE pid == Current(p)
             c(w) == [putter[p] EXCEPT !.check = "data", !.seen = w]
  <1>1. putter[p] \in Putter /\ PutTypeOK /\ MaxRetry \in Nat /\ ClientOK(p)
    BY PutBoundsAssumption DEF PutInv, PutTypeOK
  <1>2. ASSUME NEW w \in Reply
        PROVE  /\ c(w) \in Putter /\ c(w).tries = putter[p].tries
               /\ c(w).retries <= putter[p].retries
               /\ c(w).state = putter[p].state /\ c(w).seen = w
               /\ c(w).retries = putter[p].retries
    <2> DEFINE x == [putter[p] EXCEPT !.check = "data"]
    <2>1. /\ x \in Putter /\ x.tries = putter[p].tries /\ x.retries = putter[p].retries
          /\ x.state = putter[p].state
      BY <1>1 DEF Putter
    <2>2. c(w) = [x EXCEPT !.seen = w]
      OBVIOUS
    <2> HIDE DEF x, c
    <2>3. x.retries <= putter[p].retries
      BY <1>1, <2>1 DEF Putter
    <2> QED
      BY <2>1, <2>2, <2>3 DEF Putter
  <1>3. budget' \in Budget /\ UNCHANGED job
    BY <1>1, LoseTypes DEF HandleCheckCommand
  <1>4. CASE pid \notin DOMAIN proc
    <2> DEFINE w == <<404, 0>>
    <2>1. putter' = [putter EXCEPT ![p] = c(w)] /\ UNCHANGED proc
      <3>1. putter' = [putter EXCEPT ![p].check = "data", ![p].seen = w] /\ UNCHANGED proc
        BY Zenon, <1>4 DEF HandleCheckCommand
      <3> HIDE DEF w
      <3> QED
        BY <1>1, <3>1
    <2>2. w \in Reply /\ w # <<>> /\ w[2] = 0
      BY DEF Reply
    <2>3. Stored(p, 0)
      BY FS_EmptySet DEF Stored, Kept
    <2> HIDE DEF w, c
    <2>4. /\ c(w) \in Putter /\ c(w).tries = putter[p].tries
          /\ c(w).retries <= putter[p].retries
          /\ c(w).state = putter[p].state /\ c(w).seen = w
      BY <1>2, <2>2
    <2> QED
      BY <1>3, <2>1, <2>2, <2>3, <2>4, OneClient
  <1>5. CASE pid \in DOMAIN proc
    <2> DEFINE y == ExtendNoEndTime(proc[pid])
               w == Encoded(y)
               x == [y EXCEPT !.wire = w]
    <2>1. /\ pid \in Pid /\ pid[1] = p /\ proc[pid] \in Process
          /\ ProcFits(pid, job[pid], proc[pid])
      BY <1>1, <1>5 DEF PutInv, PutTypeOK, ProcOK, Current
    <2>2. /\ w \in Reply /\ w # <<>> /\ w[2] = proc[pid].count
          /\ x \in Process /\ x.wire = w /\ x.count = proc[pid].count
          /\ x.dying = proc[pid].dying
      BY <2>1, Encodes DEF ProcFits
    <2>3. putter' = [putter EXCEPT ![p] = c(w)] /\ proc' = [proc EXCEPT ![pid] = x]
      BY <1>1, <1>5 DEF HandleCheckCommand
    <2> HIDE DEF w, x, c, pid
    <2>4. /\ DOMAIN proc' = DOMAIN proc /\ proc'[pid] = x
          /\ \A q \in DOMAIN proc : q # pid => proc'[q] = proc[q]
      BY <1>5, <2>3
    <2>5. AllGo
      BY <1>3 DEF AllGo, Goes
    <2>6. Stored(p, w[2])
      <3>1. PICK W \in SUBSET (SegmentsOf(p) \ job[pid].fetch) :
              Cardinality(W) = proc[pid].count /\ Kept(p, W)
        BY <2>1 DEF ProcFits
      <3>2. W # {} => Saved(p)
        <4> SUFFICES ASSUME W # {}
                     PROVE  job[pid].save # "unsent"
          BY <2>1, Pids DEF Saved
        <4>1. IsFiniteSet(W)
          <5>1. IsFiniteSet(SegmentsOf(p))
            BY FS_Interval, LastIsNat DEF SegmentsOf
          <5> QED
            BY <5>1, FS_Subset
        <4>2. Cardinality(W) # 0
          BY <4>1, FS_EmptySet
        <4> QED
          BY <2>1, <3>1, <4>2 DEF ProcFits
      <3> QED
        BY <2>2, <3>1, <3>2, ZenonT(60) DEF Stored
    <2>7. putter' \in [Put -> Putter] /\ \A q \in Put : ClientOK(q)'
      BY <1>1, <1>2, <1>3, <2>2, <2>3, <2>5, <2>6, ClientTo DEF ClientOK
    <2>8. PutTypeOK'
      BY <1>1, <1>3, <2>2, <2>4, <2>7 DEF PutTypeOK, Budget
    <2>9. \A q \in Pid : JobOK(q)'
      BY <1>3, <2>4 DEF PutInv, JobOK, JobFits
    <2>10. ASSUME NEW q \in DOMAIN proc'
           PROVE  ProcOK(q)'
      <3>1. q \in Pid /\ q \in DOMAIN proc /\ ProcFits(q, job[q], proc[q])
        BY <1>1, <2>4 DEF PutInv, PutTypeOK, ProcOK
      <3>2. CASE q = pid
        BY <1>3, <2>1, <2>2, <2>4, <2>5, <3>1, <3>2, ProcStays DEF ProcFits
      <3>3. CASE q # pid
        BY <1>3, <2>4, <2>5, <3>1, <3>3, ProcStays DEF ProcFits
      <3> QED
        BY <3>2, <3>3
    <2> QED
      BY <2>5, <2>7, <2>8, <2>9, <2>10 DEF PutInv
  <1> QED
    BY <1>4, <1>5

\* Steps of a client that also change what is under way for some process, but
\* no process.
LEMMA ClientAndJobs ==
  ASSUME PutInv, AllKept, AllGo, NEW p \in Put, NEW c \in Putter,
         putter' = [putter EXCEPT ![p] = c], UNCHANGED proc, budget' \in Budget,
         job' \in [Pid -> Job],
         \A q \in Pid : q[1] # p /\ job[q].insert = "unsent" => job'[q].insert = "unsent",
         \A q \in Pid : JobFits(q, job'[q], q \in DOMAIN proc),
         \A q \in Pid : job'[q].fetch \subseteq job[q].fetch,
         \A q \in Pid : job[q].info = "over" => job'[q].info = "over",
         c.tries + c.retries <= MaxRetry + 1, c.state = "idle" => c.tries = 0,
         \A t \in 1 .. MaxRetry + 1 : t > c.tries => job'[<<p, t>>].insert = "unsent",
         c.check = "data" => c.seen # <<>> /\ Stored(p, c.seen[2])
  PROVE  PutInv' /\ AllGo
  <1>1. putter' \in [Put -> Putter] /\ \A q \in Put : ClientOK(q)'
    BY ClientTo
  <1>2. PutTypeOK'
    BY <1>1 DEF PutInv, PutTypeOK, Budget
  <1>3. \A q \in Pid : JobOK(q)'
    BY DEF JobOK, JobFits
  <1>4. ASSUME NEW q \in DOMAIN proc'
        PROVE  ProcOK(q)'
    <2>1. q \in DOMAIN proc /\ q \in Pid /\ ProcFits(q, job[q], proc[q])
      BY DEF PutInv, PutTypeOK, ProcOK
    <2> QED
      BY <2>1, ProcStays DEF ProcFits
  <1> QED
    BY <1>1, <1>2, <1>3, <1>4 DEF PutInv

LEMMA StartPutKeeps ==
  ASSUME PutInv, AllKept, NEW p \in Put, StartPut(p)
  PROVE  PutInv' /\ AllGo
  <1> DEFINE pid == <<p, 1>>
             c == [putter[p] EXCEPT !.state = "inserting", !.tries = 1]
             j == [job[pid] EXCEPT !.insert = "interest"]
  <1>1. /\ putter[p] \in Putter /\ PutTypeOK /\ MaxRetry \in Nat /\ ClientOK(p)
        /\ putter[p].state = "idle" /\ putter[p].tries = 0
    BY PutBoundsAssumption DEF PutInv, PutTypeOK, StartPut, ClientOK
  <1>2. pid \in Pid /\ pid[1] = p /\ 1 \in 1 .. MaxRetry + 1 /\ 1 > putter[p].tries
    BY <1>1 DEF Pid
  <1>3. /\ job[pid] \in Job /\ JobFits(pid, job[pid], pid \in DOMAIN proc)
        /\ job[pid].insert = "unsent"
    BY <1>1, <1>2 DEF PutInv, PutTypeOK, JobOK, ClientOK
  <1>4. /\ c \in Putter /\ c.tries = 1 /\ c.state = "inserting"
        /\ c.retries = putter[p].retries /\ c.check = putter[p].check
        /\ c.seen = putter[p].seen /\ c.retries \in Nat
    <2> DEFINE x == [putter[p] EXCEPT !.state = "inserting"]
    <2>1. /\ x \in Putter /\ x.retries = putter[p].retries /\ x.check = putter[p].check
          /\ x.seen = putter[p].seen /\ x.state = "inserting"
      BY <1>1 DEF Putter
    <2>2. c = [x EXCEPT !.tries = 1] /\ 1 \in 0 .. MaxRetry + 1
      BY <1>1
    <2> HIDE DEF x, c
    <2> QED
      BY <2>1, <2>2 DEF Putter
  <1>5. putter' = [putter EXCEPT ![p] = c] /\ job' = [job EXCEPT ![pid] = j]
    <2>1. putter' = [putter EXCEPT ![p] = c]
      BY <1>1 DEF StartPut
    <2>2. job' = [job EXCEPT ![pid].insert = "interest"]
      BY DEF StartPut
    <2> HIDE DEF pid
    <2> QED
      BY <2>1, <2>2
  <1>6. j \in Job /\ Goes(job[pid], j) /\ JobFits(pid, j, pid \in DOMAIN proc)
        /\ j.fetch = job[pid].fetch /\ j.info = job[pid].info
    BY <1>3 DEF Job, Goes, JobFits
  <1>7. UNCHANGED proc /\ budget' \in Budget
    BY <1>1, LoseTypes DEF StartPut
  <1> HIDE DEF c, j, pid
  <1>8. /\ AllGo /\ job' \in [Pid -> Job] /\ job'[pid] = j
        /\ \A q \in Pid : q # pid => job'[q] = job[q]
    BY <1>1, <1>2, <1>5, <1>6, JobTo
  <1>9. \A q \in Pid : /\ JobFits(q, job'[q], q \in DOMAIN proc)
                       /\ job'[q].fetch \subseteq job[q].fetch
                       /\ job[q].info = "over" => job'[q].info = "over"
    BY <1>6, <1>8 DEF PutInv, JobOK
  <1>10. c.tries + c.retries <= MaxRetry + 1
    <2>1. c.retries \in 0 .. MaxRetry
      BY <1>4 DEF Putter
    <2> QED
      BY <1>1, <1>4, <2>1
  <1>11. \A t \in 1 .. MaxRetry + 1 : t > c.tries => job'[<<p, t>>].insert = "unsent"
    <2> SUFFICES ASSUME NEW t \in 1 .. MaxRetry + 1, t > 1
                 PROVE  job'[<<p, t>>].insert = "unsent"
      BY <1>4
    <2>1. <<p, t>> \in Pid /\ <<p, t>> # pid
      BY DEF Pid, pid
    <2> QED
      BY <1>1, <1>8, <2>1 DEF ClientOK
  <1>12. c.check = "data" => c.seen # <<>> /\ Stored(p, c.seen[2])
    BY <1>1, <1>4 DEF ClientOK
  <1>13. \A q \in Pid : q[1] # p /\ job[q].insert = "unsent" => job'[q].insert = "unsent"
    BY <1>2, <1>8
  <1> QED
    BY <1>4, <1>5, <1>7, <1>8, <1>9, <1>10, <1>11, <1>12, <1>13, ClientAndJobs

LEMMA InsertResponseKeeps ==
  ASSUME PutInv, AllKept, NEW pid \in Pid, OnInsertCommandResponse(pid)
  PROVE  PutInv' /\ AllGo
  <1> DEFINE p == pid[1]
             s == IF job[pid].insert = "exists" THEN "failed" ELSE "checking"
             c == [putter[p] EXCEPT !.state = s]
             j == [job[pid] EXCEPT !.insert = "over"]
  <1>1. /\ p \in Put /\ putter[p] \in Putter /\ PutTypeOK /\ ClientOK(p)
        /\ job[pid] \in Job /\ JobFits(pid, job[pid], pid \in DOMAIN proc)
    BY Pids DEF PutInv, PutTypeOK, JobOK
  <1>2. s \in {"failed", "checking"}
    OBVIOUS
  <1>3. putter' = [putter EXCEPT ![p] = c] /\ job' = [job EXCEPT ![pid] = j]
    BY <1>1 DEF OnInsertCommandResponse
  <1> HIDE DEF s
  <1>4. /\ c \in Putter /\ c.tries = putter[p].tries /\ c.retries = putter[p].retries
        /\ c.check = putter[p].check /\ c.seen = putter[p].seen /\ c.state = s
    BY <1>1, <1>2 DEF Putter
  <1>5. j \in Job /\ Goes(job[pid], j) /\ JobFits(pid, j, pid \in DOMAIN proc)
        /\ j.fetch = job[pid].fetch /\ j.info = job[pid].info
    BY <1>1 DEF Job, Goes, JobFits
  <1>6. UNCHANGED proc /\ budget' \in Budget /\ job[pid].insert # "unsent"
    BY <1>1, LoseTypes DEF OnInsertCommandResponse
  <1> HIDE DEF c, j, p
  <1>7. /\ AllGo /\ job' \in [Pid -> Job] /\ job'[pid] = j
        /\ \A q \in Pid : q # pid => job'[q] = job[q]
    BY <1>1, <1>3, <1>5, JobTo
  <1>8. \A q \in Pid : /\ JobFits(q, job'[q], q \in DOMAIN proc)
                       /\ job'[q].fetch \subseteq job[q].fetch
                       /\ job[q].info = "over" => job'[q].info = "over"
                       /\ job[q].insert = "unsent" => job'[q].insert = "unsent"
    BY <1>5, <1>6, <1>7 DEF PutInv, JobOK
  <1>9. \A t \in 1 .. MaxRetry + 1 : <<p, t>> \in Pid
    BY <1>1 DEF Pid
  <1>10. /\ c.tries + c.retries <= MaxRetry + 1 /\ c.state # "idle"
         /\ \A t \in 1 .. MaxRetry + 1 : t > c.tries => job'[<<p, t>>].insert = "unsent"
         /\ c.check = "data" => c.seen # <<>> /\ Stored(p, c.seen[2])
    BY <1>1, <1>2, <1>4, <1>8, <1>9 DEF ClientOK
  <1> QED
    BY <1>1, <1>3, <1>4, <1>6, <1>7, <1>8, <1>10, ClientAndJobs

\* A retry is a command of its own; it makes no process before it is sent.
LEMMA InsertTimeoutKeeps ==
  ASSUME PutInv, AllKept, NEW pid \in Pid, OnInsertCommandTimeout(pid)
  PROVE  PutInv' /\ AllGo
  <1> DEFINE p == pid[1]
  <1>1. /\ p \in Put /\ putter[p] \in Putter /\ PutTypeOK /\ ClientOK(p)
        /\ job[pid] \in Job /\ JobFits(pid, job[pid], pid \in DOMAIN proc)
        /\ MaxRetry \in Nat
    BY Pids, PutBoundsAssumption DEF PutInv, PutTypeOK, JobOK
  <1>2. /\ putter[p].state = "inserting" /\ pid[2] = putter[p].tries
        /\ putter[p].tries \in 1 .. MaxRetry + 1 /\ pid = <<p, pid[2]>>
    BY Pids DEF OnInsertCommandTimeout, Awaited, Current
  <1>3. UNCHANGED proc /\ budget' \in Budget
    BY <1>1, LoseTypes DEF OnInsertCommandTimeout
  <1>4. PICK left :
          /\ left \in {"over", job[pid].insert}
          /\ IF putter[p].retries > 0
             THEN /\ putter' = [putter EXCEPT ![p].retries = @ - 1, ![p].tries = @ + 1]
                  /\ job' = [job EXCEPT ![pid].insert = left,
                                        ![<<p, pid[2] + 1>>].insert = "interest"]
             ELSE /\ putter' = [putter EXCEPT ![p].state = "stopped"]
                  /\ job' = [job EXCEPT ![pid].insert = left]
    BY DEF OnInsertCommandTimeout
  <1> DEFINE j == [job[pid] EXCEPT !.insert = left]
  <1>5. j \in Job /\ j.fetch = job[pid].fetch /\ j.info = job[pid].info
        /\ j.save = job[pid].save /\ j.insert = left
    BY <1>1, <1>4 DEF Job
  <1> HIDE DEF p, j
  <1>6. Goes(job[pid], j) /\ JobFits(pid, j, pid \in DOMAIN proc)
    BY <1>1, <1>4, <1>5 DEF Goes, JobFits
  <1>7. \A t \in 1 .. MaxRetry + 1 : <<p, t>> \in Pid /\ <<p, t>>[1] = p
    BY <1>1 DEF Pid
  <1>8. \A t \in 1 .. MaxRetry + 1 : t > putter[p].tries => job[<<p, t>>].insert = "unsent"
    BY <1>1 DEF ClientOK
  <1>9. CASE putter[p].retries > 0
    <2> DEFINE next == <<p, pid[2] + 1>>
               i == [job[next] EXCEPT !.insert = "interest"]
               c == [putter[p] EXCEPT !.retries = putter[p].retries - 1,
                                      !.tries = putter[p].tries + 1]
    <2>1. putter[p].tries + 1 \in 1 .. MaxRetry + 1 /\ putter[p].tries + 1 > putter[p].tries
      BY <1>1, <1>2, <1>9 DEF ClientOK, Putter
    <2>2. next \in Pid /\ next # pid /\ job[next].insert = "unsent" /\ next[1] = p
      BY <1>2, <1>7, <1>8, <2>1
    <2>3. job[next] \in Job /\ JobFits(next, job[next], next \in DOMAIN proc)
      BY <1>1, <2>2 DEF PutInv, PutTypeOK, JobOK
    <2>4. i \in Job /\ Goes(job[next], i) /\ JobFits(next, i, next \in DOMAIN proc)
          /\ i.fetch = job[next].fetch /\ i.info = job[next].info
      BY <2>2, <2>3 DEF Job, Goes, JobFits
    <2>5. job' = [[job EXCEPT ![pid] = j] EXCEPT ![next] = i]
      <3>1. job' = [job EXCEPT ![pid].insert = left, ![next].insert = "interest"]
        BY <1>4, <1>9
      <3> HIDE DEF next
      <3> QED
        BY <1>1, <2>2, <3>1 DEF j, i, PutTypeOK
    <2>6. /\ c \in Putter /\ c.tries = putter[p].tries + 1
          /\ c.retries = putter[p].retries - 1 /\ c.state = "inserting"
          /\ c.check = putter[p].check /\ c.seen = putter[p].seen
      <3> DEFINE x == [putter[p] EXCEPT !.retries = putter[p].retries - 1]
      <3>1. /\ x \in Putter /\ x.tries = putter[p].tries
            /\ x.retries = putter[p].retries - 1 /\ x.state = "inserting"
            /\ x.check = putter[p].check /\ x.seen = putter[p].seen
        BY <1>1, <1>2, <1>9 DEF Putter
      <3>2. c = [x EXCEPT !.tries = putter[p].tries + 1]
        OBVIOUS
      <3> HIDE DEF x, c
      <3>3. putter[p].tries + 1 \in 0 .. MaxRetry + 1
        BY <1>1, <2>1
      <3> QED
        BY <3>1, <3>2, <3>3 DEF Putter
    <2>7. putter' = [putter EXCEPT ![p] = c]
      BY <1>1, <1>4, <1>9
    <2> HIDE DEF next, i, c
    <2>8. /\ job' \in [Pid -> Job] /\ job'[pid] = j /\ job'[next] = i
          /\ \A q \in Pid : q \notin {pid, next} => job'[q] = job[q]
      BY <1>1, <1>5, <2>2, <2>4, <2>5 DEF PutTypeOK
    <2>9. AllGo
      BY <1>6, <2>4, <2>8 DEF AllGo, Goes
    <2>10. \A q \in Pid : /\ JobFits(q, job'[q], q \in DOMAIN proc)
                          /\ job'[q].fetch \subseteq job[q].fetch
                          /\ job[q].info = "over" => job'[q].info = "over"
      BY <1>5, <1>6, <2>4, <2>8 DEF PutInv, JobOK
    <2>11. \A q \in Pid : q[1] # p /\ job[q].insert = "unsent" => job'[q].insert = "unsent"
      BY <1>2, <2>2, <2>8 DEF p
    <2>12. \A t \in 1 .. MaxRetry + 1 : t > c.tries => job'[<<p, t>>].insert = "unsent"
      <3> SUFFICES ASSUME NEW t \in 1 .. MaxRetry + 1, t > putter[p].tries + 1
                   PROVE  job'[<<p, t>>].insert = "unsent"
        BY <2>6
      <3>1. <<p, t>> \notin {pid, next} /\ t > putter[p].tries
        BY <1>2, <2>1 DEF next
      <3> QED
        BY <1>7, <1>8, <2>8, <3>1
    <2>13. c.tries + c.retries <= MaxRetry + 1
      BY <1>1, <1>2, <2>6 DEF ClientOK, Putter
    <2>14. c.check = "data" => c.seen # <<>> /\ Stored(p, c.seen[2])
      BY <1>1, <2>6 DEF ClientOK
    <2> QED
      BY <1>1, <1>3, <2>6, <2>7, <2>8, <2>9, <2>10, <2>11, <2>12, <2>13, <2>14,
         ClientAndJobs
  <1>10. CASE ~(putter[p].retries > 0)
    <2> DEFINE c == [putter[p] EXCEPT !.state = "stopped"]
    <2>1. /\ c \in Putter /\ c.tries = putter[p].tries /\ c.state = "stopped"
          /\ c.retries = putter[p].retries
          /\ c.check = putter[p].check /\ c.seen = putter[p].seen
      BY <1>1 DEF Putter
    <2>2. putter' = [putter EXCEPT ![p] = c] /\ job' = [job EXCEPT ![pid] = j]
      BY <1>1, <1>4, <1>10 DEF j
    <2> HIDE DEF c
    <2>3. /\ AllGo /\ job' \in [Pid -> Job] /\ job'[pid] = j
          /\ \A q \in Pid : q # pid => job'[q] = job[q]
      BY <1>1, <1>5, <1>6, <2>2, JobTo
    <2>4. \A q \in Pid : /\ JobFits(q, job'[q], q \in DOMAIN proc)
                         /\ job'[q].fetch \subseteq job[q].fetch
                         /\ job[q].info = "over" => job'[q].info = "over"
                         /\ q[1] # p /\ job[q].insert = "unsent" => job'[q].insert = "unsent"
      BY <1>5, <1>6, <2>3 DEF PutInv, JobOK, p
    <2>5. \A t \in 1 .. MaxRetry + 1 : t > c.tries => job'[<<p, t>>].insert = "unsent"
      <3> SUFFICES ASSUME NEW t \in 1 .. MaxRetry + 1, t > putter[p].tries
                   PROVE  job'[<<p, t>>].insert = "unsent"
        BY <2>1
      <3>1. <<p, t>> # pid
        BY <1>2
      <3> QED
        BY <1>7, <1>8, <2>3, <3>1
    <2>6. /\ c.tries + c.retries <= MaxRetry + 1
          /\ c.check = "data" => c.seen # <<>> /\ Stored(p, c.seen[2])
      BY <1>1, <2>1 DEF ClientOK
    <2> QED
      BY <1>1, <1>3, <2>1, <2>2, <2>3, <2>4, <2>5, <2>6, ClientAndJobs
  <1> QED
    BY <1>9, <1>10

LEMMA FetchErrorKeeps ==
  ASSUME PutInv, AllKept, NEW pid \in Pid, OnFetchError(pid)
  PROVE  PutInv' /\ AllGo
  <1> DEFINE p == pid[1]
             j == [job[pid] EXCEPT !.fetch = {}]
             gone == [putter[p] EXCEPT !.state = "failed", !.check = "none", !.seen = <<>>]
  <1>1. /\ p \in Put /\ putter[p] \in Putter /\ PutTypeOK /\ ClientOK(p)
        /\ job[pid] \in Job /\ JobFits(pid, job[pid], pid \in DOMAIN proc)
        /\ job[pid].insert # "unsent"
    BY Pids DEF PutInv, PutTypeOK, JobOK, JobFits, OnFetchError
  <1>2. j \in Job /\ Goes(job[pid], j) /\ JobFits(pid, j, pid \in DOMAIN proc)
        /\ j.fetch = {} /\ j.info = job[pid].info /\ j.insert = job[pid].insert
    BY <1>1 DEF Job, Goes, JobFits
  <1>3. /\ gone \in Putter /\ gone.tries = putter[p].tries
        /\ gone.retries = putter[p].retries
        /\ gone.state = "failed" /\ gone.check = "none"
    <2> DEFINE x == [putter[p] EXCEPT !.state = "failed", !.check = "none"]
    <2>1. /\ x \in Putter /\ x.tries = putter[p].tries /\ x.retries = putter[p].retries
          /\ x.state = "failed" /\ x.check = "none"
      BY <1>1 DEF Putter
    <2>2. gone = [x EXCEPT !.seen = <<>>]
      OBVIOUS
    <2> HIDE DEF x, gone
    <2> QED
      BY <2>1, <2>2 DEF Putter, Reply
  <1>4. PICK c \in {putter[p], gone} : putter' = [putter EXCEPT ![p] = c]
    BY DEF OnFetchError, Asked
  <1>5. job' = [job EXCEPT ![pid] = j]
    BY <1>1 DEF OnFetchError
  <1>6. UNCHANGED proc /\ budget' \in Budget
    BY <1>1, LoseTypes DEF OnFetchError
  <1> HIDE DEF p, j, gone
  <1>7. /\ AllGo /\ job' \in [Pid -> Job] /\ job'[pid] = j
        /\ \A q \in Pid : q # pid => job'[q] = job[q]
    BY <1>1, <1>2, <1>5, JobTo
  <1>8. \A q \in Pid : /\ JobFits(q, job'[q], q \in DOMAIN proc)
                       /\ job'[q].fetch \subseteq job[q].fetch
                       /\ job[q].info = "over" => job'[q].info = "over"
                       /\ job[q].insert = "unsent" => job'[q].insert = "unsent"
    BY <1>1, <1>2, <1>7 DEF PutInv, JobOK
  <1>9. \A t \in 1 .. MaxRetry + 1 : <<p, t>> \in Pid
    BY <1>1 DEF Pid
  <1>10. /\ c \in Putter /\ c.tries = putter[p].tries /\ c.retries = putter[p].retries
         /\ c.state \in {putter[p].state, "failed"}
         /\ c.check = "data" => /\ c.check = putter[p].check
                                /\ c.seen = putter[p].seen
    BY <1>1, <1>3
  <1>11. /\ c.tries + c.retries <= MaxRetry + 1
         /\ c.state = "idle" => c.tries = 0
         /\ \A t \in 1 .. MaxRetry + 1 : t > c.tries => job'[<<p, t>>].insert = "unsent"
         /\ c.check = "data" => /\ c.seen # <<>>
                                /\ Stored(p, c.seen[2])
    BY <1>1, <1>8, <1>9, <1>10 DEF ClientOK
  <1> QED
    BY <1>1, <1>4, <1>6, <1>7, <1>8, <1>10, <1>11, ClientAndJobs

LEMMA RestartKeeps ==
  ASSUME PutInv, AllKept, NEW n \in Node, Restart(n)
  PROVE  PutInv' /\ AllGo
  <1>1. PutTypeOK
    BY DEF PutInv
  <1>2. ASSUME NEW q \in Pid
        PROVE  /\ job'[q] \in Job /\ Goes(job[q], job'[q])
               /\ job'[q].fetch = IF At[q[1]] = n THEN {} ELSE job[q].fetch
               /\ job[q].info = "over" => job'[q].info = "over"
               /\ job[q].insert = "unsent" => job'[q].insert = "unsent"
               /\ JobFits(q, job'[q], q \in DOMAIN proc')
    <2>1. job[q] \in Job /\ JobFits(q, job[q], q \in DOMAIN proc)
      BY <1>1 DEF PutInv, PutTypeOK, JobOK
    <2>2. job'[q] =
            [insert |-> IF At[q[1]] = n /\ job[q].insert \in {"free", "found"}
                        THEN "over" ELSE job[q].insert,
             info   |-> IF At[q[1]] = n /\ job[q].info \in {"interest", "data"}
                        THEN "over" ELSE job[q].info,
             fetch  |-> IF At[q[1]] = n THEN {} ELSE job[q].fetch,
             save   |-> IF n = Home /\ job[q].save \in {"write-info", "json"}
                        THEN "over" ELSE job[q].save]
      BY DEF Restart
    <2>3. (q \in DOMAIN proc') <=> (q \in DOMAIN proc /\ At[q[1]] # n)
      BY DEF Restart
    <2>4. job'[q] \in Job
      BY <2>1, <2>2 DEF Job
    <2>5. /\ job'[q].fetch = IF At[q[1]] = n THEN {} ELSE job[q].fetch
          /\ job[q].info = "over" => job'[q].info = "over"
          /\ job[q].insert = "unsent" => job'[q].insert = "unsent"
      BY <2>1, <2>2
    <2>6. Goes(job[q], job'[q])
      BY <2>1, <2>2 DEF Goes
    <2>7. JobFits(q, job'[q], q \in DOMAIN proc')
      BY <2>1, <2>2, <2>3 DEF JobFits
    <2> QED
      BY <2>4, <2>5, <2>6, <2>7
  <1>3. job' = [q \in Pid |-> job'[q]]
    BY DEF Restart
  <1>4. job' \in [Pid -> Job] /\ AllGo /\ NoneSent
    BY <1>2, <1>3 DEF AllGo, NoneSent
  <1>5. UNCHANGED <<putter, budget>>
    BY DEF Restart
  <1>6. \A q \in DOMAIN proc' : q \in DOMAIN proc /\ proc'[q] = proc[q] /\ At[q[1]] # n
    BY DEF Restart
  <1>7. PutTypeOK'
    BY <1>1, <1>4, <1>5, <1>6 DEF PutTypeOK
  <1>8. ASSUME NEW q \in DOMAIN proc'
        PROVE  ProcOK(q)'
    <2>1. q \in DOMAIN proc /\ q \in Pid /\ ProcFits(q, job[q], proc[q])
      BY <1>1, <1>6 DEF PutInv, PutTypeOK, ProcOK
    <2> QED
      BY <1>2, <1>4, <1>6, <2>1, ProcStays DEF ProcFits
  <1>9. \A q \in Pid : JobOK(q)'
    BY <1>2 DEF JobOK, JobFits
  <1> QED
    BY <1>4, <1>5, <1>7, <1>8, <1>9, ClientsStay DEF PutInv

-----------------------------------------------------------------------------
(* What the steps do to the disks, and to what the others are about.       *)

SegsMove ==
  \/ UNCHANGED segs
  \/ \E pid \in Pid, s \in Segment :
       s \in job[pid].fetch /\ Has(pid[1], s) /\ InsertData(pid[1], s)
  \/ \E d \in Delete : /\ removal[d].at \in {"data", "late"}
                       /\ DeleteData(At[removal[d].read], Last(removal[d].read))

ManifestMove ==
  \/ UNCHANGED manifest
  \/ \E pid \in Pid : manifest' = pid[1] /\ job[pid].save = "json"
  \/ \E d \in Delete : manifest' = NoPut /\ removal[d].at = "erased"

\* A client is done when the count is that of its segments.
DoneMove ==
  \A p \in Put : putter'[p].state = "done" =>
    \/ putter[p].state = "done"
    \/ putter[p].check = "data" /\ putter[p].seen[2] = Prepared(Size[p])

\* A delete gets a manifest in a step of its own.
RemovalMove(d) ==
  \/ removal'[d] = removal[d]
  \/ /\ removal[d].at = "asked" /\ removal'[d].at = "data"
     /\ manifest # NoPut /\ removal'[d].read = manifest
     /\ UNCHANGED job
  \/ removal[d].at = "data" /\ removal'[d].at = "late" /\ removal'[d].read = removal[d].read
  \/ Erasing(d) /\ removal'[d].at = "erased"
  \/ removal'[d].at \notin {"data", "late", "erased"}

DeletesMove ==
  /\ DeleteTypeOK'
  /\ \A d \in Delete : RemovalMove(d)

\* The handlers of a put.
PutDo ==
  \/ \E p \in Put : \/ StartPut(p)
                    \/ PutFileStartCheckCommand(p)
                    \/ HandleCheckCommand(p)
                    \/ OnCheckCommandResponse(p)
                    \/ OnCheckCommandTimeout(p)
  \/ \E pid \in Pid : \/ HandleFindCommand(pid)
                      \/ OnFindResponse(pid)
                      \/ OnInsertCommandResponse(pid)
                      \/ OnInsertCommandTimeout(pid)
                      \/ PutFileSendManifest(pid)
                      \/ OnDataValidated(pid)
                      \/ OnTimeout(pid)
                      \/ \E s \in Segment : OnSegmentData(pid, s)
                      \/ OnFetchError(pid)
                      \/ HandleCreateCommand(pid)
                      \/ HandleInfoCommand(pid)
                      \/ OnManifestData(pid)
                      \/ OnCreateTimeout(pid)
                      \/ NoEndTimePasses(pid)
                      \/ DeleteProcess(pid)

DeleteDo(d) ==
  /\ \/ StartDelete(d)
     \/ HandleDeleteManifestCommand(d)
     \/ HandleDeleteDataCommand(d)
     \/ OnDeleteDataCommandResponse(d)
     \/ OnDeleteCommandResponse(d)
     \/ OnDeleteCommandTimeout(d)
     \/ OnDeleteDataTimeout(d)
  /\ Lose \/ UNCHANGED budget

GetDo(g) == OnGetInterest(g) \/ OnDataCommandResponse(g) \/ OnDataError(g)

LEMMA Steps ==
  ASSUME Next
  PROVE  \/ PutDo /\ OfPut
         \/ \E d \in Delete : DeleteDo(d) /\ OfDelete
         \/ \E g \in Get : GetDo(g) /\ OfGet
         \/ \E n \in Node : Restart(n) /\ History
  <1>1. CASE PutStep
    BY <1>1 DEF PutStep, InsertStep, FetchStep, SaveStep, CheckStep, PutDo
  <1>2. CASE DeleteStep
    BY <1>2 DEF DeleteStep, DeleteDeliver, DeleteDo
  <1>3. CASE GetStep
    BY <1>3 DEF GetStep, GetDo
  <1> QED
    BY <1>1, <1>2, <1>3 DEF Next

LEMMA PutSegs ==
  ASSUME PutDo
  PROVE  SegsMove /\ ManifestMove
  <1>1. CASE \E pid \in Pid, s \in Segment : OnSegmentData(pid, s)
    BY <1>1 DEF OnSegmentData, SegsMove, ManifestMove
  <1>2. CASE \E pid \in Pid : OnManifestData(pid)
    BY <1>2 DEF OnManifestData, SegsMove, ManifestMove
  <1>3. ASSUME NEW p \in Put,
               \/ StartPut(p) \/ PutFileStartCheckCommand(p) \/ HandleCheckCommand(p)
               \/ OnCheckCommandResponse(p) \/ OnCheckCommandTimeout(p)
        PROVE  UNCHANGED storageVars
    BY <1>3 DEF StartPut, PutFileStartCheckCommand, HandleCheckCommand,
                OnCheckCommandResponse, OnCheckCommandTimeout
  <1>4. ASSUME NEW pid \in Pid,
               \/ HandleFindCommand(pid) \/ OnFindResponse(pid)
               \/ OnInsertCommandResponse(pid) \/ OnInsertCommandTimeout(pid)
        PROVE  UNCHANGED storageVars
    BY <1>4 DEF HandleFindCommand, OnFindResponse, OnInsertCommandResponse,
                OnInsertCommandTimeout
  <1>5. ASSUME NEW pid \in Pid,
               \/ PutFileSendManifest(pid) \/ OnDataValidated(pid) \/ OnTimeout(pid)
               \/ OnFetchError(pid) \/ HandleCreateCommand(pid) \/ HandleInfoCommand(pid)
               \/ OnCreateTimeout(pid) \/ NoEndTimePasses(pid) \/ DeleteProcess(pid)
        PROVE  UNCHANGED storageVars
    BY <1>5 DEF PutFileSendManifest, OnDataValidated, OnTimeout, OnFetchError,
                HandleCreateCommand, HandleInfoCommand, OnCreateTimeout, NoEndTimePasses,
                DeleteProcess
  <1>6. UNCHANGED storageVars => SegsMove /\ ManifestMove
    BY DEF storageVars, SegsMove, ManifestMove
  <1> QED
    BY <1>1, <1>2, <1>3, <1>4, <1>5, <1>6 DEF PutDo

LEMMA PutDone ==
  ASSUME PutTypeOK, PutDo
  PROVE  DoneMove
  <1>1. putter \in [Put -> Putter]
    BY DEF PutTypeOK
  <1>2. ASSUME NEW p \in Put, OnCheckCommandResponse(p)
        PROVE  DoneMove
    <2> DEFINE s == IF putter[p].seen[1] >= 400 THEN "failed"
                    ELSE IF putter[p].seen[2] = Prepared(Size[p]) THEN "done"
                    ELSE putter[p].state
    <2>1. putter' = [putter EXCEPT ![p].check = "none", ![p].seen = <<>>, ![p].state = s]
      BY <1>2 DEF OnCheckCommandResponse
    <2>2. s = "done" => putter[p].seen[2] = Prepared(Size[p]) \/ putter[p].state = "done"
      OBVIOUS
    <2> HIDE DEF s
    <2>3. putter[p] \in Putter /\ putter[p].check = "data"
      BY <1>1, <1>2 DEF OnCheckCommandResponse
    <2>4. putter'[p].state = s /\ \A q \in Put : q # p => putter'[q] = putter[q]
      BY <1>1, <2>1, <2>3 DEF Putter
    <2> QED
      BY <2>2, <2>3, <2>4 DEF DoneMove
  <1>3. ASSUME NEW p \in Put, OnCheckCommandTimeout(p)
        PROVE  DoneMove
    <2> DEFINE a == [putter[p] EXCEPT !.retries = putter[p].retries - 1,
                                      !.check = "interest", !.seen = <<>>]
               b == [putter[p] EXCEPT !.state = "stopped", !.check = "none", !.seen = <<>>]
    <2>1. putter[p] \in Putter
      BY <1>1
    <2>2. a.state = putter[p].state /\ b.state = "stopped"
      BY <2>1 DEF Putter
    <2>3. PICK c \in {a, b} : putter' = [putter EXCEPT ![p] = c]
      BY <1>3 DEF OnCheckCommandTimeout
    <2> HIDE DEF a, b
    <2> QED
      BY <1>1, <2>2, <2>3 DEF DoneMove
  <1>4. ASSUME NEW p \in Put, HandleCheckCommand(p)
        PROVE  DoneMove
    <2>1. PICK w : putter' = [putter EXCEPT ![p].check = "data", ![p].seen = w]
      BY <1>4 DEF HandleCheckCommand
    <2>2. putter[p] \in Putter
      BY <1>1
    <2> QED
      BY <1>1, <2>1, <2>2 DEF DoneMove, Putter
  <1>5. ASSUME NEW p \in Put, StartPut(p) \/ PutFileStartCheckCommand(p)
        PROVE  DoneMove
    <2>1. putter[p] \in Putter
      BY <1>1
    <2> QED
      BY <1>1, <1>5, <2>1 DEF DoneMove, StartPut, PutFileStartCheckCommand, Putter
  <1>6. ASSUME NEW pid \in Pid, OnInsertCommandResponse(pid)
        PROVE  DoneMove
    <2> DEFINE s == IF job[pid].insert = "exists" THEN "failed" ELSE "checking"
    <2>1. /\ pid[1] \in Put /\ putter[pid[1]] \in Putter /\ s # "done"
          /\ putter' = [putter EXCEPT ![pid[1]].state = s]
      BY <1>1, <1>6, Pids DEF OnInsertCommandResponse
    <2> HIDE DEF s
    <2> QED
      BY <1>1, <2>1 DEF DoneMove, Putter
  <1>7. ASSUME NEW pid \in Pid, OnInsertCommandTimeout(pid)
        PROVE  DoneMove
    <2>1. pid[1] \in Put /\ putter[pid[1]] \in Putter
      BY <1>1, Pids
    <2> DEFINE a == [putter[pid[1]] EXCEPT !.retries = @ - 1, !.tries = @ + 1]
               b == [putter[pid[1]] EXCEPT !.state = "stopped"]
    <2>2. a.state = putter[pid[1]].state /\ b.state = "stopped"
      BY <2>1 DEF Putter
    <2>3. \/ putter' = [putter EXCEPT ![pid[1]].retries = @ - 1, ![pid[1]].tries = @ + 1]
          \/ putter' = [putter EXCEPT ![pid[1]].state = "stopped"]
      BY <1>7, Zenon DEF OnInsertCommandTimeout
    <2>4. PICK c \in {a, b} : putter' = [putter EXCEPT ![pid[1]] = c]
      BY <1>1, <2>1, <2>3
    <2> HIDE DEF a, b
    <2> QED
      BY <1>1, <2>1, <2>2, <2>4 DEF DoneMove
  <1>8. ASSUME NEW pid \in Pid, OnFetchError(pid)
        PROVE  DoneMove
    <2> DEFINE gone == [putter[pid[1]] EXCEPT !.state = "failed", !.check = "none", !.seen = <<>>]
    <2>1. pid[1] \in Put /\ putter[pid[1]] \in Putter
      BY <1>1, Pids
    <2>2. gone.state = "failed"
      BY <2>1 DEF Putter
    <2>3. PICK c \in {putter[pid[1]], gone} : putter' = [putter EXCEPT ![pid[1]] = c]
      BY <1>8 DEF OnFetchError, Asked
    <2> HIDE DEF gone
    <2> QED
      BY <1>1, <2>1, <2>2, <2>3 DEF DoneMove
  <1>9. ASSUME NEW pid \in Pid,
               \/ HandleFindCommand(pid) \/ OnFindResponse(pid) \/ PutFileSendManifest(pid)
               \/ OnDataValidated(pid) \/ OnTimeout(pid)
               \/ \E s \in Segment : OnSegmentData(pid, s)
        PROVE  UNCHANGED putter
    BY <1>9 DEF HandleFindCommand, OnFindResponse, PutFileSendManifest, OnDataValidated,
                OnTimeout, OnSegmentData
  <1>10. ASSUME NEW pid \in Pid,
                \/ HandleCreateCommand(pid) \/ HandleInfoCommand(pid) \/ OnManifestData(pid)
                \/ OnCreateTimeout(pid) \/ NoEndTimePasses(pid) \/ DeleteProcess(pid)
         PROVE  UNCHANGED putter
    BY <1>10 DEF HandleCreateCommand, HandleInfoCommand, OnManifestData, OnCreateTimeout,
                 NoEndTimePasses, DeleteProcess
  <1>11. UNCHANGED putter => DoneMove
    BY DEF DoneMove
  <1> QED
    BY <1>2, <1>3, <1>4, <1>5, <1>6, <1>7, <1>8, <1>9, <1>10, <1>11 DEF PutDo

LEMMA DeleteMoves ==
  ASSUME DeleteTypeOK, StorageTypeOK, NEW d \in Delete, DeleteDo(d), UNCHANGED putVars
  PROVE  DeletesMove /\ SegsMove /\ ManifestMove
  <1>1. deleter \in [Delete -> Deleter] /\ removal \in [Delete -> Removal]
    BY DEF DeleteTypeOK
  <1>2. removal[d] \in Removal /\ deleter[d] \in Deleter /\ UNCHANGED job
    BY <1>1 DEF putVars
  <1>3. ASSUME deleter' \in [Delete -> Deleter], NEW r \in Removal,
               removal' = [removal EXCEPT ![d] = r], RemovalMove(d)
        PROVE  DeletesMove
    <2>1. \A e \in Delete : e # d => RemovalMove(e)
      BY <1>1, <1>3 DEF RemovalMove
    <2> QED
      BY <1>1, <1>3, <2>1 DEF DeletesMove, DeleteTypeOK
  <1>4. UNCHANGED storageVars => SegsMove /\ ManifestMove
    BY DEF storageVars, SegsMove, ManifestMove
  <1>5. CASE StartDelete(d)
    <2>1. /\ deleter' = [deleter EXCEPT ![d] = "waiting"]
          /\ removal' = [removal EXCEPT ![d] = [removal[d] EXCEPT !.at = "asked"]]
      BY <1>5 DEF StartDelete
    <2> DEFINE r == [removal[d] EXCEPT !.at = "asked"]
    <2>2. r \in Removal /\ r.at = "asked"
      BY <1>2 DEF Removal
    <2> HIDE DEF r
    <2>3. RemovalMove(d)
      BY <1>1, <2>1, <2>2 DEF RemovalMove, r
    <2> QED
      BY <1>1, <1>3, <1>4, <1>5, <2>1, <2>2, <2>3 DEF StartDelete, Deleter, r
  <1>6. CASE HandleDeleteManifestCommand(d)
    <2> DEFINE r == IF manifest = NoPut
                    THEN [at |-> Reported(d, "missing"), read |-> NoPut]
                    ELSE [at |-> "data", read |-> manifest]
    <2>1. /\ removal' = [removal EXCEPT ![d] = r] /\ removal[d].at = "asked"
          /\ UNCHANGED <<deleter, storageVars>>
      BY <1>6 DEF HandleDeleteManifestCommand
    <2>2. /\ r \in Removal
          /\ \/ r.at \in {"missing", "none"}
             \/ r.at = "data" /\ r.read = manifest /\ manifest # NoPut
      BY DEF Removal, Reported, StorageTypeOK
    <2> HIDE DEF r
    <2>3. RemovalMove(d)
      BY <1>1, <1>2, <2>1, <2>2 DEF RemovalMove
    <2> QED
      BY <1>1, <1>3, <1>4, <2>1, <2>2, <2>3
  <1>7. CASE HandleDeleteDataCommand(d)
    <2> DEFINE r == [at |-> IF removal[d].at = "data" THEN "erased" ELSE "none", read |-> NoPut]
    <2>1. /\ removal' = [removal EXCEPT ![d] = r] /\ removal[d].at \in {"data", "late"}
          /\ DeleteData(At[removal[d].read], Last(removal[d].read))
          /\ UNCHANGED <<deleter, manifest>>
      BY <1>1, <1>7 DEF HandleDeleteDataCommand
    <2>2. r \in Removal /\ r.at \in {"erased", "none"}
      BY DEF Removal
    <2> HIDE DEF r
    <2>3. RemovalMove(d)
      BY <1>1, <2>1, <2>2 DEF RemovalMove, Erasing
    <2>4. SegsMove /\ ManifestMove
      BY <2>1 DEF SegsMove, ManifestMove
    <2> QED
      BY <1>1, <1>3, <2>1, <2>2, <2>3, <2>4
  <1>8. CASE OnDeleteDataCommandResponse(d)
    <2> DEFINE r == [removal[d] EXCEPT !.at = Reported(d, "deleted")]
    <2>1. /\ removal' = [removal EXCEPT ![d] = r] /\ removal[d].at = "erased"
          /\ manifest' = NoPut
          /\ UNCHANGED <<deleter, segs>>
      BY <1>1, <1>8 DEF OnDeleteDataCommandResponse
    <2>2. r \in Removal /\ r.at \in {"deleted", "none"}
      BY <1>2 DEF Removal, Reported
    <2> HIDE DEF r
    <2>3. RemovalMove(d)
      BY <1>1, <2>1, <2>2 DEF RemovalMove
    <2>4. SegsMove /\ ManifestMove
      BY <2>1 DEF SegsMove, ManifestMove
    <2> QED
      BY <1>1, <1>3, <2>1, <2>2, <2>3, <2>4
  <1>9. CASE OnDeleteCommandResponse(d)
    <2> DEFINE r == [removal[d] EXCEPT !.at = "none"]
               s == IF removal[d].at = "deleted" THEN "done" ELSE "notfound"
    <2>1. /\ removal' = [removal EXCEPT ![d] = r]
          /\ deleter' = [deleter EXCEPT ![d] = s]
          /\ UNCHANGED storageVars
      BY <1>1, <1>9 DEF OnDeleteCommandResponse
    <2>2. r \in Removal /\ r.at = "none" /\ s \in Deleter
      BY <1>2 DEF Removal, Deleter
    <2> HIDE DEF r, s
    <2>3. RemovalMove(d)
      BY <1>1, <2>1, <2>2 DEF RemovalMove
    <2> QED
      BY <1>1, <1>3, <1>4, <2>1, <2>2, <2>3
  <1>10. CASE OnDeleteCommandTimeout(d)
    <2> DEFINE r == [removal[d] EXCEPT !.at = "none"]
    <2>1. r \in Removal /\ r.at = "none"
      BY <1>2 DEF Removal
    <2>2. /\ removal' = [removal EXCEPT ![d] = r] \/ UNCHANGED removal
          /\ deleter' = [deleter EXCEPT ![d] = "unknown"]
          /\ UNCHANGED storageVars
      BY <1>1, <1>10 DEF OnDeleteCommandTimeout
    <2> HIDE DEF r
    <2>3. deleter' \in [Delete -> Deleter]
      BY <1>1, <2>2 DEF Deleter
    <2>4. CASE removal' = [removal EXCEPT ![d] = r]
      <3>1. RemovalMove(d)
        BY <1>1, <2>1, <2>4 DEF RemovalMove
      <3> QED
        BY <1>3, <1>4, <2>1, <2>2, <2>3, <2>4, <3>1
    <2>5. CASE UNCHANGED removal
      BY <1>1, <1>4, <2>2, <2>3, <2>5 DEF DeletesMove, DeleteTypeOK, RemovalMove
    <2> QED
      BY <2>2, <2>4, <2>5
  <1>11. CASE OnDeleteDataTimeout(d)
    <2> DEFINE a == [removal[d] EXCEPT !.at = "none"]
               b == [removal[d] EXCEPT !.at = "late"]
               s == IF deleter[d] = "waiting" THEN "unknown" ELSE deleter[d]
    <2>1. /\ a \in Removal /\ a.at = "none"
          /\ b \in Removal /\ b.at = "late" /\ b.read = removal[d].read
          /\ s \in Deleter
      BY <1>2 DEF Removal, Deleter
    <2>2. /\ \/ removal' = [removal EXCEPT ![d] = a]
             \/ removal[d].at = "data" /\ removal' = [removal EXCEPT ![d] = b]
          /\ deleter' = [deleter EXCEPT ![d] = s]
          /\ UNCHANGED storageVars
      BY <1>1, <1>11 DEF OnDeleteDataTimeout
    <2> HIDE DEF a, b, s
    <2>3. deleter' \in [Delete -> Deleter]
      BY <1>1, <2>1, <2>2
    <2>4. CASE removal' = [removal EXCEPT ![d] = a]
      <3>1. RemovalMove(d)
        BY <1>1, <2>1, <2>4 DEF RemovalMove
      <3> QED
        BY <1>3, <1>4, <2>1, <2>2, <2>3, <2>4, <3>1
    <2>5. CASE removal[d].at = "data" /\ removal' = [removal EXCEPT ![d] = b]
      <3>1. RemovalMove(d)
        BY <1>1, <2>1, <2>5 DEF RemovalMove
      <3> QED
        BY <1>3, <1>4, <2>1, <2>2, <2>3, <2>5, <3>1
    <2> QED
      BY <2>2, <2>4, <2>5
  <1> QED
    BY <1>5, <1>6, <1>7, <1>8, <1>9, <1>10, <1>11 DEF DeleteDo

LEMMA RestartMoves ==
  ASSUME DeleteTypeOK, NEW n \in Node, Restart(n)
  PROVE  DeletesMove /\ SegsMove /\ ManifestMove
  <1>1. deleter \in [Delete -> Deleter] /\ removal \in [Delete -> Removal]
    BY DEF DeleteTypeOK
  <1>2. UNCHANGED storageVars /\ DOMAIN removal' = Delete /\ DOMAIN deleter' = Delete
    BY DEF Restart
  <1>3. removal' = [d \in Delete |-> removal'[d]] /\ deleter' = [d \in Delete |-> deleter'[d]]
    BY DEF Restart
  <1>4. ASSUME NEW d \in Delete
        PROVE  removal'[d] \in Removal /\ deleter'[d] \in Deleter /\ RemovalMove(d)
    <2>1. removal[d] \in Removal /\ deleter[d] \in Deleter
      BY <1>1
    <2>2. deleter'[d] \in {deleter[d], "unknown"}
      BY DEF Restart
    <2> DEFINE a == IF removal[d].at = "data" THEN "late"
                    ELSE IF removal[d].at = "erased" THEN "none" ELSE removal[d].at
               r == [removal[d] EXCEPT !.at = a]
    <2>3. removal'[d] \in {removal[d], r}
      BY <2>1 DEF Restart, Removal
    <2>4. /\ a \in {"none", "asked", "data", "late", "erased", "deleted", "missing"}
          /\ \/ removal[d].at = "data" /\ a = "late"
             \/ a = "none"
             \/ a = removal[d].at
      BY <2>1 DEF Removal
    <2> HIDE DEF a
    <2>5. r \in Removal /\ r.at = a /\ r.read = removal[d].read
      BY <2>1, <2>4 DEF Removal
    <2>6. a = removal[d].at => r = removal[d]
      BY <2>1 DEF Removal
    <2> HIDE DEF r
    <2> QED
      BY <2>1, <2>2, <2>3, <2>4, <2>5, <2>6 DEF Deleter, RemovalMove
  <1> QED
    BY <1>2, <1>3, <1>4 DEF DeletesMove, DeleteTypeOK, SegsMove, ManifestMove, storageVars

-----------------------------------------------------------------------------
(* The inductive invariant of the disks and of the history.                *)

\* What is on a disk was written by a put of that node that has begun.
SegsInv ==
  \A n \in Node, s \in Segment : segs[n][s] # NoPut =>
    /\ At[segs[n][s]] = n
    /\ s < Prepared(Size[segs[n][s]])
    /\ Begun(segs[n][s])

\* Puts that met another put, or a delete, are excused.
ExcuseInv ==
  /\ \A p, q \in Put : p # q /\ At[p] = At[q] /\ Begun(p) /\ Begun(q) => p \in excused
  /\ \A p \in Put, d \in Delete : Begun(p) /\ Erasing(d) => p \in excused

\* A manifest that was stored is there, or another one is.
SavedInv ==
  \A p \in Put \ excused :
    (\E t \in 1 .. MaxRetry + 1 : job[<<p, t>>].save = "over") => manifest # NoPut

RemovalInv == \A d \in Delete : removal[d].at \in {"data", "late"} => removal[d].read # NoPut

\* No content is of a whole number of blocks (else its put prepares nothing).
Uneven == \A p \in Put : Size[p] % BlockSize # 0

DoneInv ==
  Uneven => /\ DoneIsWritten
            /\ \A p \in Put : putter[p].state = "done" => Saved(p)

\* A reader is in the midst of one content, and of the one that the name has if it
\* has had it all the time.
ReadOK(g) ==
  /\ reader[g].at = "idle" => reader[g].next = 0
  /\ reader[g].at = "fetching" =>
       /\ reader[g].read # NoPut
       /\ reader[g].next # 0 => /\ reader[g].content # NoPut
                                /\ 0 < Prepared(Size[reader[g].content])
                                /\ reader[g].next <= Last(reader[g].content)
       /\ steady[g] # NoPut => /\ Readable = steady[g]
                               /\ At[reader[g].read] = At[steady[g]]
                               /\ reader[g].next <= Last(steady[g])
                               /\ reader[g].next # 0 => reader[g].content = steady[g]

ReadInv == \A g \in Get : ReadOK(g)

IInv ==
  /\ TypeOK /\ PutInv
  /\ SegsInv /\ ExcuseInv /\ SavedInv /\ RemovalInv /\ DoneInv
  /\ ReadInv /\ FindsWhatStays

\* The first segments and those after them are segments.
LEMMA Segments ==
  ASSUME NEW p \in Put
  PROVE  0 \in SegmentsOf(p) /\ SegmentsOf(p) \subseteq Segment
  BY LastIsNat DEF SegmentsOf, Segment

\* A client that has prepared any segment has prepared all that it announces.
LEMMA PreparedAll ==
  ASSUME NEW p \in Put, Prepared(Size[p]) # 0
  PROVE  Prepared(Size[p]) = Last(p) + 1 /\ Last(p) = Chunks(Size[p])
  <1>1. Size[p] \in Nat /\ Chunks(Size[p]) \in Nat /\ LastDataSize(Size[p]) \in Nat
    <2>1. Size[p] \in Nat
      BY SizeAssumption
    <2> QED
      BY <2>1, Division, BlockSizeAssumption
  <1>2. LastDataSize(Size[p]) # 0
    BY DEF Prepared, PieceSize
  <1> QED
    BY <1>1, <1>2 DEF Prepared, PieceSize, Last, EndBlock, Chunks, LastDataSize

LEMMA PreparedUneven ==
  ASSUME Uneven, NEW p \in Put
  PROVE  Prepared(Size[p]) = Last(p) + 1
  <1>1. Size[p] \in Nat /\ Chunks(Size[p]) \in Nat
    <2>1. Size[p] \in Nat
      BY SizeAssumption
    <2> QED
      BY <2>1, Division
  <1>2. Prepared(Size[p]) # 0
    BY <1>1 DEF Uneven, Prepared, PieceSize, LastDataSize
  <1> QED
    BY <1>2, PreparedAll

\* A segment is fetched for a put that has begun, after its manifest was sent.
LEMMA FetchBegun ==
  ASSUME PutInv, NEW pid \in Pid, NEW s \in job[pid].fetch
  PROVE  /\ Begun(pid[1]) /\ Saved(pid[1]) /\ s \in Segment
         /\ job[pid].info = "over" /\ job[pid].save # "unsent"
  <1>1. /\ job[pid].save # "unsent" /\ job[pid].info = "over"
        /\ s \in SegmentsOf(pid[1])
    BY DEF PutInv, JobOK, JobFits
  <1> QED
    BY <1>1, Pids, Segments DEF Begun, Saved

\* What is stored stays, unless a put or a delete got in the way.
LEMMA KeptStays ==
  ASSUME TypeOK, PutInv, SegsInv, ExcuseInv, RemovalInv, SegsMove, excused \subseteq excused'
  PROVE  AllKept
  <1> SUFFICES ASSUME NEW p \in Put, NEW W \in SUBSET SegmentsOf(p),
                      p \notin excused', NEW s \in W, \A r \in W : segs[At[p]][r] = p
               PROVE  segs'[At[p]][s] = p
    BY DEF AllKept, Kept
  <1>1. /\ s \in Segment /\ At[p] \in Node /\ segs[At[p]][s] = p /\ p # NoPut
        /\ p \notin excused
        /\ segs \in [Node -> [Segment -> Put \cup {NoPut}]]
    BY Segments, AtAssumption, NoPutAssumption DEF TypeOK, StorageTypeOK
  <1>2. Begun(p)
    BY <1>1 DEF SegsInv
  <1>3. CASE UNCHANGED segs
    BY <1>1, <1>3
  <1>4. ASSUME NEW pid \in Pid, NEW r \in Segment,
               r \in job[pid].fetch, InsertData(pid[1], r)
        PROVE  segs'[At[p]][s] = p
    <2>1. Begun(pid[1]) /\ pid[1] \in Put
      BY <1>4, FetchBegun, Pids
    <2>2. pid[1] = p \/ At[pid[1]] # At[p]
      BY <1>1, <1>2, <2>1 DEF ExcuseInv
    <2> QED
      BY <1>1, <1>4, <2>1, <2>2, AtAssumption DEF InsertData
  <1>5. ASSUME NEW d \in Delete, removal[d].at \in {"data", "late"}
        PROVE  FALSE
    BY <1>1, <1>2, <1>5 DEF ExcuseInv, Erasing
  <1>6. \A pid \in Pid : job[pid].fetch \subseteq Segment
    BY FetchBegun
  <1> QED
    BY <1>3, <1>4, <1>5, <1>6 DEF SegsMove

LEMMA PutKeeps ==
  ASSUME PutInv, AllKept, SegsTyped, PutDo
  PROVE  PutInv' /\ AllGo
  <1>1. ASSUME NEW p \in Put,
               \/ StartPut(p) \/ PutFileStartCheckCommand(p) \/ HandleCheckCommand(p)
               \/ OnCheckCommandResponse(p) \/ OnCheckCommandTimeout(p)
        PROVE  PutInv' /\ AllGo
    BY <1>1, StartPutKeeps, StartCheckKeeps, HandleCheckKeeps, CheckResponseKeeps,
       CheckTimeoutKeeps
  <1>2. ASSUME NEW pid \in Pid,
               \/ HandleFindCommand(pid) \/ OnFindResponse(pid)
               \/ OnInsertCommandResponse(pid) \/ OnInsertCommandTimeout(pid)
        PROVE  PutInv' /\ AllGo
    BY <1>2, HandleFindKeeps, FindResponseKeeps, InsertResponseKeeps, InsertTimeoutKeeps
  <1>3. ASSUME NEW pid \in Pid,
               \/ PutFileSendManifest(pid) \/ OnDataValidated(pid) \/ OnTimeout(pid)
               \/ (\E s \in Segment : OnSegmentData(pid, s)) \/ OnFetchError(pid)
        PROVE  PutInv' /\ AllGo
    BY <1>3, PutFileSendManifestKeeps, DataValidatedKeeps, TimeoutKeeps, SegmentDataKeeps,
       FetchErrorKeeps
  <1>4. ASSUME NEW pid \in Pid,
               \/ HandleCreateCommand(pid) \/ HandleInfoCommand(pid) \/ OnManifestData(pid)
               \/ OnCreateTimeout(pid) \/ NoEndTimePasses(pid) \/ DeleteProcess(pid)
        PROVE  PutInv' /\ AllGo
    BY <1>4, HandleCreateKeeps, HandleInfoKeeps, ManifestDataKeeps, CreateTimeoutKeeps,
       NoEndTimePassesKeeps, DeleteProcessKeeps
  <1> QED
    BY <1>1, <1>2, <1>3, <1>4 DEF PutDo

LEMMA NextMoves ==
  ASSUME IInv, Next
  PROVE  /\ SegsMove /\ ManifestMove /\ DoneMove /\ DeletesMove /\ AllKept
         /\ PutInv' /\ AllGo /\ History
  <1>1. TypeOK /\ PutInv /\ SegsInv /\ ExcuseInv /\ RemovalInv /\ SegsTyped
        /\ PutTypeOK /\ DeleteTypeOK /\ StorageTypeOK
    BY DEF IInv, TypeOK, SegsTyped, StorageTypeOK
  <1>2. History /\ excused \subseteq excused'
    BY Steps DEF OfPut, OfDelete, OfGet, History
  <1>3. UNCHANGED putter => DoneMove
    BY DEF DoneMove
  <1>4. UNCHANGED deleteVars => DeletesMove
    BY <1>1 DEF deleteVars, DeletesMove, DeleteTypeOK, RemovalMove
  <1>5. CASE PutDo /\ OfPut
    <2>1. SegsMove /\ ManifestMove /\ DoneMove
      BY <1>1, <1>5, PutSegs, PutDone
    <2>2. AllKept
      BY <1>1, <1>2, <2>1, KeptStays
    <2>3. DeletesMove
      BY <1>4, <1>5 DEF OfPut
    <2> QED
      BY <1>1, <1>2, <1>5, <2>1, <2>2, <2>3, PutKeeps
  <1>6. ASSUME NEW d \in Delete, DeleteDo(d), OfDelete
        PROVE  /\ SegsMove /\ ManifestMove /\ DoneMove /\ DeletesMove /\ AllKept
               /\ PutInv' /\ AllGo
    <2>1. UNCHANGED putVars /\ budget' \in Budget
      BY <1>1, <1>6, LoseTypes DEF OfDelete, DeleteDo
    <2>2. SegsMove /\ ManifestMove /\ DeletesMove
      BY <1>1, <1>6, <2>1, DeleteMoves
    <2>3. AllKept
      BY <1>1, <1>2, <2>2, KeptStays
    <2>4. DoneMove
      BY <1>3, <2>1 DEF putVars
    <2> QED
      BY <1>1, <2>1, <2>2, <2>3, <2>4, PutsRest
  <1>7. ASSUME NEW g \in Get, GetDo(g), OfGet
        PROVE  /\ SegsMove /\ ManifestMove /\ DoneMove /\ DeletesMove /\ AllKept
               /\ PutInv' /\ AllGo
    <2>1. UNCHANGED <<putVars, budget, deleteVars, storageVars>>
      BY <1>7 DEF OfGet, GetDo, OnGetInterest, OnDataCommandResponse, OnDataError
    <2>2. SegsMove /\ ManifestMove
      BY <2>1 DEF SegsMove, ManifestMove, storageVars
    <2>3. AllKept
      BY <1>1, <1>2, <2>2, KeptStays
    <2>4. DoneMove /\ budget' \in Budget
      BY <1>1, <1>3, <2>1, LoseTypes DEF putVars
    <2> QED
      BY <1>1, <1>4, <2>1, <2>2, <2>3, <2>4, PutsRest
  <1>8. ASSUME NEW n \in Node, Restart(n)
        PROVE  /\ SegsMove /\ ManifestMove /\ DoneMove /\ DeletesMove /\ AllKept
               /\ PutInv' /\ AllGo
    <2>1. SegsMove /\ ManifestMove /\ DeletesMove
      BY <1>1, <1>8, RestartMoves
    <2>2. AllKept
      BY <1>1, <1>2, <2>1, KeptStays
    <2>3. DoneMove
      BY <1>3, <1>8 DEF Restart
    <2> QED
      BY <1>1, <1>8, <2>1, <2>2, <2>3, RestartKeeps
  <1> QED
    BY <1>2, <1>5, <1>6, <1>7, <1>8, Steps

-----------------------------------------------------------------------------
(* Every step preserves the invariant.                                     *)

LEMMA BegunStays ==
  ASSUME AllGo, NEW p \in Put, Begun(p)
  PROVE  Begun(p)'
  <1>1. \A t \in 1 .. MaxRetry + 1 : <<p, t>> \in Pid
    BY DEF Pid
  <1> QED
    BY <1>1 DEF Begun, AllGo, Goes

LEMMA SavedStays ==
  ASSUME AllGo, NEW p \in Put, Saved(p)
  PROVE  Saved(p)'
  <1>1. \A t \in 1 .. MaxRetry + 1 : <<p, t>> \in Pid
    BY DEF Pid
  <1> QED
    BY <1>1 DEF Saved, AllGo, Goes

\* A put that begins is accepted.
LEMMA Begins ==
  ASSUME AllGo, NEW p \in Put, Begun(p)'
  PROVE  Begun(p) \/ Accepting(p)
  <1>1. PICK t \in 1 .. MaxRetry + 1 : job'[<<p, t>>].info # "unsent"
    BY DEF Begun
  <1>2. <<p, t>> \in Pid
    BY DEF Pid
  <1> QED
    BY <1>1, <1>2 DEF Begun, Accepting, AllGo, Goes

LEMMA SegsKeep ==
  ASSUME TypeOK, PutInv, SegsInv, SegsMove, AllGo
  PROVE  SegsInv' /\ segs' \in [Node -> [Segment -> Put \cup {NoPut}]]
  <1>1. segs \in [Node -> [Segment -> Put \cup {NoPut}]]
    BY DEF TypeOK, StorageTypeOK
  <1>2. \A p \in Put : Begun(p) => Begun(p)'
    BY BegunStays
  <1>3. CASE UNCHANGED segs
    BY <1>1, <1>2, <1>3 DEF SegsInv
  <1>4. ASSUME NEW pid \in Pid, NEW r \in Segment,
               r \in job[pid].fetch, Has(pid[1], r), InsertData(pid[1], r)
        PROVE  SegsInv' /\ segs' \in [Node -> [Segment -> Put \cup {NoPut}]]
    <2>1. /\ Begun(pid[1]) /\ pid[1] \in Put /\ At[pid[1]] \in Node
          /\ r < Prepared(Size[pid[1]])
      BY <1>4, FetchBegun, Pids, AtAssumption DEF Has
    <2>2. segs' \in [Node -> [Segment -> Put \cup {NoPut}]]
      BY <1>1, <1>4, <2>1 DEF InsertData
    <2>3. \A n \in Node, s \in Segment :
            IF n = At[pid[1]] /\ s = r THEN segs'[n][s] = pid[1] ELSE segs'[n][s] = segs[n][s]
      BY <1>1, <1>4, <2>1 DEF InsertData
    <2> QED
      BY <1>1, <1>2, <2>1, <2>2, <2>3 DEF SegsInv
  <1>5. ASSUME NEW n \in Node, NEW last, DeleteData(n, last)
        PROVE  SegsInv' /\ segs' \in [Node -> [Segment -> Put \cup {NoPut}]]
    <2>1. \A m \in Node, s \in Segment : segs'[m][s] \in {NoPut, segs[m][s]}
      BY <1>1, <1>5 DEF DeleteData
    <2>2. segs' \in [Node -> [Segment -> Put \cup {NoPut}]]
      BY <1>1, <1>5 DEF DeleteData
    <2> QED
      BY <1>1, <1>2, <2>1, <2>2 DEF SegsInv
  <1>6. ASSUME NEW n, n \notin Node, NEW last, DeleteData(n, last)
        PROVE  SegsInv' /\ segs' \in [Node -> [Segment -> Put \cup {NoPut}]]
    <2>1. UNCHANGED segs
      BY <1>1, <1>6 DEF DeleteData
    <2> QED
      BY <1>1, <1>3, <2>1
  <1>7. \A pid \in Pid : job[pid].fetch \subseteq Segment
    BY FetchBegun
  <1> QED
    BY <1>3, <1>4, <1>5, <1>6, <1>7 DEF SegsMove

LEMMA ExcuseKeeps ==
  ASSUME ExcuseInv, DeletesMove, AllGo, History
  PROVE  ExcuseInv'
  <1>1. \A p \in Put : (p \in excused \/ Mishaps(p)) => p \in excused'
    BY DEF History
  <1>2. ASSUME NEW p \in Put, NEW q \in Put, p # q, At[p] = At[q], Begun(p)', Begun(q)'
        PROVE  p \in excused'
    <2>1. (Begun(p) \/ Accepting(p)) /\ (Begun(q) \/ Accepting(q))
      BY <1>2, Begins
    <2> QED
      BY <1>1, <1>2, <2>1 DEF ExcuseInv, Mishaps
  <1>3. ASSUME NEW p \in Put, NEW d \in Delete, Begun(p)', Erasing(d)'
        PROVE  p \in excused'
    <2>1. Begun(p) \/ Accepting(p)
      BY <1>3, Begins
    <2>2. \/ Erasing(d)
          \/ removal[d].at = "asked" /\ removal'[d].at = "data" /\ UNCHANGED job
      BY <1>3 DEF Erasing, DeletesMove, RemovalMove
    <2>3. UNCHANGED job => ~Accepting(p)
      BY DEF Accepting
    <2> QED
      BY <1>1, <2>1, <2>2, <2>3 DEF ExcuseInv, Mishaps
  <1> QED
    BY <1>2, <1>3 DEF ExcuseInv

LEMMA SavedKeeps ==
  ASSUME TypeOK, PutInv, ExcuseInv, SavedInv, ManifestMove, AllGo, History
  PROVE  SavedInv' /\ manifest' \in Put \cup {NoPut}
  <1>1. \A p \in Put : (p \in excused \/ Mishaps(p)) => p \in excused'
    BY DEF History
  <1>2. /\ manifest \in Put \cup {NoPut} /\ job \in [Pid -> Job]
        /\ \A pid \in Pid : pid[1] \in Put
    BY Pids DEF TypeOK, StorageTypeOK, PutTypeOK
  <1>3. manifest' \in Put \cup {NoPut}
    BY <1>2 DEF ManifestMove
  <1>4. ASSUME NEW p \in Put, p \notin excused', NEW t \in 1 .. MaxRetry + 1,
               job'[<<p, t>>].save = "over"
        PROVE  manifest' # NoPut
    <2>1. <<p, t>> \in Pid /\ p # NoPut
      BY NoPutAssumption DEF Pid
    <2>2. job[<<p, t>>].save \in {"create", "write-info", "json", "over"}
      BY <1>2, <1>4, <2>1 DEF AllGo, Goes, Job
    <2>3. CASE job[<<p, t>>].save # "over"
      BY <1>1, <1>4, <2>1, <2>2, <2>3 DEF Mishaps
    <2>4. CASE job[<<p, t>>].save = "over"
      <3>1. manifest # NoPut
        BY <1>1, <1>4, <2>4 DEF SavedInv
      <3>2. Begun(p)
        <4>1. job[<<p, t>>].info = "over"
          BY <2>1, <2>4 DEF PutInv, JobOK, JobFits
        <4> QED
          BY <4>1 DEF Begun
      <3>3. \A d \in Delete : ~Erasing(d)
        BY <1>1, <1>4, <3>2 DEF ExcuseInv
      <3>4. \A pid \in Pid : pid[1] # NoPut
        BY <1>2, NoPutAssumption
      <3> QED
        BY <3>1, <3>3, <3>4 DEF ManifestMove, Erasing
    <2> QED
      BY <2>3, <2>4
  <1> QED
    BY <1>3, <1>4 DEF SavedInv

LEMMA RemovalKeeps ==
  ASSUME RemovalInv, DeletesMove
  PROVE  RemovalInv'
  BY DEF RemovalInv, DeletesMove, RemovalMove

\* A count of all the segments is that of all the segments.
LEMMA AllStored ==
  ASSUME NEW p \in Put, NEW n, Stored(p, n), n = Last(p) + 1
  PROVE  Kept(p, SegmentsOf(p)) /\ Saved(p)
  <1>1. PICK W \in SUBSET SegmentsOf(p) :
          Cardinality(W) = n /\ Kept(p, W) /\ (W # {} => Saved(p))
    BY DEF Stored
  <1>2. IsFiniteSet(0 .. Last(p)) /\ Cardinality(0 .. Last(p)) = Last(p) + 1
    BY LastIsNat, FS_Interval
  <1>3. W = SegmentsOf(p)
    BY <1>1, <1>2, FS_Subset DEF SegmentsOf
  <1> QED
    BY <1>1, <1>3, Segments

LEMMA DoneKeeps ==
  ASSUME PutInv, DoneInv, DoneMove, AllKept, AllGo, History
  PROVE  DoneInv'
  <1> SUFFICES ASSUME Uneven, NEW p \in Put, putter'[p].state = "done"
               PROVE  Saved(p)' /\ Kept(p, SegmentsOf(p))'
    BY DEF DoneInv, DoneIsWritten, Kept, Uneven
  <1>1. CASE putter[p].state = "done"
    <2>1. Saved(p) /\ Kept(p, SegmentsOf(p))
      BY <1>1 DEF DoneInv, DoneIsWritten, Kept
    <2> QED
      BY <2>1, SavedStays DEF AllKept
  <1>2. CASE putter[p].check = "data" /\ putter[p].seen[2] = Prepared(Size[p])
    <2>1. Stored(p, putter[p].seen[2])
      BY <1>2 DEF PutInv, ClientOK
    <2>2. Saved(p) /\ Kept(p, SegmentsOf(p))
      BY <1>2, <2>1, AllStored, PreparedUneven
    <2> QED
      BY <2>2, SavedStays DEF AllKept
  <1> QED
    BY <1>1, <1>2 DEF DoneMove

FindsIt(g) ==
  Ended(g) /\ steady[g] # NoPut => /\ reader[g].at = "whole"
                                   /\ reader[g].content = steady[g]
                                   /\ reader[g].next = Last(steady[g]) + 1

\* The content that the name has.
LEMMA ReadableIs ==
  ASSUME StorageTypeOK, SegsInv
  PROVE  /\ Readable \in Put \cup {NoPut}
         /\ Readable # NoPut => /\ manifest \in Put
                                /\ At[Readable] = At[manifest]
                                /\ \A s \in SegmentsOf(Readable) :
                                     segs[At[manifest]][s] = Readable
  <1>1. manifest \in Put \cup {NoPut} /\ segs \in [Node -> [Segment -> Put \cup {NoPut}]]
    BY DEF StorageTypeOK
  <1>2. CASE manifest = NoPut
    BY <1>2 DEF Readable
  <1>3. CASE manifest # NoPut
    <2> DEFINE p == segs[At[manifest]][0]
    <2>1. manifest \in Put /\ At[manifest] \in Node /\ 0 \in Segment
      BY <1>1, <1>3, AtAssumption, Segments
    <2>2. p \in Put \cup {NoPut} /\ (p # NoPut => At[p] = At[manifest])
      BY <1>1, <2>1 DEF SegsInv
    <2>3. /\ Readable \in {p, NoPut}
          /\ Readable # NoPut => \A s \in SegmentsOf(p) : segs[At[manifest]][s] = p
      BY <1>3 DEF Readable
    <2> HIDE DEF p
    <2> QED
      BY <2>1, <2>2, <2>3
  <1> QED
    BY <1>2, <1>3

LEMMA ReaderStays ==
  ASSUME ReadTypeOK, History, NEW g \in Get, reader'[g] = reader[g], ReadOK(g), FindsIt(g)
  PROVE  ReadOK(g)' /\ FindsIt(g)'
  <1>1. reader[g].at \in {"idle", "fetching", "whole", "failed"}
    BY DEF ReadTypeOK, Reader
  <1>2. steady'[g] = IF Ended(g) THEN steady[g]
                     ELSE IF reader[g].at = "idle" THEN NoPut
                     ELSE IF Readable' = steady[g] THEN steady[g] ELSE NoPut
    BY DEF History
  <1>3. CASE Ended(g)
    BY <1>2, <1>3 DEF ReadOK, FindsIt, Ended
  <1>4. CASE reader[g].at = "idle"
    BY <1>4 DEF ReadOK, FindsIt, Ended
  <1>5. CASE reader[g].at = "fetching"
    BY <1>2, <1>5 DEF ReadOK, FindsIt, Ended
  <1> QED
    BY <1>1, <1>3, <1>4, <1>5 DEF Ended

LEMMA ReaderReads ==
  ASSUME StorageTypeOK, ReadTypeOK, SegsInv, History, NEW g \in Get, GetDo(g),
         ReadOK(g), FindsIt(g)
  PROVE  /\ reader' \in [Get -> Reader]
         /\ \A h \in Get : h # g => reader'[h] = reader[h]
         /\ ReadOK(g)' /\ FindsIt(g)'
  <1>1. /\ reader \in [Get -> Reader] /\ reader[g] \in Reader
        /\ manifest \in Put \cup {NoPut} /\ segs \in [Node -> [Segment -> Put \cup {NoPut}]]
    BY DEF ReadTypeOK, StorageTypeOK
  <1>2. ASSUME NEW r \in Reader, reader' = [reader EXCEPT ![g] = r]
        PROVE  /\ reader' \in [Get -> Reader] /\ reader'[g] = r
               /\ \A h \in Get : h # g => reader'[h] = reader[h]
    BY <1>1, <1>2
  <1>3. UNCHANGED storageVars /\ UNCHANGED <<manifest, segs>> /\ Readable' = Readable
    BY DEF GetDo, OnGetInterest, OnDataCommandResponse, OnDataError, storageVars, Readable
  <1>4. steady'[g] = IF Ended(g) THEN steady[g]
                     ELSE IF reader[g].at = "idle"
                          THEN IF reader'[g].at = "idle" THEN NoPut ELSE Readable
                     ELSE IF Readable = steady[g] THEN steady[g] ELSE NoPut
    BY <1>3 DEF History
  <1>5. /\ Readable \in Put \cup {NoPut}
        /\ Readable # NoPut => /\ manifest \in Put
                               /\ At[Readable] = At[manifest]
                               /\ \A s \in SegmentsOf(Readable) :
                                    segs[At[manifest]][s] = Readable
    BY ReadableIs
  <1>6. ASSUME reader[g].at = "idle", manifest = NoPut, reader' = [reader EXCEPT ![g] = Bare("failed")]
        PROVE  reader' \in [Get -> Reader] /\ ReadOK(g)' /\ FindsIt(g)'
    <2>1. Bare("failed") \in Reader /\ Bare("failed").at = "failed"
      BY DEF Bare, Reader
    <2>2. reader' \in [Get -> Reader] /\ reader'[g].at = "failed"
      BY <1>2, <1>6, <2>1
    <2>3. steady'[g] = NoPut
      BY <1>4, <1>6, <2>2 DEF Ended, Readable
    <2> QED
      BY <2>2, <2>3 DEF ReadOK, FindsIt
  <1>7. ASSUME reader[g].at = "idle", manifest # NoPut,
               reader' = [reader EXCEPT ![g] = [@ EXCEPT !.at = "fetching", !.read = manifest]]
        PROVE  reader' \in [Get -> Reader] /\ ReadOK(g)' /\ FindsIt(g)'
    <2> DEFINE r == [reader[g] EXCEPT !.at = "fetching", !.read = manifest]
    <2>1. /\ r \in Reader /\ r.at = "fetching" /\ r.read = manifest
          /\ r.next = reader[g].next /\ r.next = 0
      BY <1>1, <1>7 DEF Reader, ReadOK
    <2>2. reader' = [reader EXCEPT ![g] = r]
      BY <1>1, <1>7
    <2> HIDE DEF r
    <2>3. reader' \in [Get -> Reader] /\ reader'[g] = r
      BY <1>2, <2>1, <2>2
    <2>4. steady'[g] = Readable
      BY <1>4, <1>7, <2>1, <2>3 DEF Ended
    <2>5. ASSUME Readable # NoPut
          PROVE  At[manifest] = At[Readable] /\ 0 <= Last(Readable)
      BY <1>5, <2>5, LastIsNat
    <2>6. FindsIt(g)'
      BY <2>1, <2>3 DEF FindsIt, Ended
    <2> QED
      BY <1>3, <1>7, <2>1, <2>3, <2>4, <2>5, <2>6 DEF ReadOK
  <1>8. ASSUME reader[g].at = "fetching"
        PROVE  /\ reader[g].read \in Put /\ At[reader[g].read] \in Node
               /\ reader[g].next \in Nat /\ Sent(g) = segs[At[reader[g].read]][reader[g].next]
               /\ reader[g].next \in Segment /\ Sent(g) \in Put \cup {NoPut}
               /\ reader[g].next # 0 => reader[g].content \in Put
               /\ steady[g] # NoPut => Sent(g) = steady[g] /\ steady[g] \in Put
    <2>1. /\ reader[g].read \in Put /\ reader[g].next \in Nat
          /\ reader[g].content \in Put \cup {NoPut}
      BY <1>1, <1>8 DEF Reader, ReadOK
    <2>2. At[reader[g].read] \in Node
      BY <2>1, AtAssumption
    <2>3. ASSUME reader[g].next = 0
          PROVE  reader[g].next \in Segment
      BY <2>1, <2>3, Segments
    <2>4. ASSUME reader[g].next # 0
          PROVE  reader[g].next \in Segment
      <3>1. reader[g].content \in Put /\ reader[g].next <= Last(reader[g].content)
        BY <1>8, <2>1, <2>4 DEF ReadOK
      <3>2. reader[g].next \in SegmentsOf(reader[g].content)
        BY <2>1, <3>1, LastIsNat DEF SegmentsOf
      <3> QED
        BY <3>1, <3>2, Segments
    <2>5. reader[g].next \in Segment
      BY <2>3, <2>4
    <2>6. ASSUME steady[g] # NoPut
          PROVE  Sent(g) = steady[g] /\ steady[g] \in Put
      <3>1. /\ Readable = steady[g] /\ At[reader[g].read] = At[steady[g]]
            /\ reader[g].next <= Last(steady[g])
        BY <1>8, <2>6 DEF ReadOK
      <3>2. Last(steady[g]) \in Nat
        BY <1>5, <2>6, <3>1, LastIsNat
      <3>3. reader[g].next \in SegmentsOf(steady[g])
        BY <2>1, <3>1, <3>2 DEF SegmentsOf
      <3> QED
        BY <1>5, <2>6, <3>1, <3>3 DEF Sent
    <2> QED
      BY <1>1, <1>8, <2>1, <2>2, <2>5, <2>6 DEF Sent, ReadOK
  <1>9. ASSUME OnDataCommandResponse(g)
        PROVE  reader' \in [Get -> Reader] /\ ReadOK(g)' /\ FindsIt(g)'
    <2> DEFINE a == IF reader[g].next = Chunks(Size[Sent(g)]) THEN "whole" ELSE reader[g].at
               n == reader[g].next + 1
               r == [reader[g] EXCEPT !.content = Sent(g), !.next = n, !.at = a]
    <2>1. /\ reader[g].at = "fetching" /\ Follows(g)
          /\ reader' = [reader EXCEPT ![g].content = Sent(g), ![g].next = n, ![g].at = a]
      BY <1>9 DEF OnDataCommandResponse
    <2>2. Sent(g) # NoPut /\ Sent(g) \in Put /\ reader[g].next \in Nat /\ n \in Nat /\ n # 0
      BY <1>8, <2>1 DEF Follows
    <2>3. a \in {"whole", "fetching"} /\ (a = "whole" <=> reader[g].next = Chunks(Size[Sent(g)]))
      BY <2>1
    <2> HIDE DEF a
    <2>4. /\ r \in Reader /\ r.at = a /\ r.next = n /\ r.content = Sent(g)
          /\ r.read = reader[g].read
      BY <1>1, <2>2, <2>3 DEF Reader
    <2>5. reader' = [reader EXCEPT ![g] = r]
      BY <1>1, <2>1
    <2> HIDE DEF r
    <2>6. reader' \in [Get -> Reader] /\ reader'[g] = r
      BY <1>2, <2>4, <2>5
    <2>7. reader[g].next < Prepared(Size[Sent(g)])
      BY <1>8, <2>1, <2>2 DEF SegsInv, Sent
    <2>8. /\ Prepared(Size[Sent(g)]) = Last(Sent(g)) + 1
          /\ Last(Sent(g)) = Chunks(Size[Sent(g)]) /\ Last(Sent(g)) \in Nat
      BY <2>2, <2>7, PreparedAll, LastIsNat
    <2>9. a # "whole" => n <= Last(Sent(g))
      BY <2>2, <2>3, <2>7, <2>8
    <2>10. steady'[g] = IF Readable = steady[g] THEN steady[g] ELSE NoPut
      BY <1>4, <2>1 DEF Ended
    <2>11. steady'[g] # NoPut => /\ steady'[g] = Sent(g) /\ steady[g] = Sent(g)
                                 /\ Readable = steady[g]
                                 /\ At[reader[g].read] = At[steady[g]]
      BY <1>8, <2>1, <2>10 DEF ReadOK
    <2>12. CASE a = "whole"
      <3>1. n = Last(Sent(g)) + 1
        BY <2>3, <2>8, <2>12
      <3> QED
        BY <2>4, <2>6, <2>11, <2>12, <3>1 DEF ReadOK, FindsIt
    <2>13. CASE a = "fetching"
      <3>1. ~Ended(g)'
        BY <2>4, <2>6, <2>13 DEF Ended
      <3>2. reader[g].read # NoPut
        BY <2>1 DEF ReadOK
      <3>3. 0 < Prepared(Size[Sent(g)])
        BY <2>8
      <3> QED
        BY <1>3, <2>2, <2>4, <2>6, <2>9, <2>11, <2>13, <3>1, <3>2, <3>3 DEF ReadOK, FindsIt
    <2> QED
      BY <2>3, <2>12, <2>13, <2>6
  <1>10. ASSUME OnDataError(g)
         PROVE  reader' \in [Get -> Reader] /\ ReadOK(g)' /\ FindsIt(g)'
    <2>1. /\ reader[g].at = "fetching" /\ ~Follows(g)
          /\ reader' = [reader EXCEPT ![g] = Bare("failed")]
      BY <1>10 DEF OnDataError
    <2>2. Bare("failed") \in Reader /\ Bare("failed").at = "failed"
      BY DEF Bare, Reader
    <2>3. reader' \in [Get -> Reader] /\ reader'[g].at = "failed"
      BY <1>2, <2>1, <2>2
    <2>4. steady[g] = NoPut
      BY <1>8, <2>1 DEF Follows, ReadOK
    <2>5. steady'[g] = NoPut
      BY <1>4, <2>1, <2>4 DEF Ended
    <2> QED
      BY <2>3, <2>5 DEF ReadOK, FindsIt
  <1>11. \A h \in Get : h # g => reader'[h] = reader[h]
    BY <1>1 DEF GetDo, OnGetInterest, OnDataCommandResponse, OnDataError
  <1> QED
    BY <1>6, <1>7, <1>9, <1>10, <1>11 DEF GetDo, OnGetInterest

LEMMA ReadsKeep ==
  ASSUME StorageTypeOK, ReadTypeOK, SegsInv, ReadInv, FindsWhatStays, History,
         UNCHANGED reader \/ \E g \in Get : GetDo(g)
  PROVE  ReadTypeOK' /\ ReadInv' /\ FindsWhatStays'
  <1>1. \A g \in Get : ReadOK(g) /\ FindsIt(g)
    BY DEF ReadInv, FindsWhatStays, FindsIt
  <1>2. \A g \in Get : reader'[g] = reader[g] => ReadOK(g)' /\ FindsIt(g)'
    BY <1>1, ReaderStays
  <1>3. ReadTypeOK' /\ \A g \in Get : ReadOK(g)' /\ FindsIt(g)'
    <2>1. CASE UNCHANGED reader
      BY <1>2, <2>1 DEF ReadTypeOK
    <2>2. ASSUME NEW g \in Get, GetDo(g)
          PROVE  ReadTypeOK' /\ \A h \in Get : ReadOK(h)' /\ FindsIt(h)'
      <3>1. /\ reader' \in [Get -> Reader]
            /\ \A h \in Get : h # g => reader'[h] = reader[h]
            /\ ReadOK(g)' /\ FindsIt(g)'
        BY <1>1, <2>2, ReaderReads
      <3> QED
        BY <1>2, <3>1 DEF ReadTypeOK
    <2> QED
      BY <2>1, <2>2
  <1> QED
    BY <1>3 DEF ReadInv, FindsWhatStays, FindsIt

LEMMA InitHolds ==
  ASSUME Init
  PROVE  IInv
  <1>1. /\ manifest = NoPut /\ segs = [n \in Node |-> [s \in Segment |-> NoPut]]
        /\ proc = [pid \in {} |-> 0]
        /\ job = [pid \in Pid |-> [insert |-> "unsent", info |-> "unsent",
                                   fetch |-> {}, save |-> "unsent"]]
        /\ deleter = [d \in Delete |-> "idle"]
        /\ removal = [d \in Delete |-> [at |-> "none", read |-> NoPut]]
        /\ reader = [g \in Get |-> Bare("idle")]
        /\ restarts = MaxRestarts /\ stored = {} /\ excused = {}
        /\ steady = [g \in Get |-> NoPut]
    BY DEF Init, StorageInit, PutInit, DeleteInit, ReadInit
  <1>2. \A p \in Put : /\ putter[p] \in Putter /\ putter[p].state = "idle"
                       /\ putter[p].tries = 0 /\ putter[p].retries \in 0 .. MaxRetry
                       /\ putter[p].check = "none"
    BY PutBoundsAssumption DEF Init, PutInit, Putter, Reply
  <1>3. \A pid \in Pid : /\ job[pid].insert = "unsent" /\ job[pid].info = "unsent"
                         /\ job[pid].fetch = {} /\ job[pid].save = "unsent"
    BY <1>1
  <1>4. \A p \in Put, t \in 1 .. MaxRetry + 1 : <<p, t>> \in Pid
    BY DEF Pid
  <1>5. PutTypeOK
    <2>1. putter \in [Put -> Putter]
      BY <1>2 DEF Init, PutInit
    <2>2. job \in [Pid -> Job]
      BY <1>1 DEF Job
    <2>3. budget \in [losses : 0 .. MaxLosses, expiries : 0 .. MaxExpiries]
      BY PutBoundsAssumption DEF Init, PutInit
    <2> QED
      BY <1>1, <2>1, <2>2, <2>3 DEF PutTypeOK
  <1>6. TypeOK
    BY <1>1, <1>5, MaxRestartsAssumption
    DEF TypeOK, StorageTypeOK, DeleteTypeOK, ReadTypeOK, Deleter, Removal, Reader, Bare
  <1>7. PutInv
    <2>1. \A p \in Put : ClientOK(p)
      BY <1>2, <1>3, <1>4, PutBoundsAssumption DEF ClientOK
    <2>2. \A pid \in Pid : JobOK(pid)
      BY <1>1, <1>3 DEF JobOK, JobFits
    <2> QED
      BY <1>1, <1>5, <2>1, <2>2 DEF PutInv
  <1>8. \A p \in Put : ~Begun(p)
    BY <1>3, <1>4 DEF Begun
  <1>9. SegsInv /\ ExcuseInv /\ RemovalInv
    BY <1>1, <1>8 DEF SegsInv, ExcuseInv, RemovalInv
  <1>10. SavedInv /\ DoneInv
    BY <1>2, <1>3, <1>4 DEF SavedInv, DoneInv, DoneIsWritten
  <1>11. ReadInv /\ FindsWhatStays
    BY <1>1 DEF ReadInv, ReadOK, FindsWhatStays, Ended, Bare
  <1> QED
    BY <1>6, <1>7, <1>9, <1>10, <1>11 DEF IInv

LEMMA NextKeeps ==
  ASSUME IInv, Next
  PROVE  IInv'
  <1>1. /\ SegsMove /\ ManifestMove /\ DoneMove /\ DeletesMove /\ AllKept
        /\ PutInv' /\ AllGo /\ History
    BY NextMoves
  <1>2. /\ TypeOK /\ PutInv /\ SegsInv /\ ExcuseInv /\ SavedInv /\ RemovalInv /\ DoneInv
        /\ ReadInv /\ FindsWhatStays
        /\ StorageTypeOK /\ ReadTypeOK
    BY DEF IInv, TypeOK
  <1>3. SegsInv' /\ segs' \in [Node -> [Segment -> Put \cup {NoPut}]]
    BY <1>1, <1>2, SegsKeep
  <1>4. ExcuseInv' /\ RemovalInv' /\ DoneInv'
    BY <1>1, <1>2, ExcuseKeeps, RemovalKeeps, DoneKeeps
  <1>5. SavedInv' /\ manifest' \in Put \cup {NoPut}
    BY <1>1, <1>2, SavedKeeps
  <1>6. /\ UNCHANGED reader \/ \E g \in Get : GetDo(g)
        /\ restarts' \in 0 .. MaxRestarts
    <2>1. restarts \in 0 .. MaxRestarts
      BY <1>2 DEF TypeOK
    <2>2. \A n \in Node : Restart(n) => /\ UNCHANGED reader
                                        /\ restarts > 0 /\ restarts' = restarts - 1
      BY DEF Restart
    <2>3. \/ UNCHANGED <<reader, restarts>>
          \/ UNCHANGED restarts /\ \E g \in Get : GetDo(g)
          \/ UNCHANGED reader /\ restarts > 0 /\ restarts' = restarts - 1
      BY <2>2, Steps DEF OfPut, OfDelete, OfGet
    <2> QED
      BY <2>1, <2>3, MaxRestartsAssumption
  <1>7. ReadTypeOK' /\ ReadInv' /\ FindsWhatStays'
    BY <1>1, <1>2, <1>6, ReadsKeep
  <1>8. StorageTypeOK' /\ PutTypeOK' /\ DeleteTypeOK'
    BY <1>1, <1>3, <1>5 DEF StorageTypeOK, PutInv, DeletesMove
  <1>9. Readable' \in Put \cup {NoPut}
    <2>1. CASE manifest' = NoPut
      BY <2>1 DEF Readable
    <2>2. CASE manifest' \in Put
      <3>1. At[manifest'] \in Node /\ 0 \in Segment
        BY <2>2, AtAssumption, Segments
      <3>2. segs'[At[manifest']][0] \in Put \cup {NoPut}
        BY <1>3, <3>1
      <3>3. Readable' \in {NoPut, segs'[At[manifest']][0]}
        BY DEF Readable
      <3> QED
        BY <3>2, <3>3
    <2> QED
      BY <1>5, <2>1, <2>2
  <1>10. /\ stored' \subseteq Put /\ excused' \subseteq Put
         /\ steady' \in [Get -> Put \cup {NoPut}]
    BY <1>1, <1>2, <1>9 DEF History, TypeOK
  <1>11. TypeOK'
    BY <1>6, <1>7, <1>8, <1>10 DEF TypeOK
  <1> QED
    BY <1>1, <1>3, <1>4, <1>5, <1>7, <1>11 DEF IInv

LEMMA Invariant == Spec => []IInv
  <1>1. Init => IInv
    BY InitHolds
  <1>2. IInv /\ [Next]_vars => IInv'
    <2> SUFFICES ASSUME IInv, [Next]_vars
                 PROVE  IInv'
      OBVIOUS
    <2>1. ASSUME UNCHANGED vars
          PROVE  IInv'
      <3>1. /\ UNCHANGED <<manifest, segs, putter, proc, job, budget, deleter, removal, reader>>
            /\ UNCHANGED <<restarts, stored, excused, steady>>
        BY <2>1 DEF vars, putVars, deleteVars, storageVars, historyVars
      <3>2. TypeOK' /\ PutTypeOK'
        BY <3>1 DEF IInv, TypeOK, StorageTypeOK, PutTypeOK, DeleteTypeOK, ReadTypeOK
      <3>3. PutInv'
        <4>1. AllKept
          BY <3>1 DEF AllKept, Kept
        <4>2. UNCHANGED putVars /\ budget' \in Budget
          BY <3>1 DEF putVars, IInv, PutInv, PutTypeOK, Budget
        <4> QED
          BY <4>1, <4>2, PutsRest DEF IInv
      <3>4. SegsInv' /\ ExcuseInv' /\ SavedInv' /\ RemovalInv'
        BY <3>1 DEF IInv, SegsInv, ExcuseInv, SavedInv, RemovalInv, Begun, Erasing
      <3>5. DoneInv'
        BY <3>1 DEF IInv, DoneInv, DoneIsWritten, Saved
      <3>6. ReadInv' /\ FindsWhatStays'
        BY <3>1 DEF IInv, ReadInv, ReadOK, FindsWhatStays, Ended, Readable
      <3> QED
        BY <3>2, <3>3, <3>4, <3>5, <3>6 DEF IInv
    <2> QED
      BY <2>1, NextKeeps
  <1> QED
    BY <1>1, <1>2, PTL DEF Spec

\* The state of the clients, of the nodes and of the disks is what its declaration
\* says: retries never run below nought nor commands beyond the ids that there are,
\* whatever is lost, late, retried or restarted.
THEOREM TypeAlways == Spec => []TypeOK
  BY Invariant, PTL DEF IInv

\* A get prints, in whole, the content that the name has from its beginning to its
\* end (ReadHandle, and the fetcher of the client), for any number of clients,
\* nodes, losses and restarts, and for contents of any size.
THEOREM FindsWhatStaysAlways == Spec => []FindsWhatStays
  BY Invariant, PTL DEF IInv

\* A put that reports success has had all its segments stored: the count that the
\* node answers (difs.cpp:710) is that of a set of segments, for it never counts a
\* segment twice.  A content of a whole number of blocks is out of it: its client
\* prepares nothing and is done with a count of nought (run file_multiple).
THEOREM DoneIsWrittenAlways ==
  ASSUME \A p \in Put : Size[p] % BlockSize # 0
  PROVE  Spec => []DoneIsWritten
  <1>1. IInv => DoneIsWritten
    BY DEF IInv, DoneInv, Uneven
  <1> QED
    BY <1>1, Invariant, PTL

\* What a put that reported success leaves when all is at rest: a manifest, and the
\* content that it names.
THEOREM DoneHasCauseAlways ==
  ASSUME \A p \in Put : Size[p] % BlockSize # 0
  PROVE  Spec => []DoneHasCause
  <1>1. ASSUME IInv
        PROVE  DoneHasCause
    <2> SUFFICES ASSUME AtRest, NEW p \in Put \ excused, putter[p].state = "done"
                 PROVE  /\ manifest # NoPut
                        /\ manifest \notin excused /\ putter[manifest].state = "done"
                             => Readable = manifest
      BY DEF DoneHasCause
    <2>1. DoneIsWritten /\ Saved(p) /\ SavedInv /\ manifest \in Put \cup {NoPut}
      BY <1>1 DEF IInv, DoneInv, Uneven, TypeOK, StorageTypeOK
    <2>2. manifest # NoPut
      <3>1. PICK t \in 1 .. MaxRetry + 1 : job[<<p, t>>].save # "unsent"
        BY <2>1 DEF Saved
      <3>2. job[<<p, t>>].save = "over"
        BY <3>1 DEF AtRest, PutAtRest
      <3> QED
        BY <2>1, <3>2 DEF SavedInv
    <2>3. ASSUME manifest \notin excused, putter[manifest].state = "done"
          PROVE  Readable = manifest
      <3>1. manifest \in Put /\ 0 \in SegmentsOf(manifest)
        BY <2>1, <2>2, Segments
      <3>2. \A s \in SegmentsOf(manifest) : segs[At[manifest]][s] = manifest
        BY <2>1, <2>3, <3>1 DEF DoneIsWritten
      <3> QED
        BY <2>2, <3>1, <3>2 DEF Readable
    <2> QED
      BY <2>2, <2>3
  <1> QED
    BY <1>1, Invariant, PTL

-----------------------------------------------------------------------------
(* Clients that take turns: the name behaves as a register.                *)

\* No two puts are sent to the same node.
Apart == \A p, q \in Put : At[p] = At[q] => p = q

\* The put of p was not refused, or will not be.
Own(p) == Begun(p) \/ \E t \in 1 .. MaxRetry + 1 : job[<<p, t>>].insert = "free"

\* At most one client has anything under way.
TurnInv ==
  /\ \A p, q \in Put : PutAtRest(p) \/ PutAtRest(q) \/ p = q
  /\ \A d, e \in Delete : DeleteAtRest(d) \/ DeleteAtRest(e) \/ d = e
  /\ \A p \in Put, d \in Delete : PutAtRest(p) \/ DeleteAtRest(d)

\* While a put is under way that is not refused, the manifest is its own.
OwnInv == \A p \in Put : ~PutAtRest(p) /\ Own(p) => manifest \in {NoPut, p}

\* What a reader gets is on record.  Before its put is at rest it does not go away.
StoredInv ==
  /\ Readable \in stored \cup {NoPut}
  /\ \A p \in stored : Begun(p) /\ (PutAtRest(p) \/ Readable = p)

\* Nothing is under way for a delete that has not started or has been answered; one
\* that will be confirmed has left no manifest.
DeletedInv ==
  \A d \in Delete :
    /\ deleter[d] \in {"idle", "done", "notfound"} => removal[d].at = "none"
    /\ removal[d].at = "deleted" => manifest = NoPut

\* A reader gets the content of the manifest's own put, or none.
Tidy == Readable \in {NoPut, manifest}

RInv == TurnInv /\ OwnInv /\ StoredInv /\ DeletedInv

LEMMA ApartTidy ==
  ASSUME Apart, IInv
  PROVE  Tidy
  <1> SUFFICES ASSUME Readable # NoPut
               PROVE  Readable = manifest
    BY DEF Tidy
  <1>1. manifest \in Put /\ At[manifest] \in Node
    BY AtAssumption DEF Readable, IInv, TypeOK, StorageTypeOK
  <1>2. 0 \in Segment
    BY <1>1, Segments
  <1>3. Readable = segs[At[manifest]][0] /\ Readable \in Put
    BY <1>1, <1>2 DEF Readable, IInv, TypeOK, StorageTypeOK
  <1>4. At[Readable] = At[manifest]
    BY <1>1, <1>2, <1>3 DEF IInv, SegsInv
  <1> QED
    BY <1>1, <1>3, <1>4 DEF Apart

\* What is readable with manifest m and segments g.
Content(m, g) ==
  IF m = NoPut THEN NoPut
  ELSE IF /\ g[At[m]][0] # NoPut
          /\ \A s \in SegmentsOf(g[At[m]][0]) : g[At[m]][s] = g[At[m]][0]
       THEN g[At[m]][0] ELSE NoPut

\* The content of the manifest's put is readable when all of its segments are there.
LEMMA ContentIs ==
  ASSUME NEW m, NEW g, Content(m, g) \in {NoPut, m}, NEW p \in Put
  PROVE  Content(m, g) = p <=> m = p /\ \A s \in SegmentsOf(p) : g[At[p]][s] = p
  <1>1. 0 \in SegmentsOf(p) /\ p # NoPut
    BY Segments, NoPutAssumption
  <1>2. ASSUME Content(m, g) = p
        PROVE  m = p /\ \A s \in SegmentsOf(p) : g[At[p]][s] = p
    <2>1. m = p
      BY <1>1, <1>2
    <2> QED
      BY <1>1, <1>2, <2>1 DEF Content
  <1>3. ASSUME m = p, \A s \in SegmentsOf(p) : g[At[p]][s] = p
        PROVE  Content(m, g) = p
    BY <1>1, <1>3 DEF Content
  <1> QED
    BY <1>2, <1>3

LEMMA ReadableContent ==
  /\ Readable = Content(manifest, segs)
  /\ Readable' = Content(manifest', segs')
  BY DEF Readable, Content

\* The steps of a put that has started.
PutOn ==
  \/ \E p \in Put : \/ PutFileStartCheckCommand(p)
                    \/ HandleCheckCommand(p)
                    \/ OnCheckCommandResponse(p)
                    \/ OnCheckCommandTimeout(p)
  \/ \E pid \in Pid : \/ HandleFindCommand(pid)
                      \/ OnFindResponse(pid)
                      \/ OnInsertCommandResponse(pid)
                      \/ OnInsertCommandTimeout(pid)
                      \/ PutFileSendManifest(pid)
                      \/ OnDataValidated(pid)
                      \/ OnTimeout(pid)
                      \/ \E s \in Segment : OnSegmentData(pid, s)
                      \/ OnFetchError(pid)
                      \/ HandleCreateCommand(pid)
                      \/ HandleInfoCommand(pid)
                      \/ OnManifestData(pid)
                      \/ OnCreateTimeout(pid)
                      \/ NoEndTimePasses(pid)
                      \/ DeleteProcess(pid)

\* A put that is at rest stays so, unless it starts.
LEMMA PutRests ==
  ASSUME TypeOK, NEW q \in Put, PutAtRest(q),
         PutOn \/ \E p \in Put \ {q} : StartPut(p)
  PROVE  PutAtRest(q)'
  <1>1. /\ putter \in [Put -> Putter] /\ job \in [Pid -> Job]
        /\ putter[q].state \notin {"inserting", "checking"}
    BY DEF TypeOK, PutTypeOK, PutAtRest
  <1>2. \A t \in 1 .. MaxRetry + 1 :
          /\ <<q, t>> \in Pid
          /\ job[<<q, t>>].insert \in {"unsent", "over"}
          /\ job[<<q, t>>].info \in {"unsent", "over"}
          /\ job[<<q, t>>].fetch = {}
          /\ job[<<q, t>>].save \in {"unsent", "over"}
    BY DEF PutAtRest, Pid
  <1> DEFINE Same == putter'[q] = putter[q] /\ \A t \in 1 .. MaxRetry + 1 : job'[<<q, t>>] = job[<<q, t>>]
  <1>3. Same => PutAtRest(q)'
    BY <1>1, <1>2 DEF PutAtRest
  <1>4. ASSUME NEW p \in Put,
               \/ PutFileStartCheckCommand(p) \/ HandleCheckCommand(p)
               \/ OnCheckCommandResponse(p) \/ OnCheckCommandTimeout(p)
        PROVE  PutAtRest(q)'
    <2>1. UNCHANGED job
      BY <1>4 DEF PutFileStartCheckCommand, HandleCheckCommand,
                  OnCheckCommandResponse, OnCheckCommandTimeout
    <2>2. CASE p # q
      <3>1. putter'[q] = putter[q]
        BY <1>1, <1>4, <2>2 DEF PutFileStartCheckCommand, HandleCheckCommand,
                                OnCheckCommandResponse, OnCheckCommandTimeout
      <3> QED
        BY <1>3, <2>1, <3>1
    <2>3. CASE p = q
      <3>1. PutFileStartCheckCommand(q) => putter'[q].state = putter[q].state
        BY <1>1 DEF PutFileStartCheckCommand
      <3>2. HandleCheckCommand(q) => putter'[q].state = putter[q].state
        BY <1>1 DEF HandleCheckCommand, Putter
      <3>3. OnCheckCommandResponse(q) =>
              putter'[q].state \in {"failed", "done", putter[q].state}
        BY <1>1 DEF OnCheckCommandResponse, Putter
      <3>4. OnCheckCommandTimeout(q) => putter'[q].state \in {"stopped", putter[q].state}
        BY <1>1 DEF OnCheckCommandTimeout, Putter
      <3>5. putter'[q].state \notin {"inserting", "checking"}
        BY <1>1, <1>4, <2>3, <3>1, <3>2, <3>3, <3>4
      <3> QED
        BY <1>2, <2>1, <3>5 DEF PutAtRest
    <2> QED
      BY <2>2, <2>3
  <1>5. ASSUME NEW pid \in Pid,
               \/ HandleFindCommand(pid) \/ OnFindResponse(pid)
               \/ OnInsertCommandResponse(pid) \/ OnInsertCommandTimeout(pid)
        PROVE  PutAtRest(q)'
    <2>1. pid[1] \in Put /\ pid[2] \in 1 .. MaxRetry + 1 /\ pid = <<pid[1], pid[2]>>
      BY Pids
    <2>2. pid[1] # q
      <3> SUFFICES ASSUME pid[1] = q
                   PROVE  FALSE
        OBVIOUS
      <3>1. job[pid].insert \in {"unsent", "over"}
        BY <1>2, <2>1
      <3>2. ~Awaited(pid)
        BY <1>1 DEF Awaited
      <3> QED
        BY <1>5, <3>1, <3>2 DEF HandleFindCommand, OnFindResponse, OnInsertCommandResponse,
                                OnInsertCommandTimeout
    <2>3. \A t, u : <<pid[1], u>> # <<q, t>> /\ pid # <<q, t>>
      BY <2>1, <2>2
    <2>4. putter'[q] = putter[q]
      BY <1>1, <1>5, <2>2 DEF HandleFindCommand, OnFindResponse, OnInsertCommandResponse,
                              OnInsertCommandTimeout
    <2>5. \A t \in 1 .. MaxRetry + 1 : job'[<<q, t>>] = job[<<q, t>>]
      BY <1>1, <1>2, <1>5, <2>3 DEF HandleFindCommand, OnFindResponse,
                                    OnInsertCommandResponse, OnInsertCommandTimeout
    <2> QED
      BY <1>3, <2>4, <2>5
  <1>6. ASSUME NEW pid \in Pid,
               \/ PutFileSendManifest(pid) \/ OnDataValidated(pid) \/ OnTimeout(pid)
               \/ (\E s \in Segment : OnSegmentData(pid, s)) \/ OnFetchError(pid)
               \/ HandleCreateCommand(pid) \/ HandleInfoCommand(pid) \/ OnManifestData(pid)
               \/ OnCreateTimeout(pid)
        PROVE  PutAtRest(q)'
    <2>1. pid[1] \in Put /\ pid[2] \in 1 .. MaxRetry + 1 /\ pid = <<pid[1], pid[2]>>
      BY Pids
    <2>2. pid[1] # q
      <3> SUFFICES ASSUME pid[1] = q
                   PROVE  FALSE
        OBVIOUS
      <3>1. /\ job[pid].info \in {"unsent", "over"} /\ job[pid].fetch = {}
            /\ job[pid].save \in {"unsent", "over"}
        BY <1>2, <2>1
      <3> QED
        BY <1>6, <3>1 DEF PutFileSendManifest, OnDataValidated, OnTimeout, OnSegmentData,
                          OnFetchError, HandleCreateCommand, HandleInfoCommand,
                          OnManifestData, OnCreateTimeout
    <2>3. \A t : pid # <<q, t>>
      BY <2>1, <2>2
    <2>4. putter'[q] = putter[q]
      BY <1>1, <1>6, <2>2 DEF PutFileSendManifest, OnDataValidated, OnTimeout, OnSegmentData,
                          OnFetchError, HandleCreateCommand, HandleInfoCommand,
                          OnManifestData, OnCreateTimeout
    <2>5. \A t \in 1 .. MaxRetry + 1 : job'[<<q, t>>] = job[<<q, t>>]
      BY <1>1, <1>2, <1>6, <2>3
         DEF PutFileSendManifest, OnDataValidated, OnTimeout, OnSegmentData,
             OnFetchError, HandleCreateCommand, HandleInfoCommand,
             OnManifestData, OnCreateTimeout
    <2> QED
      BY <1>3, <2>4, <2>5
  <1>7. ASSUME NEW pid \in Pid, NoEndTimePasses(pid) \/ DeleteProcess(pid)
        PROVE  PutAtRest(q)'
    BY <1>3, <1>7 DEF NoEndTimePasses, DeleteProcess
  <1>8. ASSUME NEW p \in Put \ {q}, StartPut(p)
        PROVE  PutAtRest(q)'
    <2>1. \A t \in 1 .. MaxRetry + 1 : <<p, 1>> # <<q, t>>
      OBVIOUS
    <2>2. putter'[q] = putter[q]
      BY <1>1, <1>8 DEF StartPut
    <2>3. \A t \in 1 .. MaxRetry + 1 : job'[<<q, t>>] = job[<<q, t>>]
      BY <1>1, <1>2, <1>8, <2>1 DEF StartPut
    <2> QED
      BY <1>3, <2>2, <2>3
  <1> QED
    BY <1>4, <1>5, <1>6, <1>7, <1>8 DEF PutOn

\* What a put writes: a segment, or the manifest.
Writes(p) ==
  \/ (\E s \in Segment : InsertData(p, s)) /\ UNCHANGED manifest
  \/ manifest' = p /\ UNCHANGED segs

\* Only a put that has begun, and is under way, writes.
LEMMA PutWrites ==
  ASSUME PutInv, PutOn
  PROVE  \/ UNCHANGED <<manifest, segs>>
         \/ \E p \in Put : ~PutAtRest(p) /\ Begun(p) /\ Writes(p)
  <1>1. ASSUME NEW pid \in Pid, NEW s \in Segment, OnSegmentData(pid, s)
        PROVE  ~PutAtRest(pid[1]) /\ Begun(pid[1]) /\ Writes(pid[1])
    <2>1. s \in job[pid].fetch
      BY <1>1 DEF OnSegmentData
    <2>2. Begun(pid[1]) /\ ~PutAtRest(pid[1])
      BY <2>1, FetchBegun, Pids DEF PutAtRest
    <2> QED
      BY <1>1, <2>2 DEF OnSegmentData, Writes
  <1>2. ASSUME NEW pid \in Pid, OnManifestData(pid)
        PROVE  ~PutAtRest(pid[1]) /\ Begun(pid[1]) /\ Writes(pid[1])
    <2>1. job[pid].save = "json" /\ job[pid].info = "over"
      BY <1>2 DEF OnManifestData, PutInv, JobOK, JobFits
    <2>2. Begun(pid[1]) /\ ~PutAtRest(pid[1])
      BY <2>1, Pids DEF PutAtRest, Begun
    <2> QED
      BY <1>2, <2>2 DEF OnManifestData, Writes
  <1>3. CASE \E pid \in Pid : (\E s \in Segment : OnSegmentData(pid, s)) \/ OnManifestData(pid)
    BY <1>1, <1>2, <1>3, Pids
  <1>4. CASE ~ \E pid \in Pid : (\E s \in Segment : OnSegmentData(pid, s))
                                \/ OnManifestData(pid)
    <2>1. ASSUME NEW p \in Put,
                 \/ PutFileStartCheckCommand(p) \/ HandleCheckCommand(p)
                 \/ OnCheckCommandResponse(p) \/ OnCheckCommandTimeout(p)
          PROVE  UNCHANGED <<manifest, segs>>
      BY <2>1 DEF storageVars, PutFileStartCheckCommand, HandleCheckCommand,
                  OnCheckCommandResponse, OnCheckCommandTimeout
    <2>2. ASSUME NEW pid \in Pid,
                 \/ HandleFindCommand(pid) \/ OnFindResponse(pid)
                 \/ OnInsertCommandResponse(pid) \/ OnInsertCommandTimeout(pid)
                 \/ PutFileSendManifest(pid) \/ OnDataValidated(pid) \/ OnTimeout(pid)
                 \/ OnFetchError(pid) \/ HandleCreateCommand(pid) \/ HandleInfoCommand(pid)
                 \/ OnCreateTimeout(pid) \/ NoEndTimePasses(pid) \/ DeleteProcess(pid)
          PROVE  UNCHANGED <<manifest, segs>>
      BY <2>2 DEF storageVars, HandleFindCommand, OnFindResponse,
         OnInsertCommandResponse, OnInsertCommandTimeout, PutFileSendManifest,
         OnDataValidated, OnTimeout, OnFetchError, HandleCreateCommand, HandleInfoCommand,
         OnCreateTimeout, NoEndTimePasses, DeleteProcess
    <2> QED
      BY <1>4, <2>1, <2>2 DEF PutOn
  <1> QED
    BY <1>3, <1>4

\* A put that has the manifest to itself does not make a content unreadable.
LEMMA WriteReads ==
  ASSUME TypeOK, Tidy, Tidy', NEW p \in Put, manifest \in {NoPut, p}, Writes(p)
  PROVE  /\ manifest' \in {NoPut, p}
         /\ Readable' = Readable \/ (Readable = NoPut /\ Readable' = p)
  <1>1. segs \in [Node -> [Segment -> Put \cup {NoPut}]] /\ p # NoPut /\ At[p] \in Node
        /\ SegmentsOf(p) \subseteq Segment
    BY NoPutAssumption, AtAssumption, Segments DEF TypeOK, StorageTypeOK
  <1>2. manifest' \in {NoPut, p} /\ (manifest = p => manifest' = p)
    BY DEF Writes
  <1>3. Readable \in {NoPut, p} /\ Readable' \in {NoPut, p}
    BY <1>2 DEF Tidy
  <1>4. ASSUME Readable = p
        PROVE  Readable' = p
    <2>1. Content(manifest, segs) \in {NoPut, manifest}
          /\ Content(manifest', segs') \in {NoPut, manifest'}
      BY ReadableContent DEF Tidy
    <2>2. manifest = p /\ \A s \in SegmentsOf(p) : segs[At[p]][s] = p
      BY <1>4, <2>1, ReadableContent, ContentIs
    <2>3. \A s \in SegmentsOf(p) : segs'[At[p]][s] = p
      BY <1>1, <2>2 DEF Writes, InsertData
    <2> QED
      BY <1>2, <2>1, <2>2, <2>3, ReadableContent, ContentIs
  <1> QED
    BY <1>2, <1>3, <1>4

\* A delete does not make a content readable.
LEMMA DeleteReads ==
  ASSUME TypeOK, Tidy, Tidy', manifest' \in {NoPut, manifest},
         segs' # segs => \E n, last : DeleteData(n, last)
  PROVE  Readable' \in {NoPut, Readable}
  <1> SUFFICES ASSUME Readable' # NoPut
               PROVE  Readable' = Readable
    OBVIOUS
  <1>1. manifest' = manifest /\ Readable' = manifest /\ manifest \in Put
    BY DEF Tidy, TypeOK, StorageTypeOK, Readable
  <1>2. segs \in [Node -> [Segment -> Put \cup {NoPut}]] /\ manifest # NoPut /\ At[manifest] \in Node
        /\ SegmentsOf(manifest) \subseteq Segment
    BY <1>1, NoPutAssumption, AtAssumption, Segments DEF TypeOK, StorageTypeOK
  <1>3. Content(manifest, segs) \in {NoPut, manifest}
        /\ Content(manifest', segs') \in {NoPut, manifest'}
    BY ReadableContent DEF Tidy
  <1>4. \A s \in SegmentsOf(manifest) : segs'[At[manifest]][s] = manifest
    <2>1. Content(manifest', segs') = manifest
      BY <1>1, ReadableContent
    <2> QED
      BY <1>1, <1>3, <2>1, ContentIs
  <1>5. \A s \in SegmentsOf(manifest) : segs[At[manifest]][s] = manifest
    <2>1. ASSUME NEW n, NEW last, DeleteData(n, last), NEW s \in Segment
          PROVE  segs'[At[manifest]][s] \in {NoPut, segs[At[manifest]][s]}
      BY <1>2, <2>1 DEF DeleteData
    <2> QED
      BY <1>2, <1>4, <2>1
  <1>6. Content(manifest, segs) = manifest
    BY <1>1, <1>3, <1>5, ContentIs
  <1> QED
    BY <1>1, <1>6, ReadableContent

\* A find that is answered with nothing has seen no manifest, and only after such an
\* answer a process begins.
LEMMA FindComes ==
  ASSUME TypeOK, PutOn, NEW pid \in Pid
  PROVE  /\ job'[pid].insert = "free" =>
              job[pid].insert = "free" \/ (manifest = NoPut /\ UNCHANGED manifest)
         /\ job'[pid].info # "unsent" =>
              job[pid].info # "unsent" \/ job[pid].insert = "free"
  <1>1. job \in [Pid -> Job]
    BY DEF TypeOK, PutTypeOK
  <1> DEFINE Goal == /\ job'[pid].insert = "free" =>
                          \/ job[pid].insert = "free"
                          \/ manifest = NoPut /\ UNCHANGED manifest
                     /\ job'[pid].info # "unsent" =>
                          job[pid].info # "unsent" \/ job[pid].insert = "free"
  <1>2. ASSUME NEW p \in Put,
               \/ PutFileStartCheckCommand(p) \/ HandleCheckCommand(p)
               \/ OnCheckCommandResponse(p) \/ OnCheckCommandTimeout(p)
        PROVE  Goal
    BY <1>2 DEF PutFileStartCheckCommand, HandleCheckCommand,
                OnCheckCommandResponse, OnCheckCommandTimeout
  <1>3. ASSUME NEW q \in Pid, HandleFindCommand(q)
        PROVE  Goal
    BY <1>1, <1>3 DEF HandleFindCommand, storageVars, Job
  <1>4. ASSUME NEW q \in Pid, OnFindResponse(q)
        PROVE  Goal
    <2>1. Answered(q, "accepted") # "free" /\ Answered(q, "exists") # "free"
      BY DEF Answered
    <2> QED
      BY <1>1, <1>4, <2>1 DEF OnFindResponse, Job
  <1>5. ASSUME NEW q \in Pid, OnInsertCommandResponse(q)
        PROVE  Goal
    BY <1>1, <1>5 DEF OnInsertCommandResponse, Job
  <1>6. ASSUME NEW q \in Pid, OnInsertCommandTimeout(q)
        PROVE  Goal
    <2>1. PICK left \in {"over", job[q].insert} :
            \/ job' = [job EXCEPT ![q].insert = left,
                                  ![<<q[1], q[2] + 1>>].insert = "interest"]
            \/ job' = [job EXCEPT ![q].insert = left]
      BY <1>6 DEF OnInsertCommandTimeout
    <2>2. job'[pid].insert \in {"over", "interest", job[pid].insert}
          /\ job'[pid].info = job[pid].info
      <3>1. CASE job' = [job EXCEPT ![q].insert = left]
        BY <1>1, <2>1, <3>1 DEF Job
      <3>2. CASE job' = [job EXCEPT ![q].insert = left,
                                    ![<<q[1], q[2] + 1>>].insert = "interest"]
        <4> DEFINE K == [job EXCEPT ![q].insert = left]
        <4>1. K \in [Pid -> [insert : {"over"} \cup {job[q].insert} \cup {job[x].insert : x \in Pid},
                             info : {job[x].info : x \in Pid},
                             fetch : {job[x].fetch : x \in Pid},
                             save : {job[x].save : x \in Pid}]]
          BY <1>1, <2>1 DEF Job
        <4>2. K[pid].insert \in {"over", job[pid].insert} /\ K[pid].info = job[pid].info
          BY <1>1, <2>1 DEF Job
        <4>3. job' = [K EXCEPT ![<<q[1], q[2] + 1>>].insert = "interest"]
          BY <3>2
        <4> HIDE DEF K
        <4> QED
          BY <4>1, <4>2, <4>3
      <3> QED
        BY <2>1, <3>1, <3>2
    <2> QED
      BY <2>2
  <1>7. ASSUME NEW q \in Pid,
               \/ PutFileSendManifest(q) \/ OnDataValidated(q) \/ OnTimeout(q)
               \/ (\E s \in Segment : OnSegmentData(q, s)) \/ OnFetchError(q)
               \/ HandleCreateCommand(q) \/ HandleInfoCommand(q) \/ OnManifestData(q)
               \/ OnCreateTimeout(q) \/ NoEndTimePasses(q) \/ DeleteProcess(q)
        PROVE  Goal
    <2>1. job'[pid].insert = job[pid].insert
          /\ (job[pid].info = "unsent" => job'[pid].info = "unsent")
      <3>1. CASE PutFileSendManifest(q) \/ OnDataValidated(q) \/ OnTimeout(q)
        BY <1>1, <3>1 DEF Job, PutFileSendManifest, OnDataValidated, OnTimeout
      <3>2. CASE (\E s \in Segment : OnSegmentData(q, s)) \/ OnFetchError(q)
        BY <1>1, <3>2 DEF Job, OnSegmentData, OnFetchError
      <3>3. CASE \/ HandleCreateCommand(q) \/ HandleInfoCommand(q) \/ OnManifestData(q)
                 \/ OnCreateTimeout(q) \/ NoEndTimePasses(q) \/ DeleteProcess(q)
        BY <1>1, <3>3 DEF Job, HandleCreateCommand, HandleInfoCommand, OnManifestData,
                          OnCreateTimeout, NoEndTimePasses, DeleteProcess
      <3> QED
        BY <1>7, <3>1, <3>2, <3>3
    <2> QED
      BY <2>1
  <1> HIDE DEF Goal
  <1>8. Goal
    BY <1>2, <1>3, <1>4, <1>5, <1>6, <1>7 DEF PutOn
  <1> QED
    BY <1>8 DEF Goal

\* A put that was not refused has found no manifest.
LEMMA OwnComes ==
  ASSUME TypeOK, PutOn, NEW p \in Put, Own(p)'
  PROVE  Own(p) \/ (manifest = NoPut /\ UNCHANGED manifest)
  <1>1. PICK t \in 1 .. MaxRetry + 1 :
          job'[<<p, t>>].insert = "free" \/ job'[<<p, t>>].info # "unsent"
    BY DEF Own, Begun
  <1>2. <<p, t>> \in Pid
    BY DEF Pid
  <1> QED
    BY <1>1, <1>2, FindComes DEF Own, Begun

\* What the clients see of the register.
Deleting == {d \in Delete : ~DeleteAtRest(d)}
Confirmed == {d \in Delete : deleter[d] = "done"}

\* What the register does not see: nothing that can be read, nothing of the record
\* and no delete changes.
RegisterRests == UNCHANGED <<Readable, stored, Deleting, Confirmed>>

RegisterStep == RInv' /\ (Register!Next \/ RegisterRests)

\* A step that makes nothing readable adds nothing to the record.
LEMMA NothingStored ==
  ASSUME Exclusive, TypeOK, History, StoredInv, AllGo,
         Readable' \in {NoPut, Readable},
         \A p \in Put : PutAtRest(p) => PutAtRest(p)' \/ ~Begun(p),
         Readable' = Readable \/ \A p \in Put : PutAtRest(p)
  PROVE  StoredInv' /\ UNCHANGED stored
  <1>1. stored' = stored \cup ({Readable'} \ {NoPut}) /\ stored \subseteq Put
    BY DEF History, TypeOK
  <1>2. stored' = stored
    BY <1>1 DEF StoredInv
  <1>3. ASSUME NEW p \in stored
        PROVE  Begun(p)' /\ (PutAtRest(p)' \/ Readable' = p)
    <2>1. p \in Put /\ Begun(p) /\ (PutAtRest(p) \/ Readable = p)
      BY <1>1 DEF StoredInv
    <2>2. Begun(p)'
      BY <2>1, BegunStays
    <2> QED
      BY <2>1, <2>2
  <1> QED
    BY <1>2, <1>3 DEF StoredInv

\* A put that has begun is not idle.
LEMMA BegunNotIdle ==
  ASSUME PutInv, NEW p \in Put, Begun(p)
  PROVE  putter[p].state # "idle"
  <1> SUFFICES ASSUME putter[p].state = "idle"
               PROVE  FALSE
    OBVIOUS
  <1>1. PICK t \in 1 .. MaxRetry + 1 : job[<<p, t>>].info # "unsent"
    BY DEF Begun
  <1>2. <<p, t>> \in Pid
    BY DEF Pid
  <1>3. putter[p].tries = 0
    BY DEF PutInv, ClientOK
  <1>4. t > putter[p].tries
    BY <1>3, PutBoundsAssumption
  <1>5. job[<<p, t>>].insert = "unsent"
    BY <1>4 DEF PutInv, ClientOK
  <1> QED
    BY <1>1, <1>2, <1>5 DEF PutInv, JobOK, JobFits

\* A client starts to put when all is at rest.
LEMMA StartPutTurn ==
  ASSUME Exclusive, IInv, RInv, NEW p \in Put, AtRest, StartPut(p), OfPut, AllGo
  PROVE  RegisterStep
  <1>1. TypeOK /\ PutInv /\ TurnInv /\ OwnInv /\ StoredInv /\ DeletedInv /\ History
    BY DEF IInv, RInv, OfPut
  <1>2. UNCHANGED <<manifest, segs, deleter, removal>>
    BY DEF StartPut, storageVars, OfPut, deleteVars
  <1>3. /\ Readable' = Readable /\ Deleting' = Deleting /\ Confirmed' = Confirmed
        /\ \A d \in Delete : DeleteAtRest(d)'
    BY <1>2 DEF Readable, Deleting, Confirmed, DeleteAtRest, AtRest
  <1>4. \A q \in Put \ {p} : PutAtRest(q)'
    BY <1>1, PutRests DEF AtRest
  <1>5. putter[p].state = "idle"
    BY DEF StartPut
  <1>6. StoredInv' /\ UNCHANGED stored
    <2>1. ~Begun(p)
      BY <1>1, <1>5, BegunNotIdle
    <2> QED
      BY <1>1, <1>3, <1>4, <2>1, NothingStored
  <1>7. TurnInv'
    BY <1>3, <1>4 DEF TurnInv
  <1>8. OwnInv'
    <2>1. ~Own(p)'
      <3>1. job \in [Pid -> Job] /\ putter[p].tries = 0 /\ putter[p] \in Putter
        BY <1>1, <1>5 DEF TypeOK, PutTypeOK, PutInv, ClientOK
      <3>2. ASSUME NEW t \in 1 .. MaxRetry + 1
            PROVE  job'[<<p, t>>].insert # "free" /\ job'[<<p, t>>].info = "unsent"
        <4>1. <<p, t>> \in Pid /\ <<p, 1>> \in Pid
          BY PutBoundsAssumption DEF Pid
        <4>2. job[<<p, t>>].insert = "unsent"
          BY <1>1, <3>1, PutBoundsAssumption DEF PutInv, ClientOK
        <4>3. job[<<p, t>>].info = "unsent"
          BY <1>1, <4>1, <4>2 DEF PutInv, JobOK, JobFits
        <4> QED
          BY <3>1, <4>1, <4>2, <4>3 DEF StartPut, Job
      <3> QED
        BY <3>2 DEF Own, Begun
    <2> QED
      BY <1>4, <2>1 DEF OwnInv
  <1>9. DeletedInv'
    BY <1>1, <1>2 DEF DeletedInv
  <1> QED
    BY <1>3, <1>6, <1>7, <1>8, <1>9 DEF RegisterStep, RInv, RegisterRests

\* The steps of a put: the last segment that it stores, or its manifest, makes its
\* content readable.
LEMMA PutTurn ==
  ASSUME Exclusive, IInv, RInv, Tidy, Tidy', PutOn, OfPut, AllGo
  PROVE  RegisterStep
  <1>1. TypeOK /\ PutInv /\ TurnInv /\ OwnInv /\ StoredInv /\ DeletedInv /\ History
    BY DEF IInv, RInv, OfPut
  <1>2. UNCHANGED <<deleter, removal>>
    BY DEF OfPut, deleteVars
  <1>3. /\ Deleting' = Deleting /\ Confirmed' = Confirmed
        /\ \A d \in Delete : DeleteAtRest(d)' <=> DeleteAtRest(d)
    BY <1>2 DEF Deleting, Confirmed, DeleteAtRest
  <1>4. \A q \in Put : PutAtRest(q) => PutAtRest(q)'
    BY <1>1, PutRests
  <1>5. TurnInv'
    BY <1>1, <1>3, <1>4 DEF TurnInv
  <1>6. CASE UNCHANGED <<manifest, segs>>
    <2>1. Readable' = Readable
      BY <1>6 DEF Readable
    <2>2. StoredInv' /\ UNCHANGED stored
      BY <1>1, <1>4, <2>1, NothingStored
    <2>3. OwnInv'
      <3> SUFFICES ASSUME NEW p \in Put, ~PutAtRest(p)', Own(p)'
                   PROVE  manifest' \in {NoPut, p}
        BY DEF OwnInv
      <3>1. ~PutAtRest(p) /\ (Own(p) \/ manifest = NoPut)
        BY <1>1, <1>4, OwnComes
      <3> QED
        BY <1>1, <1>6, <3>1 DEF OwnInv
    <2>4. DeletedInv'
      BY <1>1, <1>2, <1>6 DEF DeletedInv
    <2> QED
      BY <1>3, <1>5, <2>1, <2>2, <2>3, <2>4 DEF RegisterStep, RInv, RegisterRests
  <1>7. ASSUME NEW p \in Put, ~PutAtRest(p), Begun(p), Writes(p)
        PROVE  RegisterStep
    <2>1. manifest \in {NoPut, p}
      BY <1>1, <1>7 DEF OwnInv, Own
    <2>2. /\ manifest' \in {NoPut, p}
          /\ Readable' = Readable \/ (Readable = NoPut /\ Readable' = p)
      BY <1>1, <1>7, <2>1, WriteReads
    <2>3. \A q \in Put \ {p} : PutAtRest(q) /\ PutAtRest(q)'
      BY <1>1, <1>4, <1>7 DEF TurnInv
    <2>4. \A d \in Delete : DeleteAtRest(d)
      BY <1>1, <1>7 DEF TurnInv
    <2>5. OwnInv'
      BY <2>2, <2>3 DEF OwnInv
    <2>6. DeletedInv'
      BY <1>1, <1>2, <2>4 DEF DeletedInv, DeleteAtRest
    <2>7. CASE Readable' = Readable
      <3>1. StoredInv' /\ UNCHANGED stored
        BY <1>1, <1>4, <2>7, NothingStored
      <3> QED
        BY <1>3, <1>5, <2>5, <2>6, <2>7, <3>1 DEF RegisterStep, RInv, RegisterRests
    <2>8. CASE Readable = NoPut /\ Readable' = p
      <3>1. p # NoPut /\ stored \subseteq Put
        BY <1>1, NoPutAssumption DEF TypeOK
      <3>2. stored' = stored \cup {p}
        BY <1>1, <2>8, <3>1 DEF History
      <3>3. p \notin stored
        BY <1>1, <1>7, <2>8, <3>1 DEF StoredInv
      <3>4. StoredInv'
        <4>1. ASSUME NEW q \in stored'
              PROVE  Begun(q)' /\ (PutAtRest(q)' \/ Readable' = q)
          <5>1. q \in Put /\ Begun(q)
            BY <1>1, <1>7, <3>1, <3>2 DEF StoredInv
          <5>2. Begun(q)'
            BY <5>1, BegunStays
          <5> QED
            BY <2>3, <2>8, <5>1, <5>2
        <4> QED
          BY <2>8, <3>2, <4>1 DEF StoredInv
      <3>5. Register!Store(p)
        BY <1>3, <2>8, <3>2, <3>3 DEF Register!Store, Deleting, Confirmed
      <3>6. Register!Next
        BY <3>5 DEF Register!Next
      <3> QED
        BY <1>5, <2>5, <2>6, <3>4, <3>6 DEF RegisterStep, RInv
    <2> QED
      BY <2>2, <2>7, <2>8
  <1> QED
    BY <1>1, <1>6, <1>7, PutWrites

\* A client starts to delete when all is at rest.
LEMMA StartDeleteTurn ==
  ASSUME Exclusive, IInv, RInv, NEW d \in Delete, AtRest, StartDelete(d), OfDelete, AllGo
  PROVE  RegisterStep
  <1>1. TypeOK /\ TurnInv /\ OwnInv /\ StoredInv /\ DeletedInv /\ History
        /\ deleter \in [Delete -> Deleter] /\ removal \in [Delete -> Removal]
    BY DEF IInv, RInv, OfDelete, TypeOK, DeleteTypeOK
  <1>2. UNCHANGED <<manifest, segs, putter, job>>
    BY DEF StartDelete, storageVars, OfDelete, putVars
  <1>3. /\ Readable' = Readable
        /\ \A p \in Put : PutAtRest(p)'
    BY <1>2 DEF Readable, PutAtRest, AtRest
  <1>4. \A e \in Delete : DeleteAtRest(e)
    BY DEF AtRest
  <1>5. /\ deleter[d] = "idle" /\ deleter'[d] = "waiting" /\ removal'[d].at = "asked"
        /\ \A e \in Delete \ {d} : deleter'[e] = deleter[e] /\ removal'[e] = removal[e]
    BY <1>1 DEF StartDelete, Removal
  <1>6. /\ \A e \in Delete \ {d} : DeleteAtRest(e)'
        /\ ~DeleteAtRest(d)'
    BY <1>4, <1>5 DEF DeleteAtRest
  <1>7. StoredInv' /\ UNCHANGED stored
    BY <1>1, <1>3, NothingStored
  <1>8. TurnInv' /\ OwnInv'
    BY <1>3, <1>6 DEF TurnInv, OwnInv
  <1>9. DeletedInv'
    BY <1>1, <1>2, <1>5 DEF DeletedInv
  <1>10. Register!Begin(d)
    <2>1. Deleting = {} /\ Deleting' = {d} /\ Confirmed' = Confirmed /\ d \notin Confirmed
      BY <1>4, <1>5, <1>6 DEF Deleting, Confirmed
    <2> QED
      BY <1>3, <1>7, <2>1 DEF Register!Begin, Deleting, Confirmed
  <1> QED
    BY <1>7, <1>8, <1>9, <1>10 DEF RegisterStep, RInv, Register!Next

\* The steps of a delete that has started.
DeleteOn(d) ==
  \/ HandleDeleteManifestCommand(d)
  \/ HandleDeleteDataCommand(d)
  \/ OnDeleteDataCommandResponse(d)
  \/ OnDeleteCommandResponse(d)
  \/ OnDeleteCommandTimeout(d)
  \/ OnDeleteDataTimeout(d)

\* What a delete does: it reads, erases segments, erases the manifest, is confirmed or
\* comes to nothing.
LEMMA DeleteDoes ==
  ASSUME TypeOK, DeletedInv, NEW d \in Delete, DeleteOn(d)
  PROVE  /\ ~DeleteAtRest(d)
         /\ \A e \in Delete \ {d} : deleter'[e] = deleter[e] /\ removal'[e] = removal[e]
         /\ manifest' \in {NoPut, manifest}
         /\ segs' # segs => \E n, last : DeleteData(n, last)
         /\ deleter[d] # "done"
         /\ deleter'[d] \in {"idle", "done", "notfound"} => removal'[d].at = "none"
         /\ removal'[d].at = "deleted" => manifest' = NoPut
         /\ deleter'[d] = "done" => /\ manifest = NoPut /\ UNCHANGED <<manifest, segs>>
                                    /\ DeleteAtRest(d)'
  <1>1. /\ deleter \in [Delete -> Deleter] /\ removal \in [Delete -> Removal]
        /\ deleter[d] \in Deleter /\ removal[d] \in Removal
    BY DEF TypeOK, DeleteTypeOK
  <1>2. /\ deleter[d] \in {"idle", "done", "notfound"} => removal[d].at = "none"
        /\ removal[d].at = "deleted" => manifest = NoPut
    BY DEF DeletedInv
  <1>3. CASE HandleDeleteManifestCommand(d)
    <2>1. Reported(d, "missing") \in {"missing", "none"}
      BY DEF Reported
    <2>2. /\ UNCHANGED <<deleter, manifest, segs>> /\ removal[d].at = "asked"
          /\ \A e \in Delete \ {d} : removal'[e] = removal[e]
      BY <1>1, <1>3 DEF HandleDeleteManifestCommand, storageVars
    <2>3. removal'[d].at \in {"data", "missing", "none"}
      BY <1>1, <1>3, <2>1 DEF HandleDeleteManifestCommand
    <2> QED
      BY <1>2, <2>2, <2>3 DEF DeleteAtRest
  <1>4. CASE HandleDeleteDataCommand(d)
    <2>1. /\ UNCHANGED <<deleter, manifest>> /\ removal[d].at \in {"data", "late"}
          /\ \A e \in Delete \ {d} : removal'[e] = removal[e]
          /\ \E n, last : DeleteData(n, last)
      BY <1>1, <1>4 DEF HandleDeleteDataCommand
    <2>2. removal'[d].at \in {"erased", "none"}
      BY <1>1, <1>4 DEF HandleDeleteDataCommand
    <2> QED
      BY <1>2, <2>1, <2>2 DEF DeleteAtRest
  <1>5. CASE OnDeleteDataCommandResponse(d)
    <2>1. /\ UNCHANGED <<deleter, segs>> /\ removal[d].at = "erased" /\ manifest' = NoPut
          /\ \A e \in Delete \ {d} : removal'[e] = removal[e]
      BY <1>1, <1>5 DEF OnDeleteDataCommandResponse
    <2> QED
      BY <1>2, <2>1 DEF DeleteAtRest
  <1>6. CASE OnDeleteCommandResponse(d)
    <2>1. /\ UNCHANGED <<manifest, segs>> /\ removal[d].at \in {"deleted", "missing"}
          /\ \A e \in Delete \ {d} : deleter'[e] = deleter[e] /\ removal'[e] = removal[e]
          /\ deleter'[d] = IF removal[d].at = "deleted" THEN "done" ELSE "notfound"
      BY <1>1, <1>6 DEF OnDeleteCommandResponse, storageVars
    <2>2. removal'[d].at = "none"
      BY <1>1, <1>6 DEF OnDeleteCommandResponse, Removal
    <2> QED
      BY <1>2, <2>1, <2>2 DEF DeleteAtRest
  <1>7. CASE OnDeleteCommandTimeout(d)
    <2>1. /\ UNCHANGED <<manifest, segs>> /\ deleter[d] = "waiting" /\ deleter'[d] = "unknown"
          /\ \A e \in Delete \ {d} : deleter'[e] = deleter[e] /\ removal'[e] = removal[e]
      BY <1>1, <1>7 DEF OnDeleteCommandTimeout, storageVars
    <2>2. removal'[d].at # "deleted"
      BY <1>1, <1>7 DEF OnDeleteCommandTimeout, Removal
    <2> QED
      BY <1>2, <2>1, <2>2 DEF DeleteAtRest
  <1>8. CASE OnDeleteDataTimeout(d)
    <2>1. /\ UNCHANGED <<manifest, segs>> /\ removal[d].at \in {"data", "erased"}
          /\ \A e \in Delete \ {d} : deleter'[e] = deleter[e] /\ removal'[e] = removal[e]
          /\ deleter'[d] = IF deleter[d] = "waiting" THEN "unknown" ELSE deleter[d]
      BY <1>1, <1>8 DEF OnDeleteDataTimeout, storageVars
    <2>2. removal'[d].at \in {"none", "late"}
      BY <1>1, <1>8 DEF OnDeleteDataTimeout, Removal
    <2> QED
      BY <1>2, <2>1, <2>2 DEF DeleteAtRest
  <1> QED
    BY <1>3, <1>4, <1>5, <1>6, <1>7, <1>8 DEF DeleteOn

\* The steps of a delete: what it erases goes away at once, and is gone when it is
\* confirmed.
LEMMA DeleteTurn ==
  ASSUME Exclusive, IInv, RInv, Tidy, Tidy', NEW d \in Delete, DeleteOn(d), OfDelete, AllGo
  PROVE  RegisterStep
  <1>1. TypeOK /\ TurnInv /\ OwnInv /\ StoredInv /\ DeletedInv /\ History
    BY DEF IInv, RInv, OfDelete
  <1>2. /\ ~DeleteAtRest(d)
        /\ \A e \in Delete \ {d} : deleter'[e] = deleter[e] /\ removal'[e] = removal[e]
        /\ manifest' \in {NoPut, manifest}
        /\ segs' # segs => \E n, last : DeleteData(n, last)
        /\ deleter[d] # "done"
        /\ deleter'[d] \in {"idle", "done", "notfound"} => removal'[d].at = "none"
        /\ removal'[d].at = "deleted" => manifest' = NoPut
        /\ deleter'[d] = "done" => /\ manifest = NoPut /\ UNCHANGED <<manifest, segs>>
                                   /\ DeleteAtRest(d)'
    BY <1>1, DeleteDoes
  <1>3. UNCHANGED <<putter, job>>
    BY DEF OfDelete, putVars
  <1>4. \A p \in Put : PutAtRest(p) /\ PutAtRest(p)'
    BY <1>1, <1>2, <1>3 DEF TurnInv, PutAtRest
  <1>5. \A e \in Delete \ {d} : DeleteAtRest(e) /\ DeleteAtRest(e)'
    BY <1>1, <1>2 DEF TurnInv, DeleteAtRest
  <1>6. Readable' \in {NoPut, Readable}
    BY <1>1, <1>2, DeleteReads
  <1>7. StoredInv' /\ UNCHANGED stored
    BY <1>1, <1>4, <1>6, NothingStored
  <1>8. TurnInv' /\ OwnInv'
    BY <1>4, <1>5 DEF TurnInv, OwnInv
  <1>9. DeletedInv'
    BY <1>1, <1>2 DEF DeletedInv
  <1>10. RInv' /\ d \in Deleting /\ Deleting = {d}
    BY <1>2, <1>5, <1>7, <1>8, <1>9 DEF RInv, Deleting
  <1>11. Confirmed' \in {Confirmed, Confirmed \cup {d}}
    BY <1>2 DEF Confirmed
  <1>12. CASE DeleteAtRest(d)'
    <2>1. Deleting' = {}
      BY <1>5, <1>12 DEF Deleting
    <2>2. CASE deleter'[d] = "done"
      <3>1. Readable = NoPut /\ UNCHANGED Readable
        BY <1>2, <2>2 DEF Readable
      <3>2. Confirmed' = Confirmed \cup {d}
        BY <1>2, <2>2 DEF Confirmed
      <3>3. Register!End(d)
        BY <1>7, <1>10, <2>1, <3>1, <3>2 DEF Register!End, Deleting, Confirmed
      <3> QED
        BY <1>10, <3>3 DEF RegisterStep, Register!Next
    <2>3. CASE deleter'[d] # "done"
      <3>1. Confirmed' = Confirmed
        BY <1>2, <2>3 DEF Confirmed
      <3>2. Register!End(d)
        BY <1>6, <1>7, <1>10, <2>1, <3>1 DEF Register!End, Deleting, Confirmed
      <3> QED
        BY <1>10, <3>2 DEF RegisterStep, Register!Next
    <2> QED
      BY <2>2, <2>3
  <1>13. CASE ~DeleteAtRest(d)'
    <2>1. Deleting' = Deleting
      BY <1>5, <1>10, <1>13 DEF Deleting
    <2>2. Confirmed' = Confirmed
      BY <1>2, <1>13 DEF Confirmed
    <2>3. CASE Readable' = NoPut
      <3>1. Register!Erase
        BY <1>7, <1>10, <2>1, <2>2, <2>3 DEF Register!Erase, Deleting, Confirmed
      <3> QED
        BY <1>10, <3>1 DEF RegisterStep, Register!Next
    <2>4. CASE Readable' = Readable
      BY <1>7, <1>10, <2>1, <2>2, <2>4 DEF RegisterStep, RegisterRests
    <2> QED
      BY <1>6, <2>3, <2>4
  <1> QED
    BY <1>12, <1>13

\* A reader changes nothing.
LEMMA GetTurn ==
  ASSUME Exclusive, IInv, RInv, NEW g \in Get, GetDo(g), OfGet, AllGo
  PROVE  RegisterStep
  <1>1. TypeOK /\ TurnInv /\ OwnInv /\ StoredInv /\ DeletedInv /\ History
    BY DEF IInv, RInv, OfGet
  <1>2. UNCHANGED <<manifest, segs, putter, job, deleter, removal>>
    BY DEF OfGet, GetDo, OnGetInterest, OnDataCommandResponse, OnDataError, storageVars,
           putVars, deleteVars
  <1>3. /\ UNCHANGED <<Readable, Deleting, Confirmed>>
        /\ \A p \in Put : /\ PutAtRest(p)' <=> PutAtRest(p)
                          /\ Own(p)' <=> Own(p)
        /\ \A d \in Delete : DeleteAtRest(d)' <=> DeleteAtRest(d)
    BY <1>2 DEF Readable, Deleting, Confirmed, PutAtRest, DeleteAtRest, Own, Begun
  <1>4. StoredInv' /\ UNCHANGED stored
    BY <1>1, <1>3, NothingStored
  <1>5. TurnInv' /\ OwnInv' /\ DeletedInv'
    BY <1>1, <1>2, <1>3 DEF TurnInv, OwnInv, DeletedInv
  <1> QED
    BY <1>3, <1>4, <1>5 DEF RegisterStep, RInv, RegisterRests

\* The restart of a node may end a delete, and leaves the disks as they are.
LEMMA RestartTurn ==
  ASSUME Exclusive, IInv, RInv, NEW n \in Node, Restart(n), History, AllGo
  PROVE  RegisterStep
  <1>1. /\ TypeOK /\ TurnInv /\ OwnInv /\ StoredInv /\ DeletedInv
        /\ deleter \in [Delete -> Deleter] /\ removal \in [Delete -> Removal]
        /\ job \in [Pid -> Job]
    BY DEF IInv, RInv, TypeOK, DeleteTypeOK, PutTypeOK
  <1>2. UNCHANGED <<manifest, segs, putter>> /\ Readable' = Readable
    BY DEF Restart, storageVars, Readable
  <1>3. ASSUME NEW pid \in Pid
        PROVE  /\ job'[pid].insert \in {"over", job[pid].insert}
               /\ job'[pid].info \in {"over", job[pid].info}
               /\ job'[pid].info # "unsent" => job[pid].info # "unsent"
               /\ job'[pid].fetch \in {{}, job[pid].fetch}
               /\ job'[pid].save \in {"over", job[pid].save}
    BY <1>1 DEF Restart, Job
  <1>4. ASSUME NEW p \in Put
        PROVE  (PutAtRest(p) => PutAtRest(p)') /\ (Own(p)' => Own(p))
    <2>1. \A t \in 1 .. MaxRetry + 1 : <<p, t>> \in Pid
      BY DEF Pid
    <2> QED
      BY <1>2, <1>3, <2>1 DEF PutAtRest, Own, Begun
  <1>5. ASSUME NEW d \in Delete
        PROVE  /\ deleter'[d] = deleter[d] \/ (deleter[d] = "waiting" /\ deleter'[d] = "unknown")
               /\ removal'[d].at = "deleted" => removal[d].at = "deleted"
               /\ removal[d].at = "none" => removal'[d].at = "none"
               /\ DeleteAtRest(d) => DeleteAtRest(d)'
    BY <1>1 DEF Restart, DeleteAtRest, Removal
  <1>6. StoredInv' /\ UNCHANGED stored
    BY <1>1, <1>2, <1>4, NothingStored
  <1>7. TurnInv' /\ OwnInv' /\ DeletedInv'
    BY <1>1, <1>2, <1>4, <1>5 DEF TurnInv, OwnInv, DeletedInv
  <1>8. Confirmed' = Confirmed /\ Deleting' \subseteq Deleting
    BY <1>5 DEF Confirmed, Deleting
  <1>9. CASE Deleting' = Deleting
    BY <1>2, <1>6, <1>7, <1>8, <1>9 DEF RegisterStep, RInv, RegisterRests
  <1>10. CASE Deleting' # Deleting
    <2>1. PICK d \in Delete : d \in Deleting /\ d \notin Deleting'
      BY <1>8, <1>10 DEF Deleting
    <2>2. Deleting' = Deleting \ {d}
      BY <1>1, <1>8, <2>1 DEF Deleting, TurnInv
    <2>3. Register!End(d)
      BY <1>2, <1>6, <1>8, <2>1, <2>2 DEF Register!End, Deleting, Confirmed
    <2> QED
      BY <1>6, <1>7, <2>3 DEF RegisterStep, RInv, Register!Next
  <1> QED
    BY <1>9, <1>10

\* With clients that take turns, every step is one of the register.
LEMMA NextTurn ==
  ASSUME Exclusive, IInv, RInv, Tidy, Tidy', Next
  PROVE  RegisterStep
  <1>1. AllGo
    BY NextMoves
  <1>2. CASE PutStep
    <2>1. \/ \E p \in Put : AtRest /\ StartPut(p) /\ OfPut
          \/ PutOn /\ OfPut
      BY <1>2 DEF PutStep, CheckStep, InsertStep, FetchStep, SaveStep, PutOn
    <2> QED
      BY <1>1, <2>1, StartPutTurn, PutTurn
  <1>3. CASE DeleteStep
    <2>1. \E d \in Delete : \/ AtRest /\ StartDelete(d) /\ OfDelete
                            \/ DeleteOn(d) /\ OfDelete
      BY <1>3 DEF DeleteStep, DeleteDeliver, DeleteOn
    <2> QED
      BY <1>1, <2>1, StartDeleteTurn, DeleteTurn
  <1>4. CASE GetStep
    <2>1. \E g \in Get : GetDo(g) /\ OfGet
      BY <1>4 DEF GetStep, GetDo
    <2> QED
      BY <1>1, <2>1, GetTurn
  <1>5. CASE \E n \in Node : Restart(n) /\ History
    BY <1>1, <1>5, RestartTurn
  <1> QED
    BY <1>2, <1>3, <1>4, <1>5 DEF Next

LEMMA StutterTurn ==
  ASSUME RInv, UNCHANGED vars
  PROVE  RegisterStep
  <1>1. UNCHANGED <<manifest, segs, putter, job, deleter, removal, stored>>
    BY DEF vars, putVars, deleteVars, storageVars, historyVars
  <1>2. /\ UNCHANGED <<Readable, Deleting, Confirmed>>
        /\ \A p \in Put : /\ PutAtRest(p)' <=> PutAtRest(p)
                          /\ Own(p)' <=> Own(p)
                          /\ Begun(p)' <=> Begun(p)
        /\ \A d \in Delete : DeleteAtRest(d)' <=> DeleteAtRest(d)
    BY <1>1 DEF Readable, Deleting, Confirmed, PutAtRest, DeleteAtRest, Own, Begun
  <1>3. TurnInv' /\ OwnInv' /\ DeletedInv'
    BY <1>1, <1>2 DEF RInv, TurnInv, OwnInv, DeletedInv
  <1>4. StoredInv'
    BY <1>1, <1>2 DEF RInv, StoredInv, Begun, PutAtRest
  <1> QED
    BY <1>1, <1>2, <1>3, <1>4 DEF RegisterStep, RegisterRests, RInv

LEMMA RegisterStarts ==
  ASSUME Init
  PROVE  RInv /\ Register!Init
  <1>1. /\ manifest = NoPut /\ stored = {}
        /\ job = [pid \in Pid |-> [insert |-> "unsent", info |-> "unsent",
                                   fetch |-> {}, save |-> "unsent"]]
        /\ deleter = [d \in Delete |-> "idle"]
        /\ removal = [d \in Delete |-> [at |-> "none", read |-> NoPut]]
        /\ \A p \in Put : putter[p].state = "idle"
    BY DEF Init, StorageInit, PutInit, DeleteInit
  <1>2. \A p \in Put, t \in 1 .. MaxRetry + 1 : <<p, t>> \in Pid
    BY DEF Pid
  <1>3. (\A p \in Put : PutAtRest(p)) /\ (\A d \in Delete : DeleteAtRest(d))
    BY <1>1, <1>2 DEF PutAtRest, DeleteAtRest
  <1>4. Readable = NoPut
    BY <1>1 DEF Readable
  <1>5. RInv
    BY <1>1, <1>3, <1>4 DEF RInv, TurnInv, OwnInv, StoredInv, DeletedInv
  <1>6. Deleting = {} /\ Confirmed = {}
    BY <1>1, <1>3 DEF Deleting, Confirmed
  <1> QED
    BY <1>1, <1>4, <1>5, <1>6 DEF Register!Init, Deleting, Confirmed

\* When clients take turns, and no two puts are sent to the same node, the name behaves
\* as a register, whatever is lost, late, retried or restarted: a content appears at once,
\* though its put stores a manifest and many segments (WriteHandle), it stays until a
\* delete erases it, and is gone when that is confirmed (DeleteHandle).
THEOREM BehavesAsRegisterAlways ==
  ASSUME Exclusive, \A p, q \in Put : At[p] = At[q] => p = q
  PROVE  Spec => BehavesAsRegister
  <1>1. IInv => Tidy
    BY ApartTidy DEF Apart
  <1>2. Init => RInv /\ Register!Init
    BY RegisterStarts
  <1>3. IInv /\ Tidy /\ Tidy' /\ RInv /\ [Next]_vars => RInv' /\ [Register!Next]_(Register!vars)
    <2>1. RegisterStep => RInv' /\ [Register!Next]_(Register!vars)
      BY DEF RegisterStep, RegisterRests, Register!vars, Deleting, Confirmed
    <2> QED
      BY <2>1, NextTurn, StutterTurn
  <1> QED
    BY <1>1, <1>2, <1>3, Invariant, PTL DEF Spec, BehavesAsRegister, Register!Spec

=============================================================================
