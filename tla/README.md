# DIFS in TLA+

DIFS is a distributed file store over Named Data Networking.  A *cluster* is a
set of nodes (`repo-ng` processes, `src/src`), one of which is the *manager*.  A
file is cut into segments, which one node fetches from the client and stores; a
*manifest* that names this node is stored at the node whose *key range* the hash
of the file's name falls into.  The ranges form a ring that the manager edits when
nodes join and leave, and that the other nodes fetch.  Clients (`src/lib`,
`src/tools`) put, get and delete files.

This directory holds TLA+ modules that model the control of that system, the
configurations under which TLC checks them, and proofs of the main theorems that
TLAPS checks.  `PROJECT.json` maps every definition to the lines it stands for.

## 1. Inventory

| component | code | state | operations |
|---|---|---|---|
| key space ring | `keyspace-handle.cpp:249-371, 641-670` | `m_keySpaceFile`, `m_version` of the manager | add-node, del-node, lookup |
| key space protocol | `keyspace-handle.cpp`, `repo.cpp`, `main.cpp` | per node: `m_version`, `m_keySpaceFile`, `m_start`/`m_end`, `m_from`, `m_to`, `m_manifestList`, manifests on disk | ver, fetch, coordination, manifestlist, find, complete, only-delete-manifest |
| putting a file | `write-handle.cpp`, `difs.cpp:521-860` | client: segments, retries; node: `m_processes` (count, code, `noEndTime`, cached encoding) | insert, find, info, segments, insert check, process expiry |
| manifests | `manifest-handle.cpp` | manifest files, `m_processes` | create, write-info, find |
| deleting a file | `delete-handle.cpp`, `difs.cpp:223-287` | `m_processes` | delete, delete-manifest, delete-data, only-delete-manifest |
| storage | `repo-storage.cpp`, `fs-storage.cpp`, `mongodb-storage.cpp` | segment and manifest files or documents | insert, erase, read |
| reading a file | `read-handle.cpp`, `difs.cpp:402-517` | requests under way, registered prefixes (`m_insertedDataPrefixes`) | get, segment Interests, registration of a prefix per insert |
| segmentation | `difs.cpp:750-794, 832-853` | segments of the file | prepare, send info |
| command parameters and responses | `repo-command*.cpp` | presence flags, cached encoding | encode, decode, check fields |
| TCP bulk insert | `tcp-bulk-insert-handle.cpp` | receive buffer per connection (`m_inputBuffer`, `m_inputBufferSize`), the accept under way | accept, receive, close |
| one node's packets and manifests | `repo-storage.cpp`, `fs-storage.cpp`, `mongodb-storage.cpp`, `info-handle.cpp` | data and manifest directories, prefix counts | inserts by TCP and fetcher, delete-data, reads, info, manifests stored, found and deleted |
| tools | | none of their own | forward only |

**Interaction.**  Everything is an Interest that is answered by one Data packet or
times out.  Each process is one event loop, so that a handler runs to its end
undisturbed; what interleaves is handlers of different processes, and the callbacks
of several requests of one process.  There is no shared memory.  Disks survive a
restart, everything else is lost.

**What is hard.**  A handler often sends a request and continues in a callback with
the member variables of *that* moment (`m_from`, `m_to`, `m_start`, `m_manifestList`,
`process.hash`), not with those of the request.  `find` followed by `create` is a
check and an act with the network in between.  No handler of a put or a delete looks whether a
migration is under way.  Timeouts are sometimes retried with
the same, sometimes with new data, and sometimes just logged.  Nodes restart and
add themselves again.  A receive brings any piece of a stream, a process may be killed
while it writes, and `ofstream` errors go unseen.  `PROJECT.json` lists these hazards at their lines.

**What correctness means.**  Each key has one owner at all times and an edit moves
keys from one node to one other (ring).  A node's version names its ring, an orderly
cluster comes to rest with each manifest at its owner, and a manifest is lost only
when something visibly went wrong (protocol).  A name has the whole content of one
put or nothing (files, when clients take turns); a put that reports success can be
read; a put ends.  While the ring changes, a manifest that was put is found where the ring
says and one that was deleted is not, but for a few orders of events (traffic).  What is sent over TCP is taken once and in order, whatever the
division into receives; no connection stalls; what was inserted can be asked for.

## 2. Modules

| module | models | checked by | proofs |
|---|---|---|---|
| `KeySpaceFile` | the key space file, the edits of its entries, the lookup, the prefix test | with the next two | `KeySpaceFile_proofs` (lemmas) |
| `KeySpaceRing` | the manager's two handlers as a state machine, with rule-abiding (`Spec`) and arbitrary (`AnySpec`) commands | `ring`, `ring_any` | `KeySpaceRing_proofs` |
| `KeyOwnership` | abstract: who owns which key | refined by `KeySpaceRing` | |
| `KeySpaceHandle` | the protocol of all nodes | `handle_*` | `KeySpaceHandle_proofs`, `KeySpaceMigration_proofs` |
| `ManifestTraffic` | puts and deletes of manifests while the ring changes: `KeySpaceHandle` composed with the clients' requests | `traffic` | `ManifestTraffic_proofs` |
| `FilePut` | how a client cuts a file, for every size and block size | with `FileStore` | `FileStore_proofs` |
| `FileStorage` | what the disks hold of one name | with `FileStore` | |
| `WriteHandle` | putting: client, node, manifest node | with `FileStore` | with `FileStore` |
| `DeleteHandle` | deleting: client, node, manifest node | with `FileStore` | with `FileStore` |
| `ReadHandle` | getting: client and node, step by step | with `FileStore` | with `FileStore` |
| `FileStore` | puts, deletes and gets of one name, interleaved, with restarts | `file_*` | `FileStore_proofs` |
| `FileRegister` | abstract: what a name has | refined by `FileStore` | `FileStore_proofs` |
| `RepoCommand` | the fields of commands and responses, their encoding, the validators | with `CommandFlow` | with `CommandFlow` |
| `Manifest` | manifests, their hash and their two texts | with `CommandFlow` | with `CommandFlow` |
| `CommandFlow` | puts, gets and deletes of many names, by the commands they send | `commands` | `CommandFlow_proofs` |
| `RepoStorage` | the packets and manifests of one node on a file system or a data base, torn files, the prefix counts | with `RepoNode` | with `RepoNode` |
| `TcpStream` | what peers send | with `RepoNode` | |
| `TcpBulkInsert` | connections, buffers, accept and receive | with `RepoNode` | with `RepoNode` |
| `RepoNode` | one node: TCP, fetcher, manifests, deletes, reads, info, kills, restarts | `node` | `RepoNode_proofs` |
| `BulkInsert` | abstract: which elements have been taken | refined by `RepoNode` | |

`MCKeySpaceRing`, `MCKeySpaceHandle`, `MCManifestTraffic`, `MCFileStore`, `MCCommandFlow` and
`MCRepoNode` give the instances.

```
KeyOwnership <=refines= KeySpaceRing <=refines= KeySpaceHandle <--- ManifestTraffic
                             \                     /
                              ---- KeySpaceFile ---

FileRegister <=refines= FileStore --- WriteHandle, DeleteHandle, ReadHandle --- FileStorage
                                           |
                                        FilePut

CommandFlow --- RepoCommand, Manifest

BulkInsert <=refines= RepoNode --- TcpBulkInsert --- TcpStream --- RepoStorage
```

### 2.1 The ring

`file` is `m_keySpaceFile`, a sequence of entries.  A hash matters by its first two
hexadecimal digits only, so it is its *key*, a number below `Base * Base`.
`AddNode` halves the range of the first entry of `from` with the integer division of
the code; `DelNode` erases the first entry of `from` and widens every entry of `to`.
The handlers do not check their arguments.  Two things of the arithmetic are kept as
they are: a delete of a node that is not a member reads two uninitialised integers
(`garbage`), and a negative bound is written in eight hexadecimal digits, which
`stoi` refuses when they are read back (`Readable`; `alive` is FALSE then).

`SafeAdd` and `SafeDelete` are the operator's rules that the arithmetic relies on:
split a member that has two keys or more for a node that is no member; merge
neighbours.  `AnySpec` is without them.

### 2.2 The protocol

An Interest and what becomes of it is one *exchange* in `exch`, by command, in the
stage `"interest"`, `"data"`, or `"late"` (the requester has given up, the Interest
still arrives).  Exchanges make progress in any order; a loss is a timeout.  One
action stands for one handler; the calls it makes (publishing a version, announcing
it, sending the next request) are part of it.  `sent` in an add-node tells the
commands of one node apart, which are signed afresh and hence not the same Interest.

What the code reads uninitialised is a choice: `range` before the first fetch is any
element of `Garbage`.  `OnCompleteCommandResponse` uses the range, `from` and list of
that moment, as the code does.  A find that is answered with an empty manifest ends
the process (the JSON parser throws), and systemd starts it again, which sends
add-node again.  So does a fetched file in which the node's own entry has a negative
bound (`stoi`).

Switches: `Orderly` is a cluster whose operator acts when nothing is under way, whose
nodes are not restarted, whose finds are answered before they time out, and
whose network does not reorder three particular pairs of messages (a coordination and
the ring it is about, a delete and the find before it, two migrations of one node);
`Departures` says whether nodes leave.  The runs without `Orderly` have joins only:
with overlapping departures manifests are lost in ways that nothing visible in a node
accounts for (crossing migrations), so `LossHasCause` is not claimed there.

History variables: `published` (the files the manager has had), `asked` (the finds
each node sent for its last list), `excused` (the manifests whose migration visibly
went wrong).

*With the clients' requests.*  `ManifestTraffic` composes the protocol with what
`WriteHandle`, `ManifestHandle` and `DeleteHandle` do to manifests.  A put finds, asks the
client for its info, and creates; a delete waits for the data to be deleted and then
erases.  Each looks the owner up in the ring that its node has, a put twice
(`HandleInsertCommand`, `WriteManifest`).  `latest` (history) is what the name's last
completed request did, `spoiled` (history) is what came between that request and a
migration:

* `late`: the manifest was created at an owner that had been listed before (or will
  never be: a node that has left the ring is told of no edit and goes on looking owners
  up in its last file);
* `listed`: it was stored where a copy has been listed and is going to be erased by
  only-delete-manifest, which does not look at what it erases;
* `overlap`: a delete was under way while the ring or a migration moved;
* `leftover`: a lost complete or only-delete-manifest, which is only logged, left a copy
  behind;
* `crash`: a find of a migration was answered with nothing;
* `stranded`: the process that was moving the manifest ended, over such an answer for
  another manifest of the same migration.  `HalfMoved` are the manifests it had asked for
  and not stored, and the ones it had stored and not yet had deleted: the former are
  erased at the old owner as soon as the only-delete-manifest of an earlier migration
  comes, the latter stay there as second copies.  (A run of one manifest cannot show
  this; the properties name it since they are checked with two.)

The four properties say which of these can do what.  None of them is a loss that an
unlucky delay alone could cause: the second lookup of `writeManifest`, and the order in
which a migration copies before it erases, are what the mutants break.  Not among the
claims, because the code does not promise it: a get or a put may miss a manifest *while* it
migrates (it is then at the old owner, and the new one is asked), so that a put of an
existing name can be accepted.

### 2.3 Files

`FileStore` is about one file name while the ring is at rest.  A content is the put
that wrote it.  `segs[n][s]` is the file of segment `s` at node `n`: its name does not
depend on the content, so that a put overwrites what another one left.

`WriteHandle` has one client per put, and one process per insert command (`Pid`; ids
are random in the code, so that retries make processes of their own).  `job` holds
what is under way for a process: the command, the Interest for the client's info,
the segments the fetcher still wants, and create with the write-info it calls for.
The response of a process is encoded once, and `setCode` does not reset the encoding
(`wire`, `Encoded`).  `noEndTime` is unset, ahead or past.  The client's retry count
is not initialised in the code, hence any number in `PutInit`.

`DeleteHandle` follows a delete from the client to the manifest node, to the segments'
node and back.  A timeout of the manifest node answers a wrong Interest, which is to
the client as no answer.

`ReadHandle` follows a get: the node finds the manifest and passes it on, the client
fetches one segment after the other and prints.  Each segment that is fetched must
continue those before it, because the packets of a put are signed as a hash chain;
one that belongs to another put ends the get.  The history `steady` is the content
that the name has had all the time since the get began.

`FilePut` has the arithmetic of `putFilePrepareNextData`: which bytes become which
packet, what the info announces, and under which number a packet is looked up.

Assumptions, all of them visible in the code:

* the name has one component (`CommandFlow` is without this);
* a file is not empty (`CommandFlow` has empty files);
* clients retry get and delete under a name made of the Interest, so that a retry
  does not concern this file: a get whose command is lost does not go on;
* packets are not answered from caches (`FreshnessPeriod`), and the validation of
  the client's info succeeds;
* a check that has timed out is not handled later;
* the segment fetcher (a library outside the repository) delivers each segment at
  most once per process, in any order, or stops with an error.

### 2.4 One node

`RepoNode` is one process as a keeper of packets.  A byte of a TCP stream is its
*position*: an element of `Stream[c]` has the position `end` at which it ends, a
buffer is the `size` bytes after the position `from`.  This keeps all that
`handleReceive` does with bytes (append, find the next complete element, move the rest
to the front) without their values.  `HandleReceive(c, n)` is a receive of `n` bytes,
any number that the peer has sent and the buffer has room for; `Taken` is how many
elements end where the buffer begins.  Once bytes have been moved wrongly no element
ends there any more, which is what the mutant `RestUnmoved` shows.

`InsertData(batch, wrong)` inserts the packets that one loop takes; `wrong` says which
of the inserts go wrong, and how (`Fault`): `create_directories` throws, which the TCP
loop catches and the fetcher does not; the file cannot be opened, or not be filled,
which nobody looks at.  `has` is asked with the full name, digest included, while files
are named by the name without it, so that it finds nothing and every insert writes and
signals again.  A torn file throws when it is decoded: `OnInterest` and
`HandleInfoCommand` end the process, `Restart` starts it again with the disk as it is and
without prefixes.  `KilledReceiving` ends the process in the loop, between any two
writes and in the middle of one.

The storage is one of two (`method`, chosen at the start as by the configuration).
`FsStorage` truncates a file and fills it, `MongoDBStorage` replaces a document or throws:
`Fault` is what can go wrong with each.  A manifest is stored, found and deleted beside the
packets.  Its directory exists since the start, so that writing it is never refused on a
file system, only torn or not begun; a torn one throws in `readManifest`, at every find
and at every delete, which reads it before it erases it: nothing but a new put of the
hash, or the operator, gets rid of it.  `ExitHasCause` is the other side: nothing else ends a
process, whatever is read, found or deleted while it is there or not.

`fresh` (history) is what the running process has inserted.  Prefixes are all
registered with the filter "/", so that one of them lets every Interest through
(`Listening`), and they are never unregistered: `RepoStorage` does not emit
`afterDataDeletion`.

Assumptions: registration-subset is enabled (as in `node.conf`); the peer's bytes come
unaltered and in order (TCP); an element that is a TLV and fits can be decoded or
throws `runtime_error`; one listening endpoint; reads and erasures of the storage do not
fail; each node has a storage of its own (the `node02.conf` and `node03.conf` of the
repository name the same data base and directory, which works only on different hosts).
A TLV that is no Data packet is skipped like one that does not decode.  A kill between two
inserts into a data base is a smaller receive followed by a kill.

### 2.5 Commands

`CommandFlow` asks by what an answer, a manifest or a segment is found again when there
are many names.  `mail` is what is under way: a command is the encoding of its
parameters (`RepoCommand`), a response likewise, a manifest one of its two texts
(`Manifest`, in which what is not written is lost), and an answer carries what the
callback that handles it was bound to.  Three things make this less than obvious:

* an insert hashes the last component of a name, a get and a delete hash the whole
  (`write-handle.cpp:86`, `read-handle.cpp`, `delete-handle.cpp`): a file that is put as
  /a/x has its manifest under /x, is found neither as /a/x nor as /x, and stands in the
  way of a later put of /x.  `KeptWhenAlone` says both: the file is stored, and no reader
  gets it;
* every client sends the process id 0 with a delete.  The node that is asked keeps the
  client's Interest under that 0, over the Interest of another client that has asked the
  same node, and forgets the entry at the first answer (`delete-handle.cpp:94-96`, `:129`;
  `deletes[n][Zero]`).  The answer itself goes by what the callback is bound to, not by
  this entry, which only a timeout reads.  The manifest's node draws an id of its own and
  keeps the process under it, also when it has found no manifest (405): then for good
  (`delete-handle.cpp:170-180`);
* the handler of insert reads a `ProcessId` (`write-handle.cpp:92`) that its validator
  forbids and no client sends.  The getter asserts that the field is there
  (`repo-command-parameter.hpp:191`): in a build with assertions the node ends at the first
  put.  `CommandsFit` says that this is the one field of the one command that is ever missing,
  and that it is missing from every insert.  The model goes on as a build without
  assertions does: an uninitialised number travels with the find, whose handler does not
  look at it (`Uninitialised`).

An empty file has no segments (`segments`), and `end` is -1 in its info and manifest.  Its
client is asked for segment 0, and reads the first element of an empty vector
(`OnPutFileInterest`), unless it has ended before, with a count of 0 that it takes for
success.  A delete of the name sends the -1 as a `SegmentNo`, which is the largest one
(`SegmentNo`, with `Word` values instead of 2^64): the loop of delete-data does not end, and
its node handles nothing any more (`stuck`, `Unheard`).  `StuckHasCause` says that no other
file does this; the mutant takes `end` for a number of blocks, which is a plausible
"repair" of the empty file and hangs on the file of one segment.

Assumptions: nothing is lost or late and no node restarts (`FileStore` has that); ids
drawn at random differ, and hashes of different names differ; a reader fetches all
segments in one step (`ReadHandle` has the steps); at most `MaxClients` clients run at
a time; the ring is at rest.

## 3. Runs

All times on two cores.  Bounds are constants and appear in the guards.

| run | instance | states | what it shows |
|---|---|---|---|
| `ring` | 4 nodes, 9 keys, 6 edits | all orders of joins and departures | `Partition`; `MovesAsPromised` (refinement of `KeyOwnership`) |
| `ring_any` | 3 nodes, 4 keys, 4 arbitrary edits | all commands and garbage ranges | `AddLosesNoKey` |
| `handle_orderly` | 3 nodes, 3 manifests, 4 edits, 1 timeout | joins and departures | `NothingLost`, `Settled`, `RingSpread`, `ComesToRest`, `FollowsTheRules` |
| `handle_lossy` | 2 nodes, 1 timeout, 1 restart | a join under failures | `LossHasCause`, `EditsTheRing` |
| `traffic` | 3 nodes, 3 edits, 2 manifests of which clients ask for one, 2 requests, 1 loss | 1.2 M | `MisplacedHasCause`, `KeptSomewhere`, `ZombieHasCause`, `CrashHasCause` |
| `handle_overlap` | 3 nodes, 2 joins that overlap, 1 restart | all interleavings | `VersionNamesRing`, `LossHasCause` |
| `file_serial` | 2 puts, 1 delete in turns; 1 loss, 1 expiry, 1 retry | 0.5 M | `BehavesAsRegister` (refinement of `FileRegister`) |
| `file_lossy` | 1 put; 2 losses, 1 expiry, 1 restart, 1 retry | 0.2 M | `DoneHasCause`, `DoneIsWritten`, `PutEnds` |
| `file_overlap` | 2 puts at two nodes, 1 delete, 1 get, all interleavings; no restart | 0.75 M | `DoneHasCause`, `FindsWhatStays` |
| `file_multiple` | 1 put of two whole blocks | | violates `DoneIsWritten` |
| `commands` | puts of /x and /a/y, gets and deletes of /x and /y, four clients, two at a time; /x may be empty | 0.56 M | `CommandsFit`, `GetsItsName`, `DeletedIsGone`, `StuckHasCause`, `KeptWhenAlone` |
| `node` | 2 connections of 3 elements each, a buffer of 3 bytes, 1 manifest, both storage methods; 1 fault, 1 kill | 0.42 M | `RoomLeft`, `RefusedHasCause`, `NothingWaits`, `ExitHasCause`, `ServedSinceStart`, `TakesInOrder` (refinement of `BulkInsert`) |

*Why the bounds are enough.*  `Base` 3 gives ranges that halve to unequal parts and
down to one key; six edits reach a ring in which every node has left and come back.
`Base` 2 is the least in which a key of one digit, a key of two digits, a split and a
split of the split all exist; manifest `low`, `high` and `top` lie in the three parts.
Two edits overlap in every way that two can.  In the file runs a put of two segments
and one of one segment tell a whole content from a part and from a mixture; one retry
gives two processes of one client, and every kind of failure happens at each place,
two in `file_lossy`.  The buffer of `node` has three bytes; its streams have elements of
one byte, one that fills the buffer, a byte that is no TLV, an element that cannot be
decoded and one larger than the buffer, so that the buffer is full with and without a
complete element in it, and an element comes in one to three receives.  In `commands`
two clients at a time are enough to mix up two ids, two hashes or two manifests; at most
`MaxStarts` = 4 of the six clients act in one behaviour, any four in any order, so that a
file is put, deleted, and asked for, with one client more in between.  All manifests are
at one node and the puts write to two, so that tables and disks are shared and not.
`Word` = 8 stands for 2^64: it is greater than the end of every file, which is all that
matters of it.  In `traffic` both manifests have a key that the first split gives away
and the second may give away again, so that they can migrate twice; clients put and delete
one of them, the other is moved beside it and is there when the answer for the first ends a
process; two requests are a put and the delete of what it put, a delete and a put of what
was stored before, or two of a kind; one complete or only-delete-manifest may be lost.  It is the orderly cluster: the
disorders of the protocol itself are the matter of `handle_overlap`.

*Symmetry* is used in `handle_overlap` and `traffic` (safety only, the two joining nodes
are alike).

*Deadlock* is not checked: a cluster that has nothing to do rests, and the bounds end
every behaviour.

*Fairness.*  `KeySpaceHandle`: weak fairness of `Deliver`, what is under way arrives
in the end or is given up; every request has a lifetime after which its timeout runs.
`FileStore`: weak fairness per process, client and delete, because each is an event
loop of its own that handles what has arrived.  Losses, expiries and restarts are
never fair, only bounded.  No operator is assumed to act.

*What the code does not keep.*  `file_multiple`: the loop over the file reads the
last, short piece first and stops when it reads nothing, so that a file of whole blocks
is not cut at all (`difs.cpp:754`); its client takes the count 0 for the end of the
write, which the comment at `difs.cpp:710-711` says it should not infer, and a client
that is asked for a segment before reads the first element of an empty vector
(`difs.cpp:570`).  Two more are part of the models without a run of their own.
`noEndTime` is the epoch until the client's info has arrived, although the comment at
`write-handle.hpp:92-96` says that it is set when the fetching begins: a check before that
sets code 405 (`write-handle.cpp:449`), and the client is told of a timeout that has not
happened (`unset` in `WriteHandle`).  The delete of an empty file hangs the node that is asked
to delete its data (`delete-handle.cpp:268`; `StuckHasCause` of `commands` says that nothing
else does).

The error handler of the fetcher only logs, so that after a failure the process never
ends, and neither does a client that checks it; this is why `PutEnds` excepts a put
whose fetcher has failed.
`DoneHasCause` is stated at rest and excepts a manifest that was visibly not stored,
because the client ends well by counting segments, while the manifest is still on its
way (`difs.cpp:710-713`).

`BehavesAsRegister` needs clients that take turns.  It holds although the manifest is
stored before the segments and erased after them, because `Readable` is what a reader
assembles: nothing until the last segment is there.  Once something can be lost it needs
puts at different nodes, too, as in `file_serial`.  A put whose manifest was not stored leaves its
segments, and the next put at that node announces them as its own: the manifest names node and file
(`manifest.cpp`), not the put.  With one loss, expiry or restart and two puts at one
node TLC finds the old content, readable again before the new one replaces it segment by
segment; with none of them the property holds there as well.  `DoneHasCause` says what is
left of it when clients overlap.

## 4. Proofs

Every theorem holds for all values of the constants that satisfy the assumptions of
its modules; what a theorem needs beyond them is said with it.  An invariant that a run
checks is seldom inductive, and each item says what had to be added.

**The ring** (`KeySpaceRing_proofs`; `KeySpaceFile_proofs` has the lemmas):

* `PartitionAlways`: `Spec => [](TypeOK /\ Partition)`.  `TypeOK /\ Partition` is
  inductive.  An add replaces one range by its two non-empty halves (`SplitEntries`), so
  that nothing overlaps and nothing is left out (`SplitPartition`); a delete joins
  two adjacent ranges (`MergeEntries`, `MergePartition`).  These lemmas are about any file,
  so that the protocol's proofs use them too.
* `Refinement`: `Spec => MovesAsPromised`.  With the invariant, the owner of a key is
  the node of the only entry that has it (`OwnerIsEntry`), so that an add is a `Join`
  and a delete a `Leave`.
* `AddLosesNoKeyAlways`: `AnySpec => AddLosesNoKey`.  Without the operator's rules entries
  may overlap, be empty or have bounds that were never read, so that nothing is left
  of `Partition` but that the file is a list of entries (`FileOK`).  That is enough: the
  two halves have every key that the first entry of `from` had, unless the bound -1 is written.

A least index exists (`Least`) from finite subsets of the naturals, since
the induction theorems of the library take an operator.

**The protocol** (`KeySpaceHandle_proofs`), for any number of nodes, manifests, edits,
timeouts and restarts, orderly or not:

* `VersionNamesRingAlways`: `Spec => []VersionNamesRing`.  It is not inductive alone: a
  fetch under way could bring the wrong file.  `IInv` adds that what travels is what
  was published under its version (`FetchOK`), that nothing is ahead of the manager
  (`VerOK`, `NodeInv`) and, the decisive part, `RingInv`: the manager's entry is the
  first and only one of the manager.  The announcement skips the first entry, so that
  the manager never fetches, and never sets itself back.
* `Implementation`: `Spec => EditsTheRing`.  Each step of the protocol is a step of
  `KeySpaceRing!AnySpec` or leaves the manager's file and version alone.
* `TypeAlways`: `Spec => []TypeOK`.  The manager may write the bound -1 (2.1), so that a
  file is not made of keys; `BoundInv` says that every *published* file has its bounds in
  -1 .. MaxKey, and `AllFit` and `LeadInv` that a node that migrates knows its source, since
  the handlers of an answer read `m_from` without asking whether it was ever set.

**Migrations** (`KeySpaceMigration_proofs`):

* `LossHasCauseAlways`: `Spec => []LossHasCause`, assuming `~Orderly` and `~Departures`: the
  setting of `handle_lossy` and `handle_overlap`.  With joins only, every node takes
  manifests from the one node that it was started with as its source (`LinkInv`), and the nodes make
  a tree below the manager (`Rooted`, written without recursion: in every set that has the
  manager and is closed under "is the source of").  Copies are made before anything
  is erased, but several migrations of one manifest, repeated and late, can be under way
  at different levels of the tree, and each erases one level up.  `CopyInv` is what survives them
  all: for each node that will have a manifest erased at its source, some holder is in
  that node's own subtree.  An erasure at the source is never one there.

The other theorems assume `Orderly` (2.2), the setting of `handle_orderly`: joins and
departures, with any number of nodes, manifests, edits and timeouts, but without restarts and
timeouts of finds, after which manifests are lost.  They share one inductive invariant, in two halves: `Flow`, whatever
is under way is about the latest edit (`AllProper`), between its source and `m_to`; and
`StoreInv`, what the disks have and what becomes of it.  Only the second half speaks of stored
manifests, so that the first also holds when clients put and delete them (below).

* `FollowsTheRulesAlways`: `Spec => FollowsTheRules`, the refinement of `KeySpaceRing` with its
  rules; the manager's file is a partition at all times.  An add comes alone, so that it is
  still a split by the rules when it arrives (`RingOrder`).
* `RingSpreadAlways`: `Spec => []RingSpread`.  Each member has the latest ring, is being told of
  it, or waits for it (`AllTold`): announcements and fetches that time out are sent again.
* `NothingLostAlways`: `Spec => []NothingLost`.  A delete goes out with the complete, before the
  finds are answered; what will be deleted is stored by `m_to` or being found (`MoveOrder`), and
  nothing that follows from an older list is under way when a list is awaited.
* `SettledAlways`: `Spec => []Settled`.  A manifest of two digits is where a lookup looks for it,
  or at the source and something under way will make `m_to` ask for it (`Placed`, `Chain`).
  The test of one-digit prefixes reads more than the range of `m_to`; it takes nothing from
  the source that it keeps, because the source's keys are all below those of `m_to`
  (`SourceBelow`), and the test errs only upwards.

**Clients' requests while the ring changes** (`ManifestTraffic_proofs`), for any number of nodes,
manifests, edits, requests and lost deletions, assuming `Orderly` and `MaxRestarts = 0`:
the setting of `traffic`.  Of what may be lost, this is complete and only-delete-manifest; the
timeouts and retries of the other commands belong to `KeySpaceHandle` alone.  A process that ends over an empty answer stays down, as in
the run; what restarts do to the ring's protocol is the subject of `KeySpaceHandle_proofs`.
`TrafficInv` is `Flow` and, for each manifest, its `Fate`.  `StoreInv` is no part of it: it is
false as soon as clients delete.  `Flow` is preserved by every step, whatever clients do to
disks (`WriteFlow`), lost deletions (`LoseFlow`) and ends of processes (`CrashFlow`) included.
A `Fate` is about one manifest and says in which of the few stages of a migration it can be
(`Read`, `Sought`, `Brought`, `Due`, `Doomed`), and each property is the part of it at its name:

* `TrafficTypeAlways`: `TrafficSpec => []TrafficTypeOK`.  The owner that a put has looked up is that
  of the ring it has looked in (`PutFits`), and a delete that waits for the data has
  seen the manifest on the disk (`DelFits`).
* `CrashHasCauseAlways`: `CrashHasCause`.  `CrashPart`: what is listed or sought is
  at the source until it is found, unless a client's delete took it from there.
* `KeptSomewhereAlways`: `KeptSomewhere`.  `KeptPart`: when the source is due to be told to delete
  a manifest, or is being told, some other disk has it or a find brings it.  `Due` matters
  because the list that `OnCompleteCommandResponse` deletes by is read only then.
* `MisplacedHasCauseAlways`: `MisplacedHasCause`.  `HomePart`: a stored manifest is at its owner, or
  its owner is `m_to` and something under way makes `m_to` ask for it.  The second lookup
  of a put is what makes it true at the moment of the store (`StoredFate`): the put has looked
  in the manager's ring of now, or found the owner anyway, or the old owner is still going to be
  asked for its list, or the put is `late` (`InTime`).
* `ZombieHasCauseAlways`: `ZombieHasCause`.  `GonePart` is about copies: a stored manifest has none
  but that at its owner and, until the migration has deleted it there, at the source.  So the
  erasure at the owner erases the last one (`ErasedFate`).

An end of a process in the midst of a migration of several manifests keeps all parts, because
`HalfMoved` are `stranded` (`CrashFate`).  Two manifests in one migration are enough to need
that cause.

**Files** (`FileStore_proofs`), for every number of clients, nodes, losses, expiries, restarts
and retries:

* `CutsWholeAlways`: for a size that is no multiple of the block size the packets are,
  in order, the bytes of the file, as many as the info announces, and each is found
  under its number.  It rests on the quotient and remainder of the size (`Division`).
* `NothingPrepared`: for every other size but 0 no packet is prepared, though at least
  one is announced.  `file_multiple` shows what becomes of such a put.
* `TypeAlways`, and with it `PutInv`: the count of a process is the number of a *set* of
  segments that are stored and no longer wanted (`ProcFits`, `Stored`).  So a repeated or
  late Interest counts nothing twice, and a count never exceeds the segments of its put.
* `FindsWhatStaysAlways`: `Spec => []FindsWhatStays`.  A reader is in the midst of one content, a
  prefix of which it has, and if the name has had one content all the time it is that one
  (`ReadOK`).
* `DoneIsWrittenAlways`, `DoneHasCauseAlways`: `DoneIsWritten` and `DoneHasCause`, assuming
  that no size is a multiple of the block size; `file_multiple` is the run that shows the
  assumption to be needed.  `KeptStays` says that what a put has stored stays unless the put
  meets another client; it needs that segments on a disk are of puts that have begun
  (`SegsInv`), that whoever met another put or a delete is excused (`ExcuseInv`), and that a
  delete erases only what it has read (`RemovalInv`).
* `BehavesAsRegisterAlways`: `Spec => BehavesAsRegister`, assuming `Exclusive` (clients take
  turns) and that no two puts are sent to the same node; losses, expiries, retries and restarts are
  free.  `RInv` says that one client at most has anything under way (`TurnInv`), that a put under
  way which was not refused has the manifest to itself (`OwnInv`), that what can be read is on record,
  and stays until its put is at rest (`StoredInv`), and what a delete may still have to
  erase (`DeletedInv`).  The nodes come in by `Tidy`: what can be read is of the
  put whose manifest is stored (`ApartTidy`).

**Commands** (`CommandFlow_proofs`), for any clients, names, nodes and sizes.  The assumptions
(in `CommandFlow`): the three kinds of clients are disjoint, every hash has an owner
(`OwnerAssumption`), and no text of a manifest and no hash is `Nothing` (`NothingAssumption`).

* `WireKeeps`: decoding gives back what was encoded, for every set of fields of which
  each has one place in the order and a TLV type of its own; `Decodes` and
  `ResponseDecodes` are its uses for commands and responses.
* `FlowAlways`: `Spec => []FlowInv`.  `Fits` says, verb by verb, what a message carries and
  between which nodes.  What ties it together is `Begun`, that the node has the info of
  a put: before it all messages of the put are in the chain of one (`OneAtATime`), so
  that a process is made and begins once; after it what the put has left on disks is
  its own (`ManifestsOK`, `DataOK`).
* `TypeAlways`, `CommandsFitAlways` and `GetsItsNameAlways` follow.  The first gives each node's
  table of deletes its two kinds of entries, the clients' Interests under 0 and the node's own
  processes under drawn ids (`DeleteProcess`); neither kind of handler touches the
  other's, because 0 is never drawn (`ProcessOfDelete`).  The second has one exception, every insert's
  `ProcessId` (2.5).  The third says that the two ways to hash a name mix up no
  names: a reader finds the manifest of some put of the key, and in it a name under which
  only a put of that very name has stored.
* `StuckHasCauseAlways`: each delete has one message under way (`DeleteInv`), and a node that
  has stopped was stopped by a delete that waits for ever (`StuckInv`).
* `DeletedIsGoneAlways`: `Spec /\ []OneOfAKey => []DeletedIsGone`, where `OneOfAKey` says that
  puts that have begun differ in their last components.  The property is false without:
  two puts of one name at two nodes may both be past their find; the first can be read
  when the delete begins, then the second's manifest takes the place of the first's,
  and the delete erases what that one names.  The first's segments stay (two puts and
  one delete at two nodes are enough for TLC to find it, in 23 steps).  The instance of
  `commands` has one put of each last component.
  `GoneInv` follows what a delete found when it began: all its segments have come
  (`Fetched`), and once a confirmation is under way none is left.
* `KeptWhenAloneAlways`: `Spec => []KeptWhenAlone`, for names of any number of components.
  `KeptInv`: of a put that has begun and is `Undisturbed`, each segment is asked for or stored,
  and the manifest is announced, asked for, sent or stored.  `Undisturbed` is weaker than
  `Alone`, and can be lost but not gained (`UndisturbedBefore`): no other put of the last component
  has begun, and every delete of it is `Harmless`, that is not begun, failed, or without
  anything erased or to erase yet (`HarmStays`).  So puts of the last component that are
  refused and deletes that fail do no harm.  `CheckedInv`: a client that is told of a count is
  told it of a put that has begun.  That nobody reads a name of several components is
  `WholeNamesHaveNone`: no hash of a stored manifest is that of such a name.

**One node** (`RepoNode_proofs`), for any streams, buffer size, connections, faults, kills and
restarts:

* `BufferAlways`: `Spec => [](TypeOK /\ RoomLeft /\ NothingWaits /\ RefusedHasCause /\
  ServedSinceStart)`.  `IInv` adds that each buffer begins where an element ends
  (`Aligned`; ends increase, so that `Taken` is that one element, `TakenIs`) and that an
  unaccepted connection has an empty buffer.  The heart is `ReceiveConnOK`: a buffer
  that is still full after the loop has taken nothing from it, so that its first
  element does not fit, and never will.
* `ExitHasCauseAlways`: `Spec => []ExitHasCause`.  It is not inductive alone: a process
  also ends when it reads a torn file that an earlier step has left.  `Untorn` is what is
  missing, that no packet and no manifest is torn as long as no fault and no kill has
  happened; only an insert or a saved manifest that goes wrong tears a file
  (`InsertUntorn`, `ManifestUntorn`), for both storages.
* `TakesInOrderAlways`: `Spec => TakesInOrder`.  A receive that takes nothing is a
  stutter (`InsertNothing`), every other one, whole or cut short by a kill, is a `Take`
  (`IsTake`), and the rest of the node is `Elsewhere`.

**Only model-checked**: liveness (`ComesToRest`, `PutEnds`), which is out of the provers' reach.
Every invariant and every refinement or action property of the other passing runs is a theorem; where
a theorem assumes more than its module does, the item above says so.

## 5. Not modelled

* Restarts of the manager: nothing of the ring is persisted, so that a restarted manager
  begins with a ring of its own and version 1, while the others keep theirs.  There is no
  recovery in the code that could be said to be right or wrong.
* What `KeySpaceHandle` and `ManifestTraffic` leave to the operator and to clients: nobody deletes
  the manager's entry (`keyspace-handle.cpp:337` would let him; the announcement, which skips
  the first entry, would then skip a member), and nobody sends a put or a delete to a node that has not
  read a ring yet (`getManifestStorage` would end it, `keyspace-handle.cpp:647`).
* The client's own deadline for a put (`difs.cpp:541-542`, `:856`): `ndnputfile` does not set it.
* The negative answer to a get whose find has timed out (`read-handle.cpp:135-141`): in `FileStore` the
  get does not go on, as when its command is lost.
* In `CommandFlow`, where nothing times out, the use that a timeout makes of the entry under the id 0
  (`delete-handle.cpp:132-138`); the module `DeleteHandle` has that timeout.
* Segmented insert commands (`SegmentParameter` with a start and no end): no tool sends them.
* TLV lengths, the text of JSON, SHA-1, signatures and their validation, authorization.
* Data base queries that throw, and a data base that several nodes share.
* The command lines and the printing of the tools, and the examples.

The reasons are with the components in `PROJECT.json`.

## 6. Plan

Done: the ring, the protocol, the protocol together with clients' puts and deletes, puts,
deletes and gets of one name under failures, the commands of several names and of empty
files, the packets and manifests of one node on both storages; the proofs of section 4,
with which every safety property of the runs is proved.

Next, in this order:

1. `ManifestTraffic` with processes that start again in the midst of a migration, in the runs
   and then in the proofs.
2. Segmented inserts in `WriteHandle`; restarts of the manager, as far as the operator's
   next commands make a ring again.
