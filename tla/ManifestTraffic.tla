-------------------------- MODULE ManifestTraffic ---------------------------
(***************************************************************************)
(* Manifests are put and deleted while the ring changes: the key space     *)
(* protocol together with what WriteHandle, ManifestHandle and             *)
(* DeleteHandle do to the manifests on behalf of clients.                  *)
(*                                                                         *)
(* The two share the disks and the nodes' copies of the ring, and nothing  *)
(* else: no handler looks whether a migration is under way.  Of each name  *)
(* at most one put and one deletion are under way; what several of each    *)
(* do to one another without a migration is FileStore's subject.  The      *)
(* files' segments, which no migration moves, and what a client is told    *)
(* are left out.                                                           *)
(***************************************************************************)
EXTENDS KeySpaceHandle

CONSTANTS Requested,    \* bound: the manifests that clients put and delete
          MaxRequests,  \* bound on the clients' puts and deletions
          MaxLosses,    \* bound on the Interests of migrations that are lost
          NoRequest     \* no put or deletion is under way

ASSUME TrafficBoundsAssumption == {MaxRequests, MaxLosses} \subseteq Nat

VARIABLES
  put,      \* the put of each name that is under way
  del,      \* the deletion of each name that is under way
  left,     \* what is left of MaxRequests and MaxLosses
  latest,   \* history: whether the name's last completed request stored or
            \* erased it
  spoiled   \* history: what a migration may have done to the name

requestVars == <<put, del, left>>
trafficVars == <<requestVars, latest, spoiled>>

\* A put asks dst for the manifest, then the client for its info, then dst to
\* create the manifest.  node is the node that the client has asked, ring the
\* version of the ring in which it has looked dst up.
Put == [stage : {"find", "info", "create"}, node : Node, dst : Node \cup {NoNode},
        ring : Version]

\* A deletion waits at dst for the data to be deleted before the manifest is.
Del == [stage : {"delete-manifest", "delete-data"}, dst : Node \cup {NoNode}]

Cause == {"late", "listed", "overlap", "leftover", "crash", "stranded"}

TrafficTypeOK ==
  /\ TypeOK
  /\ put \in [Manifest -> Put \cup {NoRequest}]
  /\ del \in [Manifest -> Del \cup {NoRequest}]
  /\ left \in [requests : 0 .. MaxRequests, losses : 0 .. MaxLosses]
  /\ latest \in [Manifest -> {"stored", "erased"}]
  /\ spoiled \in [Manifest -> SUBSET Cause]

\* Any names are stored when the first node joins.
TrafficInit ==
  \E ms \in SUBSET Manifest :
    /\ InitStored(ms)
    /\ put = [m \in Manifest |-> NoRequest]
    /\ del = [m \in Manifest |-> NoRequest]
    /\ left = [requests |-> MaxRequests, losses |-> MaxLosses]
    /\ latest = [m \in Manifest |-> IF m \in ms THEN "stored" ELSE "erased"]
    /\ spoiled = [m \in Manifest |-> {}]

Spoil(m, c) == spoiled' = [spoiled EXCEPT ![m] = @ \cup c]

\* The owner of m as node n sees it.
OwnerAt(n, m) == GetManifestStorage(file[n], Hash[m])

\* The owner of m is still going to have d list its manifests.
ListToCome(d, m) ==
  LET owner == OwnerAt(Manager, m)
  IN  \/ \E x \in exch["manifestlist"] :
           x.src = owner /\ x.dst = d /\ x.stage = "interest"
      \/ \E x \in exch["coordination"] :
           x.dst = owner /\ x.from = d /\ x.stage = "interest"
      \/ /\ to = owner /\ from[Manager] = d
         /\ \/ \E x \in exch["fetch"] : x.stage = "interest"
            \/ \E x \in exch["ver"] :
                 /\ x.stage = "interest"
                 /\ version[x.dst] # x.version
                 /\ \A y \in exch["fetch"] : y.src # x.dst

\* The manifest that m's put is about to store comes too late at its dst: the
\* ring has changed since the lookup, and no list is going to have it moved.
Late(m) ==
  /\ put[m].ring # version[Manager]
  /\ put[m].dst # OwnerAt(Manager, m)
  /\ ~ListToCome(put[m].dst, m)

\* Node d has listed m, and is going to be told to delete it.
Listed(d, m) ==
  \/ \E x \in exch["only-delete-manifest"] : x.dst = d /\ x.manifest = m
  \/ \E x \in exch["complete"] : from[x.src] = d /\ m \in mlist[x.src]
  \/ \E x \in exch["manifestlist"] : x.dst = d /\ m \in x.content

-----------------------------------------------------------------------------
(* Putting.                                                                *)

\* A client asks node n to put m: the owner is asked first.  A node that has not yet
\* read a ring would end over it (keyspace-handle.cpp:647), and is not asked here.
HandleInsertCommand(n, m) ==
  /\ m \in Requested
  /\ put[m] = NoRequest
  /\ left.requests > 0
  /\ Running(n) /\ version[n] # Unset
  /\ left' = [left EXCEPT !.requests = @ - 1]
  /\ put' = [put EXCEPT ![m] = [stage |-> "find", node |-> n, dst |-> OwnerAt(n, m),
                                 ring |-> version[n]]]
  /\ UNCHANGED <<del, latest, spoiled>>

\* A mutant of OnFindResponse: the process of a refused put is kept.
OnFindResponseKept(m) ==
  LET p == put[m]
  IN  /\ p # NoRequest
      /\ p.stage = "find"
      /\ p.dst \in Node /\ Running(p.dst)
      /\ put' = [put EXCEPT ![m].stage = IF m \in store[p.dst] THEN "refused"
                                                              ELSE "info"]
      /\ UNCHANGED <<del, left, latest, spoiled>>

\* The owner looks for m, and the node's onFindResponse refuses the put of a
\* manifest that was found.
OnFindResponse(m) ==
  LET p == put[m]
  IN  /\ p # NoRequest
      /\ p.stage = "find"
      /\ p.dst \in Node /\ Running(p.dst)
      /\ put' = [put EXCEPT ![m] = IF m \in store[p.dst] THEN NoRequest
                                    ELSE [@ EXCEPT !.stage = "info"]]
      /\ UNCHANGED <<del, left, latest, spoiled>>

\* A mutant of WriteManifest: the manifest is created where it was looked for.
WriteManifestThere(m) ==
  /\ put[m] # NoRequest
  /\ put[m].stage = "info"
  /\ put' = [put EXCEPT ![m].stage = "create", ![m].ring = version[put[m].node]]
  /\ UNCHANGED <<del, left, latest, spoiled>>

\* The client has answered: the owner is looked up again, in the ring of now.
WriteManifest(m) ==
  /\ put[m] # NoRequest
  /\ put[m].stage = "info"
  /\ LET n == put[m].node
     IN  put' = [put EXCEPT ![m].stage = "create", ![m].dst = OwnerAt(n, m),
                            ![m].ring = version[n]]
  /\ UNCHANGED <<del, left, latest, spoiled>>

\* That node has fetched the manifest from the writer and stores it, whoever
\* owns the key by now.
OnManifestValidated(m) ==
  LET d == put[m].dst
  IN  /\ put[m] # NoRequest
      /\ put[m].stage = "create"
      /\ d \in Node /\ Running(d)
      /\ store' = [store EXCEPT ![d] = @ \cup {m}]
      /\ put' = [put EXCEPT ![m] = NoRequest]
      /\ latest' = [latest EXCEPT ![m] = "stored"]
      /\ Spoil(m, (IF Late(m) THEN {"late"} ELSE {})
                    \cup (IF Listed(d, m) THEN {"listed"} ELSE {}))
      /\ UNCHANGED <<del, left>>

-----------------------------------------------------------------------------
(* Deleting.                                                               *)

\* A client asks node n, which has read a ring, to delete m.
HandleFileDelete(n, m) ==
  /\ m \in Requested
  /\ del[m] = NoRequest
  /\ left.requests > 0
  /\ Running(n) /\ version[n] # Unset
  /\ left' = [left EXCEPT !.requests = @ - 1]
  /\ del' = [del EXCEPT ![m] = [stage |-> "delete-manifest", dst |-> OwnerAt(n, m)]]
  /\ UNCHANGED <<put, latest, spoiled>>

\* The owner reads the manifest, and has the data deleted.
HandleDeleteManifestCommand(m) ==
  LET d == del[m]
  IN  /\ d # NoRequest
      /\ d.stage = "delete-manifest"
      /\ d.dst \in Node /\ Running(d.dst)
      /\ del' = [del EXCEPT ![m] = IF m \in store[d.dst]
                                    THEN [@ EXCEPT !.stage = "delete-data"]
                                    ELSE NoRequest]
      /\ UNCHANGED <<put, left, latest, spoiled>>

\* The data are deleted: so is the manifest.
OnDeleteDataCommandResponse(m) ==
  LET d == del[m].dst
  IN  /\ del[m] # NoRequest
      /\ del[m].stage = "delete-data"
      /\ store' = [store EXCEPT ![d] = @ \ {m}]
      /\ del' = [del EXCEPT ![m] = NoRequest]
      /\ latest' = [latest EXCEPT ![m] = "erased"]
      /\ Spoil(m, IF Quiet THEN {} ELSE {"overlap"})
      /\ UNCHANGED <<put, left>>

-----------------------------------------------------------------------------
(* The ring.                                                               *)

\* The nodes that a step starts.
Booted == {x.src : x \in exch'["add-node"] \ exch["add-node"]}

\* The requests that the nodes of N were working on end with their processes.
RequestsEnd(N) ==
  /\ put' = [m \in Manifest |->
               IF put[m] # NoRequest /\ {put[m].node, put[m].dst} \cap N # {}
               THEN NoRequest ELSE put[m]]
  /\ del' = [m \in Manifest |->
               IF del[m] # NoRequest /\ del[m].dst \in N THEN NoRequest ELSE del[m]]

\* The deletions that a step of the ring comes between.
Overlapped == {m \in Manifest : del[m] # NoRequest}

RingMoves ==
  /\ Operate \/ Deliver
  /\ RequestsEnd(Booted)
  /\ UNCHANGED <<left, latest>>
  /\ spoiled' = [m \in Manifest |->
                   spoiled[m] \cup (IF m \in Overlapped THEN {"overlap"} ELSE {})]

\* What x, once it is lost, leaves on the disk of the old owner.
LeftBy(c, x) ==
  IF c = "complete" THEN Selected(x.src, mlist[x.src]) ELSE {x.manifest}

\* The Interest x of a migration is lost, and the timeout is only logged.  (The
\* other commands of a migration are repeated, or in KeySpaceHandle's care.)
Lose(c, x) ==
  /\ left.losses > 0
  /\ left' = [left EXCEPT !.losses = @ - 1]
  /\ exch' = Replace(c, x, {})
  /\ spoiled' = [m \in Manifest |->
                   spoiled[m] \cup (IF m \in LeftBy(c, x) THEN {"leftover"} ELSE {})
                              \cup (IF m \in Overlapped THEN {"overlap"} ELSE {})]
  /\ UNCHANGED <<nodeVars, budget, history, put, del, latest>>

\* What node n has asked for and not stored, or stored and not had deleted.
HalfMoved(n) ==
  {y.manifest : y \in {z \in exch["find"] : z.src = n}}
    \cup UNION {LeftBy("complete", y) : y \in {z \in exch["complete"] : z.src = n}}

\* The answer to the find of a manifest that has gone since it was listed ends
\* the process of the node that asked; here nobody starts it again.
Crash(x) ==
  /\ Returning("find", x)
  /\ ~x.found
  /\ x.src # Manager
  /\ config' = [config EXCEPT ![x.src] = NoNode]
  /\ exch' = [c \in Command |-> Abandoned(c, x.src)]
  /\ RequestsEnd({x.src})
  /\ UNCHANGED <<version, file, range, from, to, mlist, store, budget, history,
                 left, latest>>
  /\ spoiled' = [m \in Manifest |->
                   spoiled[m] \cup (IF m = x.manifest THEN {"crash"} ELSE {})
                              \cup (IF m \in HalfMoved(x.src) THEN {"stranded"}
                                                              ELSE {})]

-----------------------------------------------------------------------------

Request ==
  \E m \in Manifest :
    \/ \E n \in Node : HandleInsertCommand(n, m) \/ HandleFileDelete(n, m)
    \/ OnFindResponse(m)
    \/ WriteManifest(m)
    \/ HandleDeleteManifestCommand(m)

Write ==
  \E m \in Manifest : OnManifestValidated(m) \/ OnDeleteDataCommandResponse(m)

TrafficNext ==
  \/ RingMoves
  \/ \E c \in {"complete", "only-delete-manifest"} : \E x \in exch[c] : Lose(c, x)
  \/ \E x \in exch["find"] : Crash(x)
  \/ Request /\ UNCHANGED vars
  \/ Write /\ UNCHANGED <<config, version, file, range, from, to, mlist, exch,
                          budget, history>>

TrafficSpec == TrafficInit /\ [][TrafficNext]_<<vars, trafficVars>>

-----------------------------------------------------------------------------
(* Properties.                                                             *)

\* Once the ring has come to rest, the manifest of a put that is the name's
\* latest request is where the manager's ring says, unless it was created at an
\* owner that had already been listed (or will never be, because the writer has
\* left the ring and is told of no edit), or re-created at one that was about to
\* delete it, or the process that was to fetch it ended over another manifest of
\* the same migration.  The second lookup of writeManifest makes it so that no
\* delay between a put's find and its create is a cause.
MisplacedHasCause ==
  Quiet => \A m \in Manifest :
    latest[m] = "stored" /\ Hash[m] >= Base
      => \/ m \in store[OwnerAt(Manager, m)]
         \/ spoiled[m] \cap {"late", "listed", "stranded"} # {}

\* At no time, also while it migrates, is such a manifest on no disk, unless it
\* was deleted and put again at a node that had listed it before and is then
\* told to delete what the list has, also on behalf of a process that ended.
KeptSomewhere ==
  \A m \in Manifest :
    latest[m] = "stored"
      => (\E n \in Node : m \in store[n]) \/ spoiled[m] \cap {"listed", "stranded"} # {}

\* Once the ring has come to rest, the manifest of a name whose latest request
\* deleted it is not found at its owner: a migration brings a deleted name back
\* only when the deletion and a migration overlapped, when a migration's
\* "complete" or "only-delete-manifest" was lost and the range has come back to
\* the old owner, when the process that was to send them ended, or when there was
\* a second copy that came late.  The keys of one hexadecimal digit are left out:
\* no migration ever lists them, so that a node that leaves the ring and comes
\* back finds the copies it has left behind.
ZombieHasCause ==
  Quiet => \A m \in Manifest :
    latest[m] = "erased" /\ Hash[m] >= Base
      => \/ m \notin store[OwnerAt(Manager, m)]
         \/ spoiled[m] \cap {"overlap", "leftover", "late", "stranded"} # {}

\* The empty answer that ends the process of a joining node is always that of a
\* manifest whose deletion overlapped the migration.
CrashHasCause ==
  \A m \in Manifest : "crash" \in spoiled[m] => "overlap" \in spoiled[m]

=============================================================================
