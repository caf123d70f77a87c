--------------------------- MODULE KeySpaceHandle ---------------------------
(***************************************************************************)
(* The key space protocol: how the manager's edits of the ring reach the   *)
(* nodes and how the manifests follow the keys (class KeySpaceHandle, with *)
(* the "find" of ManifestHandle and the "only-delete-manifest" of          *)
(* DeleteHandle that it calls on other nodes).                             *)
(*                                                                         *)
(* Every node is one single-threaded event loop, so a handler is one       *)
(* action.  Nodes talk by Interests, each answered by at most one Data or  *)
(* given up after a timeout.  One Interest and what becomes of it is an    *)
(* EXCHANGE, whose stage is                                                *)
(*   "interest"  on its way, the requester waits;                          *)
(*   "data"      answered, the Data is on its way;                         *)
(*   "late"      still on its way, but the requester has given up.         *)
(* Exchanges progress in any order.  A loss is a timeout.                  *)
(***************************************************************************)
EXTENDS KeySpaceFile, FiniteSets

CONSTANTS Manifest,     \* the manifests stored in the cluster
          Hash,         \* the key that each manifest's hash begins with
          MaxVersion,   \* bound on the edits of the ring
          MaxTimeouts,  \* bound on the timeouts
          MaxRestarts,  \* bound on the restarts of nodes
          Garbage,      \* what uninitialised m_start and m_end may hold
          Departures,   \* whether nodes leave as well as join
          Orderly       \* whether the network and the operator are (below)

KeyRange == [start : Key, end : Key]

ASSUME HashAssumption == Hash \in [Manifest -> Key]
ASSUME BoundsAssumption == {MaxVersion, MaxTimeouts, MaxRestarts} \subseteq Nat
ASSUME GarbageAssumption == Garbage \subseteq KeyRange
ASSUME SwitchAssumption == {Departures, Orderly} \subseteq BOOLEAN

VARIABLES
  config,     \* cluster.from of each node's configuration, NoNode before the
              \* operator starts the node
  version,    \* m_version of each node, Unset before the first fetch
  file,       \* m_keySpaceFile
  range,      \* m_start and m_end
  from,       \* m_from
  to,         \* m_to of the manager
  mlist,      \* m_manifestList, the manifests of the last list received
  store,      \* the manifests on each node's disk
  exch,       \* the exchanges under way, by the command they carry
  budget,     \* what is left of MaxTimeouts and MaxRestarts
  published,  \* history: the files the manager has had, by version
  asked,      \* history: the finds each node sent for its last list
  excused     \* history: the manifests whose migration went wrong

nodeVars == <<config, version, file, range, from, to, mlist, store>>
history == <<published, asked, excused>>
vars == <<nodeVars, exch, budget, history>>

Unset == -1

Version == 0 .. MaxVersion

Command == {"add-node", "ver", "fetch", "coordination", "manifestlist", "find", 
            "complete", "only-delete-manifest"}

Stage == {"interest", "data", "late"}

\* The exchanges a command can have.  ver and coordination are sent by the
\* manager; add-node, fetch and complete to the manager.  An add-node is signed
\* afresh each time: sent tells those of one node apart.
Exchange(c) ==
  CASE c = "add-node" ->
         [src : Node, from : Node, sent : 0 .. MaxRestarts, stage : {"interest"}]
    [] c = "ver" ->
         [dst : Node, version : Version, stage : Stage]
    [] c = "fetch" ->
         [src : Node, version : Version, stage : Stage, content : File]
    [] c = "coordination" ->
         [dst : Node, from : Node, stage : Stage]
    [] c = "manifestlist" ->
         [src : Node, dst : Node, stage : Stage, content : SUBSET Manifest]
    [] c = "find" ->
         [src : Node, dst : Node, manifest : Manifest, stage : Stage,
          found : BOOLEAN]
    [] c = "complete" ->
         [src : Node, stage : {"interest"}]
    [] c = "only-delete-manifest" ->
         [src : Node, dst : Node, manifest : Manifest, stage : Stage]

TypeOK ==
  /\ config \in [Node -> Node \cup {NoNode}]
  /\ version \in [Node -> Version \cup {Unset}]
  /\ file \in [Node -> File]
  /\ range \in [Node -> KeyRange]
  /\ from \in [Node -> Node \cup {NoNode}]
  /\ to \in Node \cup {NoNode}
  /\ mlist \in [Node -> SUBSET Manifest]
  /\ store \in [Node -> SUBSET Manifest]
  /\ DOMAIN exch = Command
  /\ \A c \in Command : \A x \in exch[c] : x \in Exchange(c)
  /\ budget \in [timeouts : 0 .. MaxTimeouts, restarts : 0 .. MaxRestarts]
  /\ published \in [Version -> File]
  /\ asked \in [Node -> SUBSET (Node \X Manifest)]
  /\ excused \in SUBSET Manifest

-----------------------------------------------------------------------------
(* The manager has the whole ring and all manifests; no other node runs     *)
(* yet.  Nothing initialises m_start and m_end before a fetch.             *)

\* The manager stores the manifests of ms.
InitStored(ms) ==
  /\ config = [n \in Node |-> NoNode]
  /\ version = [n \in Node |-> IF n = Manager THEN 0 ELSE Unset]
  /\ file = [n \in Node |-> IF n = Manager THEN InitKeySpaceFile ELSE <<>>]
  /\ range \in [Node -> Garbage]
  /\ from = [n \in Node |-> NoNode]
  /\ to = NoNode
  /\ mlist = [n \in Node |-> {}]
  /\ store = [n \in Node |-> IF n = Manager THEN ms ELSE {}]
  /\ exch = [c \in Command |-> {}]
  /\ budget = [timeouts |-> MaxTimeouts, restarts |-> MaxRestarts]
  /\ published = [v \in Version |-> IF v = 0 THEN InitKeySpaceFile ELSE <<>>]
  /\ asked = [n \in Node |-> {}]
  /\ excused = {}

Init == InitStored(Manifest)

-----------------------------------------------------------------------------
(* Exchanges.                                                              *)

\* The first state of each exchange, before it is answered.
Add(src, f, sent) ==
  [src |-> src, from |-> f, sent |-> sent, stage |-> "interest"]
Ver(dst, v) == [dst |-> dst, version |-> v, stage |-> "interest"]
Fetch(src, v) ==
  [src |-> src, version |-> v, stage |-> "interest", content |-> <<>>]
Coordination(dst, f) == [dst |-> dst, from |-> f, stage |-> "interest"]
ManifestListOf(src, dst) ==
  [src |-> src, dst |-> dst, stage |-> "interest", content |-> {}]
Find(src, dst, m) == [src |-> src, dst |-> dst, manifest |-> m,
                      stage |-> "interest", found |-> FALSE]
Complete(src) == [src |-> src, stage |-> "interest"]
DeleteManifest(src, dst, m) ==
  [src |-> src, dst |-> dst, manifest |-> m, stage |-> "interest"]

\* The exchanges after c's exchange x has been replaced by those of the set xs.
Replace(c, x, xs) == [exch EXCEPT ![c] = (@ \ {x}) \cup xs]

\* The requesters of these commands only log the answer: it matters as long as
\* they can time out before it arrives.
AnswerLogged == {"ver", "coordination", "only-delete-manifest"}

\* The exchanges after x has been answered by y's content: nobody waits for
\* the answer of a late one.
Answer(c, x, y) ==
  LET awaited == /\ x.stage = "interest"
                 /\ c \in AnswerLogged => budget.timeouts > 0
  IN  Replace(c, x, IF awaited THEN {[y EXCEPT !.stage = "data"]} ELSE {})

\* The same, and the requests xs of the command d are sent.
AnswerAndSend(c, x, y, d, xs) == [Answer(c, x, y) EXCEPT ![d] = @ \cup xs]

\* An Interest on its way to its handler.
Arriving(c, x) == x \in exch[c] /\ x.stage \in {"interest", "late"}

\* A Data on its way to the requester.
Returning(c, x) == x \in exch[c] /\ x.stage = "data"

\* Nothing is under way.
Quiet == \A c \in Command : exch[c] = {}

\* Mutants of VersionCommands: the next version is announced, and one entry too
\* many is skipped.
VersionCommandsAhead(f, v) == {Ver(f[i].node, v + 1) : i \in 2 .. Len(f)}
VersionCommandsSkipTwo(f, v) == {Ver(f[i].node, v) : i \in 3 .. Len(f)}

\* What onVersionCommand sends: the version, to all entries but the first one.
VersionCommands(f, v) == {Ver(f[i].node, v) : i \in 2 .. Len(f)}

-----------------------------------------------------------------------------
(* Nodes start, and ask the manager to add them to the ring.               *)

Ring == INSTANCE KeySpaceRing
          WITH file <- file[Manager], version <- version[Manager], alive <- TRUE

\* The nodes that have a process.
Running(n) == n = Manager \/ config[n] # NoNode

\* A process that exits loses its memory, and what it has asked for reaches
\* its handlers at most: nobody waits for the answers.
Abandoned(c, n) ==
  LET mine == IF c \in {"add-node", "ver", "coordination"} THEN {}
              ELSE {x \in exch[c] : x.src = n}
  IN  (exch[c] \ mine) \cup
        (IF c = "complete" THEN {}
         ELSE {[x EXCEPT !.stage = "late"] : x \in {y \in mine : y.stage # "data"}})

\* The process of node n starts, in place of an earlier one if there was any,
\* with f for cluster.from.  The constructor takes m_from from there, and
\* main() sends the add-node command, whose answer is only printed.
Boot(n, f) ==
  /\ config' = [config EXCEPT ![n] = f]
  /\ version' = [version EXCEPT ![n] = Unset]
  /\ file' = [file EXCEPT ![n] = <<>>]
  /\ \E g \in Garbage : range' = [range EXCEPT ![n] = g]
  /\ from' = [from EXCEPT ![n] = f]
  /\ mlist' = [mlist EXCEPT ![n] = {}]
  /\ exch' = [[c \in Command |-> Abandoned(c, n)] EXCEPT !["add-node"] =
                @ \cup {Add(n, f, budget'.restarts)}]
  /\ asked' = [asked EXCEPT ![n] = {}]
  /\ excused' = excused \cup {x.manifest : x \in {y \in exch["find"] : y.src = n}}
  /\ UNCHANGED <<to, store, published>>

\* The operator starts a node.  An orderly one does so when nothing is under
\* way, names a member whose range can be split, and starts a node that has left
\* the ring again.
Start(n, f) ==
  /\ n \notin {f, Manager}
  /\ IF Orderly THEN /\ Quiet
                     /\ Ring!SafeAdd(f, n)
                     /\ version[Manager] < MaxVersion
                ELSE config[n] = NoNode
  /\ UNCHANGED budget
  /\ Boot(n, f)

\* The process of node n ends, and is started again with the same configuration.
Exit(n) ==
  /\ n \in Node \ {Manager}
  /\ config[n] # NoNode
  /\ budget.restarts > 0
  /\ budget' = [budget EXCEPT !.restarts = @ - 1]
  /\ Boot(n, config[n])

Restart(n) == ~Orderly /\ Exit(n)

-----------------------------------------------------------------------------
(* The manager edits the ring.                                             *)

\* A mutant of Publish: the version is not counted up.
PublishSameVersion(f, rest) ==
  /\ version[Manager] < MaxVersion
  /\ file' = [file EXCEPT ![Manager] = f]
  /\ exch' = [rest EXCEPT !["ver"] = @ \cup VersionCommands(f, version[Manager])]
  /\ UNCHANGED <<version, published>>

\* The manager's file becomes f, under the next version, and the nodes are told;
\* rest are the other exchanges.
Publish(f, rest) ==
  /\ version[Manager] < MaxVersion
  /\ version' = [version EXCEPT ![Manager] = @ + 1]
  /\ file' = [file EXCEPT ![Manager] = f]
  /\ published' = [published EXCEPT ![version[Manager] + 1] = f]
  /\ exch' = [rest EXCEPT !["ver"] =
                @ \cup VersionCommands(f, version[Manager] + 1)]

\* m_from and m_to are overwritten before the members are looked at.
SetFromTo(f, t) ==
  /\ from' = [from EXCEPT ![Manager] = f]
  /\ to' = t

\* The add of a node that is a member already gives it a second entry; one
\* whose from is no member only overwrites m_from and m_to.
HandleAddCommand(x) ==
  /\ Arriving("add-node", x)
  /\ SetFromTo(x.from, x.src)
  /\ LET rest == Replace("add-node", x, {})
     IN  IF x.from \in Members(file[Manager])
         THEN /\ Ring!AddReadable(x.from)
              /\ Publish(AddNode(file[Manager], x.from, x.src), rest)
         ELSE /\ exch' = rest
              /\ UNCHANGED <<version, file, published>>
  /\ UNCHANGED <<config, range, mlist, store, budget, asked, excused>>

\* The operator's del-node.  It merges neighbours, as the arithmetic requires;
\* an orderly operator lets the previous migration end first, and does not
\* merge a node into the manager, which never learns its own range.  No operator
\* deletes the manager's entry, though the code lets him (keyspace-handle.cpp:337):
\* the announcement takes the first entry to be the manager's.
HandleDeleteCommand(f, t) ==
  /\ Departures
  /\ Orderly => Quiet /\ t # Manager
  /\ f # Manager
  /\ Ring!SafeDelete(f, t)
  /\ Ring!DeleteReadable(f, t)
  /\ SetFromTo(f, t)
  /\ Publish(DelNode(file[Manager], f, t, [start |-> 0, end |-> 0]), exch)
  /\ UNCHANGED <<config, range, mlist, store, budget, asked, excused>>

-----------------------------------------------------------------------------
(* The ring travels: ver, fetch.                                           *)

HandleVersionCommand(x) ==
  /\ Arriving("ver", x)
  /\ Running(x.dst)
  /\ exch' = AnswerAndSend("ver", x, x, "fetch",
               IF x.version # version[x.dst] THEN {Fetch(x.dst, x.version)}
                                             ELSE {})
  /\ UNCHANGED <<nodeVars, budget, history>>

\* A mutant of HandleFetchCommand: the version asked for is not compared.
HandleFetchCommandLatest(x) ==
  /\ Arriving("fetch", x)
  /\ exch' = AnswerAndSend("fetch", x, [x EXCEPT !.content = file[Manager]],
                           "coordination", {Coordination(to, from[Manager])})
  /\ UNCHANGED <<nodeVars, budget, history>>

\* Only the manager is asked.  Whatever it replies, it tells m_to to move the
\* manifests.
HandleFetchCommand(x) ==
  /\ Arriving("fetch", x)
  /\ LET content == IF x.version = version[Manager] THEN file[Manager] ELSE <<>>
     IN  exch' = AnswerAndSend("fetch", x, [x EXCEPT !.content = content],
                   "coordination", {Coordination(to, from[Manager])})
  /\ UNCHANGED <<nodeVars, budget, history>>

\* An empty file is ignored.  A node that is not in the file keeps its range, and
\* one whose entry has a negative bound ends with the exception of stoi.
OnFetchCommandResponse(x) ==
  LET member == x.src \in Members(x.content)
      e      == x.content[IndexOf(x.content, x.src)]
  IN  /\ Returning("fetch", x)
      /\ IF member /\ ~Ring!Readable(e)
         THEN Exit(x.src)
         ELSE /\ exch' = Replace("fetch", x, {})
              /\ IF x.content = <<>> THEN UNCHANGED <<version, file, range>>
                 ELSE /\ version' = [version EXCEPT ![x.src] = x.version]
                      /\ file' = [file EXCEPT ![x.src] = x.content]
                      /\ range' = IF member
                                  THEN [range EXCEPT ![x.src] =
                                          [start |-> e.start, end |-> e.end]]
                                  ELSE range
              /\ UNCHANGED <<config, from, to, mlist, store, budget, history>>

-----------------------------------------------------------------------------
(* The manifests follow: coordination, manifestlist, find, complete,       *)
(* only-delete-manifest.                                                   *)

\* The exchanges of a migration that node n has begun.
Migrating(n) ==
  UNION {{y \in exch[c] : y.src = n} :
           c \in {"manifestlist", "find", "complete", "only-delete-manifest"}}

\* In an orderly network a coordination comes after the ring it is about, and
\* after the migration that an earlier one began.
HandleCoordinationCommand(x) ==
  /\ Arriving("coordination", x)
  /\ Running(x.dst)
  /\ Orderly => version[x.dst] = version[Manager] /\ Migrating(x.dst) = {}
  /\ from' = [from EXCEPT ![x.dst] = x.from]
  /\ exch' = AnswerAndSend("coordination", x, x, "manifestlist",
               {ManifestListOf(x.dst, x.from)})
  /\ UNCHANGED <<config, version, file, range, to, mlist, store, budget, history>>

HandleManifestListCommand(x) ==
  /\ Arriving("manifestlist", x)
  /\ Running(x.dst)
  /\ exch' = Answer("manifestlist", x, [x EXCEPT !.content = store[x.dst]])
  /\ UNCHANGED <<nodeVars, budget, history>>

\* The manifests of a list that the prefix test attributes to a node's range.
Selected(n, list) == {m \in list : InRange(Hash[m], range[n])}

\* A mutant of OnManifestListCommandResponse: the list is added to the last one.
OnManifestListCommandResponseAdded(x) ==
  LET n        == x.src
      list     == x.content \cup mlist[n]
      selected == Selected(n, list)
  IN  /\ Returning("manifestlist", x)
      /\ mlist' = [mlist EXCEPT ![n] = list]
      /\ exch' = [Replace("manifestlist", x, {}) EXCEPT
                    !["find"] = @ \cup {Find(n, from[n], m) : m \in selected},
                    !["complete"] = @ \cup {Complete(n)}]
      /\ asked' = [asked EXCEPT ![n] = {from[n]} \X selected]
      /\ UNCHANGED <<config, version, file, range, from, to, store, budget,
                     published, excused>>

\* Ask for the manifests of the own range, and report completion at once.
OnManifestListCommandResponse(x) ==
  LET n        == x.src
      selected == Selected(n, x.content)
  IN  /\ Returning("manifestlist", x)
      /\ mlist' = [mlist EXCEPT ![n] = x.content]
      /\ exch' = [Replace("manifestlist", x, {}) EXCEPT
                    !["find"] = @ \cup {Find(n, from[n], m) : m \in selected},
                    !["complete"] = @ \cup {Complete(n)}]
      /\ asked' = [asked EXCEPT ![n] = {from[n]} \X selected]
      /\ UNCHANGED <<config, version, file, range, from, to, store, budget,
                     published, excused>>

HandleFindCommand(x) ==
  /\ Arriving("find", x)
  /\ Running(x.dst)
  /\ exch' = Answer("find", x, [x EXCEPT !.found = x.manifest \in store[x.dst]])
  /\ UNCHANGED <<nodeVars, budget, history>>

\* A mutant of OnManifestCommandResponse: the manifest is not inserted.
OnManifestCommandResponseDropped(x) ==
  /\ Returning("find", x)
  /\ x.found
  /\ exch' = Replace("find", x, {})
  /\ UNCHANGED <<nodeVars, budget, history>>

\* The JSON of an empty answer does not parse, and the exception ends the
\* process.  (That of the manager, which would forget the ring, is left out.)
OnManifestCommandResponse(x) ==
  /\ Returning("find", x)
  /\ IF x.found
     THEN /\ store' = [store EXCEPT ![x.src] = @ \cup {x.manifest}]
          /\ exch' = Replace("find", x, {})
          /\ UNCHANGED <<config, version, file, range, from, to, mlist, budget,
                         history>>
     ELSE Exit(x.src)

\* A mutant of OnCompleteCommandResponse: the list is not filtered by the range.
OnCompleteCommandResponseAll(x) ==
  LET n == x.src
  IN  /\ Arriving("complete", x)
      /\ exch' = [Replace("complete", x, {}) EXCEPT !["only-delete-manifest"] =
                    @ \cup {DeleteManifest(n, from[n], m) : m \in mlist[n]}]
      /\ excused' = excused
      /\ UNCHANGED <<nodeVars, budget, published, asked>>

\* Delete what the last list has of the present range from the present m_from,
\* fetched or not.  handleCompleteCommand only replies, so that the round trip
\* is one step.
OnCompleteCommandResponse(x) ==
  LET n        == x.src
      selected == Selected(n, mlist[n])
  IN  /\ Arriving("complete", x)
      /\ exch' = [Replace("complete", x, {}) EXCEPT !["only-delete-manifest"] =
                    @ \cup {DeleteManifest(n, from[n], m) : m \in selected}]
      /\ excused' = excused \cup
                      {m \in selected : <<from[n], m>> \notin asked[n]}
      /\ UNCHANGED <<nodeVars, budget, published, asked>>

\* A mutant of HandleOnlyDeleteManifestCommand: the manifest stays.
HandleOnlyDeleteManifestCommandKeeping(x) ==
  /\ Arriving("only-delete-manifest", x)
  /\ Running(x.dst)
  /\ exch' = Answer("only-delete-manifest", x, x)
  /\ UNCHANGED <<nodeVars, budget, history>>

\* An orderly network does not let a delete overtake a find.
HandleOnlyDeleteManifestCommand(x) ==
  /\ Arriving("only-delete-manifest", x)
  /\ Running(x.dst)
  /\ Orderly => \A y \in exch["find"] : ~(y.src = x.src /\ y.manifest = x.manifest)
  /\ store' = [store EXCEPT ![x.dst] = @ \ {x.manifest}]
  /\ exch' = Answer("only-delete-manifest", x, x)
  /\ UNCHANGED <<config, version, file, range, from, to, mlist, budget, history>>

\* The answers of these three commands are logged only.
IgnoreResponse(c, x) ==
  /\ Returning(c, x)
  /\ exch' = Replace(c, x, {})
  /\ UNCHANGED <<nodeVars, budget, history>>

-----------------------------------------------------------------------------
(* Timeouts, and Nacks, which have the same callbacks.                     *)

\* The requester of x gives up and sends the requests xs of the same command:
\* the Interest or its answer is lost, or the Interest is only late.
GiveUp(c, x, xs) ==
  /\ budget.timeouts > 0
  /\ budget' = [budget EXCEPT !.timeouts = @ - 1]
  /\ x \in exch[c]
  /\ x.stage # "late"
  /\ \/ exch' = Replace(c, x, xs)
     \/ /\ x.stage = "interest"
        /\ exch' = Replace(c, x, xs \cup {[x EXCEPT !.stage = "late"]})
  /\ UNCHANGED nodeVars

\* The answer, or its absence, is only printed.
OnAddCommandTimeout(x) ==
  /\ budget.timeouts > 0
  /\ budget' = [budget EXCEPT !.timeouts = @ - 1]
  /\ exch' = Replace("add-node", x, {})
  /\ UNCHANGED <<nodeVars, history>>

\* All nodes are told again, under the present version.
OnVersionCommandTimeout(x) ==
  /\ GiveUp("ver", x, VersionCommands(file[Manager], version[Manager]))
  /\ UNCHANGED history

\* A mutant of OnFetchCommandTimeout: the fetch is not repeated.
OnFetchCommandTimeoutOnce(x) ==
  /\ GiveUp("fetch", x, {})
  /\ UNCHANGED history

\* The same version is asked for again.
OnFetchCommandTimeout(x) ==
  /\ GiveUp("fetch", x, {Fetch(x.src, x.version)})
  /\ UNCHANGED history

\* The present m_to is coordinated, from the present m_from.
OnCoordinationCommandTimeout(x) ==
  /\ GiveUp("coordination", x, {Coordination(to, from[Manager])})
  /\ UNCHANGED history

\* The present m_from is asked.
OnManifestListCommandTimeout(x) ==
  /\ GiveUp("manifestlist", x, {ManifestListOf(x.src, from[x.src])})
  /\ UNCHANGED history

\* These three are not retried.
OnManifestCommandTimeout(x) ==
  /\ ~Orderly
  /\ GiveUp("find", x, {})
  /\ excused' = excused \cup {x.manifest}
  /\ UNCHANGED <<published, asked>>

OnCompleteCommandTimeout(x) ==
  /\ budget.timeouts > 0
  /\ budget' = [budget EXCEPT !.timeouts = @ - 1]
  /\ exch' = Replace("complete", x, {})
  /\ UNCHANGED <<nodeVars, history>>

OnDeleteManifestCommandTimeout(x) ==
  /\ GiveUp("only-delete-manifest", x, {})
  /\ UNCHANGED history

-----------------------------------------------------------------------------

Operate ==
  \E f, t \in Node : Start(t, f) \/ HandleDeleteCommand(f, t)

Deliver ==
  \/ \E x \in exch["add-node"] : HandleAddCommand(x)
  \/ \E x \in exch["ver"] : HandleVersionCommand(x) \/ IgnoreResponse("ver", x)
  \/ \E x \in exch["fetch"] : HandleFetchCommand(x) \/ OnFetchCommandResponse(x)
  \/ \E x \in exch["coordination"] :
       HandleCoordinationCommand(x) \/ IgnoreResponse("coordination", x)
  \/ \E x \in exch["manifestlist"] :
       HandleManifestListCommand(x) \/ OnManifestListCommandResponse(x)
  \/ \E x \in exch["find"] : HandleFindCommand(x) \/ OnManifestCommandResponse(x)
  \/ \E x \in exch["complete"] :
       OnCompleteCommandResponse(x)
  \/ \E x \in exch["only-delete-manifest"] :
       \/ HandleOnlyDeleteManifestCommand(x)
       \/ IgnoreResponse("only-delete-manifest", x)

Timeout ==
  \/ \E x \in exch["add-node"] : OnAddCommandTimeout(x)
  \/ \E x \in exch["ver"] : OnVersionCommandTimeout(x)
  \/ \E x \in exch["fetch"] : OnFetchCommandTimeout(x)
  \/ \E x \in exch["coordination"] : OnCoordinationCommandTimeout(x)
  \/ \E x \in exch["manifestlist"] : OnManifestListCommandTimeout(x)
  \/ \E x \in exch["find"] : OnManifestCommandTimeout(x)
  \/ \E x \in exch["complete"] : OnCompleteCommandTimeout(x)
  \/ \E x \in exch["only-delete-manifest"] : OnDeleteManifestCommandTimeout(x)

Next == Operate \/ Deliver \/ Timeout \/ \E n \in Node : Restart(n)

Spec == Init /\ [][Next]_vars

\* What is under way arrives in the end.
FairSpec == Spec /\ WF_vars(Deliver)

-----------------------------------------------------------------------------
(* Properties.                                                             *)

\* The version names the ring: whatever Interests and answers are delayed, lost
\* or overtaken, a node that reports a version has the file the manager
\* published under it, so that two nodes at the same version route alike.
VersionNamesRing ==
  \A n \in Node : version[n] # Unset => file[n] = published[version[n]]

\* The manager's file, whatever the network does and however often nodes
\* restart, is edited as KeySpaceRing says and by the commands only, one version
\* per edit.
EditsTheRing == Ring!AnySpec

\* In an orderly cluster the edits keep to the operator's rules, so that all that
\* KeySpaceRing promises of those holds.
FollowsTheRules == Ring!Spec

\* A manifest that no node stores any more and no find is bringing is one whose
\* migration visibly went wrong: its find timed out, its requester restarted,
\* or a node had it deleted at the source though its last list had not made it
\* ask for it.  The delete that onCompleteCommandResponse sends before the finds
\* are answered is never the only cause.
LossHasCause ==
  \A m \in Manifest :
    \/ \E n \in Node : m \in store[n]
    \/ \E x \in exch["find"] : x.manifest = m /\ x.stage # "late"
    \/ m \in excused

\* In an orderly cluster no manifest is ever without a copy on some disk.
NothingLost == \A m \in Manifest : \E n \in Node : m \in store[n]

\* Once an orderly cluster has come to rest, a manifest is stored where a
\* lookup with the manager's file looks for it, unless its key has one digit
\* (which the unpadded prefix test never selects).
Settled ==
  Quiet => \A m \in Manifest :
    Hash[m] >= Base => m \in store[GetManifestStorage(file[Manager], Hash[m])]

\* Once an orderly cluster has come to rest, all members but the manager have
\* the manager's file, under its version.
RingSpread ==
  Quiet => \A n \in Members(file[Manager]) : version[n] = version[Manager]
                                             /\ file[n] = file[Manager]

\* An orderly cluster does come to rest after an operator's command, losses or
\* not: retries end.
ComesToRest == []<>Quiet

=============================================================================
