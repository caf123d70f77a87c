----------------------------- MODULE CommandFlow -----------------------------
(***************************************************************************)
(* Puts, gets and deletes of MANY names, as the commands that they send    *)
(* and the fields that these carry: which node is asked, by which name,    *)
(* hash and process id an answer, a manifest or a segment is found again.  *)
(*                                                                         *)
(* FileStore has one name and follows it through losses and restarts.      *)
(* Here nothing is lost, but names, nodes and process tables are many, and *)
(* every command is encoded and decoded.  The ring is at rest.             *)
(***************************************************************************)
EXTENDS RepoCommand, Manifest, Integers, FiniteSets

CONSTANTS Node, Put, Get, Delete,
          Nothing,    \* no content, no answer
          NameOf,     \* the name that each client is run for
          Via,        \* the node that its commands reach
          Owner,      \* the node whose key range has the hash of a URI
          Sizes,      \* the numbers of segments that the puts may have, as functions
          Word,       \* the number of values of a SegmentNo (2^64 in the code)
          MaxClients, \* bound on the clients that run at the same time
          MaxStarts   \* bound on the clients that are run at all

Client == Put \cup Get \cup Delete

ASSUME ClientsAssumption ==
  /\ Put \cap Get = {} /\ Put \cap Delete = {} /\ Get \cap Delete = {}
  /\ Nothing \notin Client
  /\ Via \in [Client -> Node]
  /\ Word \in Nat \ {0}
  /\ Sizes \subseteq [Put -> 0 .. Word - 1]
  /\ {MaxClients, MaxStarts} \subseteq Nat

VARIABLES segments,    \* the number of each put's segments: none of an empty file
          client,      \* the clients
          mail,        \* what is under way between processes
          writes,      \* writes[n]: m_processes of WriteHandle at node n
          deletes,     \* deletes[n]: m_processes of DeleteHandle, for the commands of
                       \* clients and for those of nodes
          manifests,   \* manifests[n]: the manifest files of n, by their names
          data,        \* data[n]: the segment files of n, by name and number
          stuck,       \* the nodes that do not return from a handler
          meant        \* history: what a delete found when it began

diskVars == <<manifests, data>>

vars == <<segments, client, mail, writes, deletes, diskVars, stuck, meant>>

\* An Interest or an answer on behalf of a client: to is the node that handles it,
\* body what it carries, bound what the callback that handles an answer was bound to.
Message(verb, c, n, body, bound) ==
  [verb |-> verb, by |-> c, to |-> n, body |-> body, bound |-> bound]

Command(verb, c, n, parameters, bound) ==
  Message(verb, c, n, Encode(parameters), bound)

\* m is handled, and then sent what is in S.
Handle(m, S) == mail' = (mail \ {m}) \cup S

\* An int that is assigned to a SegmentNo.
SegmentNo(i) == i % Word

\* The ids that are drawn at random are told apart by what they are drawn for; an
\* id that nobody has drawn is all that can be said of an uninitialised one.
Drawn(verb, c) == <<verb, c>>
Uninitialised == <<"uninitialised", Nothing>>

\* The 0 that every client sends as the process id of a delete.
Zero == <<"zero", Nothing>>

\* "/" + at(-1), and the file name of a hash.
Key(name) == <<name[Len(name)]>>
HashName(uri) == <<GetHash(uri)>>

\* Every hash has an owner: those of the names, and of their last components.
ASSUME OwnerAssumption ==
  \A c \in Client : {Owner[Key(NameOf[c])], Owner[NameOf[c]]} \subseteq Node

Stored(n, hash) == IF hash \in DOMAIN manifests[n] THEN manifests[n][hash] ELSE Nothing

\* A function with one more value, or without some.
With(f, x, y) == [z \in DOMAIN f \cup {x} |-> IF z = x THEN y ELSE f[z]]
But(f, S) == [z \in DOMAIN f \ S |-> f[z]]

Empty == [z \in {} |-> Nothing]

Running == {c \in Client : client[c].at \in {"asking", "checking"}}

TypeOK ==
  /\ segments \in Sizes
  /\ client \in [Client -> [at : {"idle", "asking", "checking", "done", "failed"},
                            id : {Nothing} \cup ({"insert"} \X Put),
                            content : Put \cup {Nothing}]]
  /\ \A m \in mail : m.by \in Client /\ m.to \in Node
  /\ \A n \in Node :
       /\ DOMAIN writes[n] \subseteq {"insert"} \X Put
       /\ \A id \in DOMAIN deletes[n] :
            \/ id = Zero /\ deletes[n][id] \in [by : Delete, hash : {Nothing}]
            \/ \E d \in Delete :
                 /\ id = Drawn("delete-manifest", d)
                 /\ deletes[n][id] \in [by : {d}, hash : {Nothing, GetHash(NameOf[d])}]
       /\ \A h \in DOMAIN manifests[n] : HashOf(FromJson(manifests[n][h])) = h
       /\ \A x \in DOMAIN data[n] : data[n][x] \in Put
  /\ stuck \subseteq Node
  /\ meant \in [Delete -> Put \cup {Nothing}]

Init ==
  /\ segments \in Sizes
  /\ client = [c \in Client |-> [at |-> "idle", id |-> Nothing, content |-> Nothing]]
  /\ mail = {}
  /\ writes = [n \in Node |-> Empty]
  /\ deletes = [n \in Node |-> Empty]
  /\ manifests = [n \in Node |-> Empty]
  /\ data = [n \in Node |-> Empty]
  /\ stuck = {}
  /\ meant = [d \in Delete |-> Nothing]

\* What a reader of a name prints: the put whose segments, all of them, it gets from
\* the node and under the name that the manifest of the name's hash has.
ReadBy(json) ==
  IF json = Nothing THEN Nothing
  ELSE LET m     == FromJson(json)
           there == data[m.repos[1].name]
           first == <<m.name, 0>>
       IN  IF /\ first \in DOMAIN there
              /\ \A s \in 0 .. segments[there[first]] - 1 :
                   <<m.name, s>> \in DOMAIN there /\ there[<<m.name, s>>] = there[first]
           THEN there[first] ELSE Nothing

ReadableOf(name) == ReadBy(Stored(Owner[name], GetHash(name)))

-----------------------------------------------------------------------------
(* Putting: insert.                                                        *)

PutFileStartInsertCommand(p) ==
  /\ client[p].at = "idle"
  /\ client' = [client EXCEPT ![p].at = "asking"]
  /\ mail' = mail \cup {Command("insert", p, Via[p], [Name |-> NameOf[p]], Nothing)}
  /\ UNCHANGED <<writes, deletes, diskVars, meant>>

HandleInsertCommand(m) ==
  LET parameters == Decode(m.body)
      key        == Key(parameters.Name)
  IN  /\ m.verb = "insert"
      /\ ValidateRequest("insert", parameters)
      /\ Handle(m, {Command("find", m.by, Owner[key],
                            [Name |-> HashName(key), ProcessId |-> Uninitialised],
                            [at |-> m.to, parameters |-> parameters])})
      /\ UNCHANGED <<client, writes, deletes, diskVars, meant>>

\* The manifest of that hash, for whoever has asked.
HandleFindCommand(m) ==
  /\ m.verb = "find"
  /\ Handle(m, {Message("found", m.by, m.bound.at,
                        Stored(m.to, Decode(m.body).Name[1]), m.bound)})
  /\ UNCHANGED <<client, writes, deletes, diskVars, meant>>

\* A process is made and answered, and the client is asked for the file's info.
OnFindResponse(m) ==
  LET id == Drawn("insert", m.by)
  IN  /\ m.verb = "found"
      /\ m.by \in Put
      /\ IF m.body # Nothing
         THEN /\ Handle(m, {Message("inserted", m.by, m.to,
                                    EncodeResponse([StatusCode |-> 403]), Nothing)})
              /\ UNCHANGED writes
         ELSE /\ Handle(m, {Message("inserted", m.by, m.to,
                                    EncodeResponse([StatusCode |-> 100, ProcessId |-> id,
                                                    InsertNum |-> 0]), Nothing),
                            Message("info", m.by, m.to,
                                    m.bound.parameters.Name, id)})
              /\ writes' = [writes EXCEPT ![m.to] =
                   With(@, id, [code |-> 300, count |-> 0, begun |-> FALSE,
                                manifest |-> Nothing])]
      /\ UNCHANGED <<client, deletes, diskVars, meant>>

OnInsertCommandResponse(m) ==
  LET response == DecodeResponse(m.body)
  IN  /\ m.verb = "inserted"
      /\ Handle(m, {})
      /\ client' = [client EXCEPT ![m.by] =
           IF m.by \notin Running THEN @
           ELSE IF response.StatusCode >= 400 THEN [@ EXCEPT !.at = "failed"]
           ELSE [@ EXCEPT !.at = "checking", !.id = response.ProcessId]]
      /\ UNCHANGED <<writes, deletes, diskVars, meant>>

-----------------------------------------------------------------------------
(* Putting: info, manifest, segments.                                      *)

\* The manifest of a file of which the client's info has come to node n: its name is
\* what follows the last "/".
ManifestOf(info, n) ==
  AppendRepo(NewManifest(Key(info.name), info.start, info.end), n, info.start, info.end)

\* "Nothing" is not the text of a manifest, nor a hash.
ASSUME NothingAssumption ==
  \A p \in Put :
    /\ GetHash(Key(NameOf[p])) # Nothing
    /\ \A n \in Node, last \in -1 .. Word - 2 :
         ToJson(ManifestOf(NewManifest(NameOf[p], 0, last), n)) # Nothing

\* The client's info comes, with the segments' number: the manifest is kept for
\* write-info and announced to its owner, and the segments are asked for.
OnDataValidated(m) ==
  LET name     == m.body
      info     == FromInfoJson(ToInfoJson(NewManifest(name, 0, segments[m.by] - 1)))
      manifest == ManifestOf(info, m.to)
  IN  /\ m.verb = "info"
      /\ writes' = [writes EXCEPT ![m.to][m.bound] =
                      [@ EXCEPT !.manifest = manifest, !.begun = TRUE]]
      /\ Handle(m,
           {Command("create", m.by, Owner[HashOf(manifest).hashOf],
                    [Name |-> <<HashOf(manifest)>>, ClusterPrefix |-> m.to,
                     ProcessId |-> m.bound], Nothing)}
           \cup {Message("segment", m.by, m.to, <<info.name, s>>, m.bound)
                   : s \in {0} \cup 0 .. info.end})
      /\ UNCHANGED <<client, deletes, diskVars, meant>>

\* The client has gone before it has answered: the process is forgotten.
OnTimeout(m) ==
  /\ m.verb = "info"
  /\ m.by \notin Running
  /\ writes' = [writes EXCEPT ![m.to] = But(@, {m.bound})]
  /\ Handle(m, {})
  /\ UNCHANGED <<client, deletes, diskVars, meant>>

\* A client that has prepared no segment is asked for one, and ends over the first
\* element of an empty vector; or it has ended before, and does not answer.
OnPutFileInterest(m) ==
  /\ m.verb = "segment"
  /\ segments[m.by] = 0
  /\ client' = [client EXCEPT ![m.by].at = IF m.by \in Running THEN "failed" ELSE @]
  /\ Handle(m, {})
  /\ UNCHANGED <<writes, deletes, diskVars, meant>>

\* A mutant of OnSegmentData: a segment is stored under the name of the manifest.
OnSegmentDataByKey(m) ==
  /\ m.verb = "segment"
  /\ segments[m.by] > 0
  /\ data' = [data EXCEPT ![m.to] = With(@, <<Key(m.body[1]), m.body[2]>>, m.by)]
  /\ writes' = [writes EXCEPT ![m.to][m.bound].count = @ + 1]
  /\ Handle(m, {})
  /\ UNCHANGED <<client, deletes, manifests, meant>>

\* A segment comes and is stored under its own name.
OnSegmentData(m) ==
  /\ m.verb = "segment"
  /\ segments[m.by] > 0
  /\ data' = [data EXCEPT ![m.to] = With(@, m.body, m.by)]
  /\ writes' = [writes EXCEPT ![m.to][m.bound].count = @ + 1]
  /\ Handle(m, {})
  /\ UNCHANGED <<client, deletes, manifests, meant>>

\* A mutant of HandleCreateCommand: the manifest node asks itself.
HandleCreateCommandSelf(m) ==
  LET parameters == Decode(m.body)
  IN  /\ m.verb = "create"
      /\ Handle(m, {Command("write-info", m.by, m.to,
                            [Name |-> parameters.Name, ProcessId |-> parameters.ProcessId],
                            m.to)})
      /\ UNCHANGED <<client, writes, deletes, diskVars, meant>>

HandleCreateCommand(m) ==
  LET parameters == Decode(m.body)
  IN  /\ m.verb = "create"
      /\ Handle(m, {Command("write-info", m.by, parameters.ClusterPrefix,
                            [Name |-> parameters.Name, ProcessId |-> parameters.ProcessId],
                            m.to)})
      /\ UNCHANGED <<client, writes, deletes, diskVars, meant>>

\* A process that is not there is not answered for.
HandleInfoCommand(m) ==
  LET id == Decode(m.body).ProcessId
  IN  /\ m.verb = "write-info"
      /\ Handle(m, {Message("manifest", m.by, m.bound, ToJson(writes[m.to][x].manifest),
                            Nothing) : x \in DOMAIN writes[m.to] \cap {id}})
      /\ UNCHANGED <<client, writes, deletes, diskVars, meant>>

OnManifestData(m) ==
  LET manifest == FromJson(m.body)
  IN  /\ m.verb = "manifest"
      /\ manifests' = [manifests EXCEPT ![m.to] =
                         With(@, HashOf(manifest), ToJson(manifest))]
      /\ Handle(m, {})
      /\ UNCHANGED <<client, writes, deletes, data, meant>>

-----------------------------------------------------------------------------
(* Putting: insert check.                                                  *)

PutFileStartCheckCommand(p) ==
  /\ client[p].at = "checking"
  /\ client' = [client EXCEPT ![p].at = "asking"]
  /\ mail' = mail \cup {Command("insert check", p, Via[p],
                                [Name |-> NameOf[p], ProcessId |-> client[p].id], Nothing)}
  /\ UNCHANGED <<writes, deletes, diskVars, meant>>

\* A process that has not begun to fetch is told to be past its time, but answers
\* its first encoding as long as it has counted nothing (see WriteHandle).
HandleCheckCommand(m) ==
  LET parameters == Decode(m.body)
      id         == parameters.ProcessId
      process    == writes[m.to][id]
      code       == IF process.begun THEN process.code ELSE 405
  IN  /\ m.verb = "insert check"
      /\ ValidateRequest("insert check", parameters)
      /\ id \in DOMAIN writes[m.to]
      /\ writes' = [writes EXCEPT ![m.to][id].code = code]
      /\ Handle(m, {Message("checked", m.by, m.to,
                      EncodeResponse([ProcessId |-> id, InsertNum |-> process.count,
                        StatusCode |-> IF process.count = 0 THEN 100 ELSE code]), Nothing)})
      /\ UNCHANGED <<client, deletes, diskVars, meant>>

OnCheckCommandResponse(m) ==
  LET response == DecodeResponse(m.body)
  IN  /\ m.verb = "checked"
      /\ Handle(m, {})
      /\ client' = [client EXCEPT ![m.by].at =
                      IF m.by \notin Running THEN @
                      ELSE IF response.StatusCode >= 400 THEN "failed"
                      ELSE IF response.InsertNum = segments[m.by] THEN "done"
                      ELSE "checking"]
      /\ UNCHANGED <<writes, deletes, diskVars, meant>>

-----------------------------------------------------------------------------
(* Getting.                                                                *)

GetFile(g) ==
  /\ client[g].at = "idle"
  /\ client' = [client EXCEPT ![g].at = "asking"]
  /\ mail' = mail \cup {Command("get", g, Via[g], [Name |-> NameOf[g]], Nothing)}
  /\ UNCHANGED <<writes, deletes, diskVars, meant>>

OnGetInterest(m) ==
  LET name == Decode(m.body).Name
  IN  /\ m.verb = "get"
      /\ Handle(m, {Command("find", m.by, Owner[name],
                            [Name |-> HashName(name), ProcessId |-> Drawn("get", m.by)],
                            [at |-> m.to])})
      /\ UNCHANGED <<client, writes, deletes, diskVars, meant>>

\* The answer is passed on; the client fetches, all segments in one step here
\* (ReadHandle has them one by one), and prints what it gets if that is whole.
OnGetCommandResponse(m) ==
  /\ m.verb = "found"
  /\ m.by \in Get
  /\ Handle(m, {})
  /\ client' = [client EXCEPT ![m.by] =
       IF ReadBy(m.body) = Nothing THEN [@ EXCEPT !.at = "failed"]
       ELSE [@ EXCEPT !.at = "done", !.content = ReadBy(m.body)]]
  /\ UNCHANGED <<writes, deletes, diskVars, meant>>

-----------------------------------------------------------------------------
(* Deleting.                                                               *)

\* A mutant of DeleteFields: the process id is left out.
DeleteFieldsNoId(d) == [Name |-> NameOf[d]]

\* Every client sends the same process id.
DeleteFields(d) == [Name |-> NameOf[d], ProcessId |-> Zero]

DeleteFile(d) ==
  /\ client[d].at = "idle"
  /\ client' = [client EXCEPT ![d].at = "asking"]
  /\ mail' = mail \cup {Command("delete", d, Via[d], DeleteFields(d), Nothing)}
  /\ meant' = [meant EXCEPT ![d] = ReadableOf(NameOf[d])]
  /\ UNCHANGED <<writes, deletes, diskVars>>

\* m_processes[id]: a process that is not there names no Interest and no hash.
Process(n, id) ==
  IF id \in DOMAIN deletes[n] THEN deletes[n][id] ELSE [by |-> Nothing, hash |-> Nothing]

\* The Interest is kept under the id of the command, over that of another client that
\* has asked the same node.
HandleDeleteCommand(m) ==
  LET parameters == Decode(m.body)
      name       == parameters.Name
      id         == parameters.ProcessId
  IN  /\ m.verb = "delete"
      /\ ValidateRequest("delete", parameters)
      /\ deletes' = [deletes EXCEPT ![m.to] =
                       With(@, id, [Process(m.to, id) EXCEPT !.by = m.by])]
      /\ Handle(m, {Command("delete-manifest", m.by, Owner[name],
                            [Name |-> HashName(name), ProcessId |-> id], Nothing)})
      /\ UNCHANGED <<client, writes, diskVars, meant>>

\* The answer to delete-manifest comes to the node that the client asked, where it is
\* awaited under the client's id.
Deleted(d, code) ==
  Message("deleted", d, Via[d], EncodeResponse([StatusCode |-> code]), Zero)

\* A mutant of DeleteData: the end block is taken for a number of blocks.
DeleteDataBefore(m, id, manifest) ==
  LET repo == manifest.repos[1]
  IN  Command("delete-data", m.by, repo.name,
              [Name |-> manifest.name, StartBlockId |-> SegmentNo(repo.start),
               EndBlockId |-> SegmentNo(repo.end - 1),
               ProcessId |-> Drawn("delete-data", m.by)],
              [at |-> m.to, id |-> id])

\* The segments are erased at the one node that the manifest names.
DeleteData(m, id, manifest) ==
  LET repo == manifest.repos[1]
  IN  Command("delete-data", m.by, repo.name,
              [Name |-> manifest.name, StartBlockId |-> SegmentNo(repo.start),
               EndBlockId |-> SegmentNo(repo.end),
               ProcessId |-> Drawn("delete-data", m.by)],
              [at |-> m.to, id |-> id])

\* A mutant of DeleteId: the id that the command brings.
DeleteIdOfCommand(m) == Decode(m.body).ProcessId

\* The manifest node draws an id for its process, whatever the command brings.
DeleteId(m) == Drawn("delete-manifest", m.by)

\* The process is made before the manifest is looked for, and stays if there is none.
HandleDeleteManifestCommand(m) ==
  LET hash == Decode(m.body).Name[1]
      id   == DeleteId(m)
      json == Stored(m.to, hash)
  IN  /\ m.verb = "delete-manifest"
      /\ deletes' = [deletes EXCEPT ![m.to] =
           With(@, id, [by |-> m.by, hash |-> IF json = Nothing THEN Nothing ELSE hash])]
      /\ Handle(m, IF json = Nothing THEN {Deleted(m.by, 405)}
                   ELSE {DeleteData(m, id, FromJson(json))})
      /\ UNCHANGED <<client, writes, diskVars, meant>>

\* "for (i = start; i <= end; ++i)" does not end when end is the largest value.
HandleDeleteDataCommand(m) ==
  LET parameters == Decode(m.body)
      range      == parameters.StartBlockId .. parameters.EndBlockId
      endless    == parameters.EndBlockId = Word - 1
  IN  /\ m.verb = "delete-data"
      /\ data' = [data EXCEPT ![m.to] = But(@, {parameters.Name} \X range)]
      /\ Handle(m, IF endless THEN {}
                   ELSE {Message("data deleted", m.by, m.bound.at,
                                 EncodeResponse([StatusCode |-> 200]), m.bound.id)})
      /\ stuck' = IF endless THEN stuck \cup {m.to} ELSE stuck
      /\ UNCHANGED <<client, writes, deletes, manifests, meant>>

\* A process that is gone is made anew, and names no hash and no Interest.
OnDeleteDataCommandResponse(m) ==
  /\ m.verb = "data deleted"
  /\ IF m.bound \in DOMAIN deletes[m.to]
     THEN LET process == deletes[m.to][m.bound]
          IN  /\ Handle(m, {Deleted(process.by, 200)})
              /\ manifests' = [manifests EXCEPT ![m.to] = But(@, {process.hash})]
     ELSE Handle(m, {}) /\ UNCHANGED manifests
  /\ deletes' = [deletes EXCEPT ![m.to] = But(@, {m.bound})]
  /\ UNCHANGED <<client, writes, data, meant>>

\* The node that the client asked passes the answer on, and forgets whatever process
\* has the id.
OnDeleteCommandResponse(m) ==
  /\ m.verb = "deleted"
  /\ Handle(m, {})
  /\ client' = [client EXCEPT ![m.by].at =
                  IF DecodeResponse(m.body).StatusCode = 200 THEN "done" ELSE "failed"]
  /\ deletes' = [deletes EXCEPT ![m.to] = But(@, {m.bound})]
  /\ UNCHANGED <<writes, diskVars, meant>>

-----------------------------------------------------------------------------

Start ==
  /\ Cardinality(Running) < MaxClients
  /\ Cardinality({c \in Client : client[c].at # "idle"}) < MaxStarts
  /\ \/ \E p \in Put : PutFileStartInsertCommand(p)
     \/ \E g \in Get : GetFile(g)
     \/ \E d \in Delete : DeleteFile(d)

\* The process that handles m has stopped in another handler.
Unheard(m) == m.verb \notin {"inserted", "checked"} /\ m.to \in stuck

Respond(m) ==
  \/ HandleInsertCommand(m)
  \/ HandleFindCommand(m)
  \/ OnFindResponse(m)
  \/ OnInsertCommandResponse(m)
  \/ OnDataValidated(m)
  \/ OnTimeout(m)
  \/ OnPutFileInterest(m)
  \/ OnSegmentData(m)
  \/ HandleCreateCommand(m)
  \/ HandleInfoCommand(m)
  \/ OnManifestData(m)
  \/ HandleCheckCommand(m)
  \/ OnCheckCommandResponse(m)
  \/ OnGetInterest(m)
  \/ OnGetCommandResponse(m)
  \/ HandleDeleteCommand(m)
  \/ HandleDeleteManifestCommand(m)
  \/ OnDeleteDataCommandResponse(m)
  \/ OnDeleteCommandResponse(m)

\* A message that nobody hears waits for ever.
Deliver(m) ==
  /\ ~Unheard(m)
  /\ \/ Respond(m) /\ UNCHANGED stuck
     \/ HandleDeleteDataCommand(m)

Next ==
  /\ \/ Start /\ UNCHANGED stuck
     \/ \E p \in Put : PutFileStartCheckCommand(p) /\ UNCHANGED stuck
     \/ \E m \in mail : Deliver(m)
  /\ UNCHANGED segments

Spec == Init /\ [][Next]_vars

-----------------------------------------------------------------------------
(* Properties.                                                             *)

IsCommand(m) == m.verb \in {"insert", "find", "create", "write-info", "insert check",
                            "get", "delete", "delete-manifest", "delete-data"}

\* Every command has, on the wire, the fields that its handler reads without asking,
\* with ONE exception, and passes the validator of the dispatcher if it has one.  The
\* exception is the ProcessId of insert: its handler reads it (write-handle.cpp:92),
\* its validator forbids it, no client sends it, and so the getter's assertion
\* (repo-command-parameter.hpp:191) fails at every put in a build that has assertions.
CommandsFit ==
  \A m \in mail : IsCommand(m) =>
    /\ Reads(m.verb) \ DOMAIN Decode(m.body) =
         IF m.verb = "insert" THEN {"ProcessId"} ELSE {}
    /\ m.verb \in {"insert", "insert check", "delete"}
         => ValidateRequest(m.verb, Decode(m.body))

\* A get prints only what a put of that very name has written, although a node
\* looks for the manifest of an insert by the last component of its name and for
\* that of a get by the whole.
GetsItsName ==
  \A g \in Get : client[g].at = "done" => NameOf[client[g].content] = NameOf[g]

\* When a delete is confirmed, all is gone that a reader could get when it began,
\* manifest and segments, though deletes of other names are under way at the same
\* nodes and every client sends the process id 0.
DeletedIsGone ==
  \A d \in Delete : client[d].at = "done" /\ meant[d] # Nothing =>
    /\ ReadableOf(NameOf[d]) # meant[d]
    /\ \A n \in Node : \A x \in DOMAIN data[n] : data[n][x] # meant[d]

\* The loop of delete-data comes to an end for every file but an empty one, whose
\* end block -1 comes out of all its texts and types as the largest SegmentNo: a
\* node stands still only when such a file was put and its name is deleted.
StuckHasCause ==
  stuck # {} =>
    \E p \in Put, d \in Delete :
      /\ segments[p] = 0 /\ client[p].at # "idle"
      /\ Key(NameOf[p]) = NameOf[d] /\ client[d].at = "asking"

\* Clients that cannot do away with what p has stored: other puts of its last component
\* that no node has taken on, and deletes of it that have not begun or have failed.
\* Nothing is asked of clients of other last components, nor of deletes of other names
\* with that last component.
Alone(p) ==
  /\ \A q \in Put \ {p} : Key(NameOf[q]) = Key(NameOf[p]) =>
       Drawn("insert", q) \notin DOMAIN writes[Via[q]]
  /\ \A d \in Delete : NameOf[d] = Key(NameOf[p]) => client[d].at \in {"idle", "failed"}

\* Once all is quiet, the file of a put that reported success, is not empty and is alone
\* is stored: the manifest at the owner of the last component's hash and all segments at
\* the node that was asked.  It is what a reader gets if its name has one component; if
\* it has more, NO reader gets it, for a manifest is stored by the last component
\* (write-handle.cpp:86-88) and looked for by the whole name (read-handle.cpp:92).
KeptWhenAlone ==
  mail = {} => \A p \in Put :
    client[p].at = "done" /\ Alone(p) /\ segments[p] > 0 =>
      LET name == NameOf[p]
          key  == Key(name)
          info == NewManifest(name, 0, segments[p] - 1)
      IN  /\ Stored(Owner[key], GetHash(key)) = ToJson(ManifestOf(info, Via[p]))
          /\ \A s \in 0 .. segments[p] - 1 :
               <<name, s>> \in DOMAIN data[Via[p]] /\ data[Via[p]][<<name, s>>] = p
          /\ ReadableOf(name) = IF name = key THEN p ELSE Nothing

=============================================================================
