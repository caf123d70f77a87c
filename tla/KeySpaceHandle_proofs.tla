----------------------- MODULE KeySpaceHandle_proofs -----------------------
(***************************************************************************)
(* Proofs about the key space protocol, for every set of nodes, every      *)
(* number of edits, losses, delays and restarts.                           *)
(***************************************************************************)
EXTENDS KeySpaceHandle, KeySpaceFile_proofs

-----------------------------------------------------------------------------
(* The inductive invariant.                                                *)

\* The only entry for the manager is the first one: onVersionCommand, which skips
\* that entry, never tells the manager itself to fetch.
RingInv ==
  /\ Len(file[Manager]) >= 1
  /\ file[Manager][1].node = Manager
  /\ \A i \in 2 .. Len(file[Manager]) : file[Manager][i].node # Manager

\* What a version, a file and the history are, and that no node is ahead of
\* the manager.
NodeInv ==
  /\ version \in [Node -> Version \cup {Unset}]
  /\ version[Manager] \in Version
  /\ file \in [Node -> File]
  /\ published \in [Version -> File]
  /\ \A n \in Node : version[n] # Unset => version[n] <= version[Manager]
  /\ VersionNamesRing

\* The manager does not add itself.  Ver and fetch Interests are about published
\* versions, and a file on its way is the one that was published under the version
\* of its Interest.
AddOK(x) == x.src \in Node \ {Manager}

VerOK(x) ==
  /\ x \in [dst : Node \ {Manager}, version : Version, stage : Stage]
  /\ x.version <= version[Manager]

FetchOK(x) ==
  /\ x \in [src : Node \ {Manager}, version : Version, stage : Stage,
            content : File]
  /\ x.version <= version[Manager]
  /\ x.content = <<>> \/ x.content = published[x.version]

ExchInv ==
  /\ exch = [c \in Command |-> exch[c]]
  /\ \A x \in exch["add-node"] : AddOK(x)
  /\ \A x \in exch["ver"] : VerOK(x)
  /\ \A x \in exch["fetch"] : FetchOK(x)

IInv == RingInv /\ NodeInv /\ ExchInv

-----------------------------------------------------------------------------
(* Lemmas.                                                                 *)

\* The bounds are numbers.
LEMMA Bounds == MaxVersion \in Nat /\ MaxTimeouts \in Nat /\ MaxRestarts \in Nat
  BY BoundsAssumption

\* The entries of the manager's file name nodes.
LEMMA ManagerEntries ==
  ASSUME IInv
  PROVE  /\ file[Manager] \in File
         /\ \A j \in 1 .. Len(file[Manager]) : file[Manager][j].node \in Node
         /\ Members(file[Manager]) \subseteq Node
  <1>1. file[Manager] \in File
    BY ManagerAssumption DEF IInv, NodeInv
  <1>2. \A j \in DOMAIN file[Manager] : file[Manager][j] \in Entry
    BY <1>1 DEF File
  <1>3. DOMAIN file[Manager] = 1 .. Len(file[Manager])
    BY <1>1 DEF File
  <1> QED
    BY <1>1, <1>2, <1>3 DEF Entry, Members

\* Steps that publish nothing and change no node's file.
LEMMA Frame ==
  ASSUME IInv, UNCHANGED <<version, file, published>>,
         exch' = [c \in Command |-> exch'[c]],
         \A x \in exch'["add-node"] : AddOK(x),
         \A x \in exch'["ver"] : VerOK(x),
         \A x \in exch'["fetch"] : FetchOK(x)
  PROVE  IInv'
  <1>1. RingInv'
    BY DEF IInv, RingInv
  <1>2. NodeInv'
    BY DEF IInv, NodeInv, VersionNamesRing
  <1>3. ExchInv'
    BY DEF ExchInv, AddOK, VerOK, FetchOK
  <1> QED
    BY <1>1, <1>2, <1>3 DEF IInv

\* The same when these three kinds of exchanges are not touched.
LEMMA FrameExch ==
  ASSUME IInv, UNCHANGED <<version, file, published>>,
         exch' = [c \in Command |-> exch'[c]],
         exch'["add-node"] = exch["add-node"],
         exch'["ver"] = exch["ver"], exch'["fetch"] = exch["fetch"]
  PROVE  IInv'
  BY Frame DEF IInv, ExchInv

\* What Replace does to the other commands, and to the command itself.
LEMMA ReplaceShape ==
  ASSUME ExchInv, NEW c \in Command, NEW x, NEW xs
  PROVE  /\ Replace(c, x, xs) = [d \in Command |-> Replace(c, x, xs)[d]]
         /\ Replace(c, x, xs)[c] = (exch[c] \ {x}) \cup xs
         /\ \A d \in Command \ {c} : Replace(c, x, xs)[d] = exch[d]
  BY DEF ExchInv, Replace

\* An exchange whose answer is on its way.
Answered(y) == [y EXCEPT !.stage = "data"]

\* What Answer adds is the answered exchange.
LEMMA AnswerShape ==
  ASSUME ExchInv, NEW c \in Command, NEW x, NEW y
  PROVE  /\ Answer(c, x, y) = [d \in Command |-> Answer(c, x, y)[d]]
         /\ Answer(c, x, y)[c] \subseteq exch[c] \cup {Answered(y)}
         /\ \A d \in Command \ {c} : Answer(c, x, y)[d] = exch[d]
  <1> DEFINE xs == IF x.stage = "interest"
                      /\ (c \in AnswerLogged => budget.timeouts > 0)
                   THEN {Answered(y)} ELSE {}
  <1>1. Answer(c, x, y) = Replace(c, x, xs)
    BY DEF Answer, Answered
  <1>2. xs \subseteq {Answered(y)}
    OBVIOUS
  <1> HIDE DEF xs
  <1> QED
    BY <1>1, <1>2, ReplaceShape

\* The same with the requests sent along.
LEMMA AnswerAndSendShape ==
  ASSUME ExchInv, NEW c \in Command, NEW x, NEW y, NEW d \in Command, c # d, NEW xs,
         exch' = AnswerAndSend(c, x, y, d, xs)
  PROVE  /\ exch' = [b \in Command |-> exch'[b]]
         /\ exch'[c] \subseteq exch[c] \cup {Answered(y)}
         /\ exch'[d] = exch[d] \cup xs
         /\ \A b \in Command \ {c, d} : exch'[b] = exch[b]
  <1> DEFINE a == Answer(c, x, y)
             e == [a EXCEPT ![d] = @ \cup xs]
  <1>1. /\ a = [b \in Command |-> a[b]]
        /\ a[c] \subseteq exch[c] \cup {Answered(y)}
        /\ \A b \in Command \ {c} : a[b] = exch[b]
    BY AnswerShape
  <1> HIDE DEF a
  <1>2. e = [b \in Command |-> e[b]]
    BY <1>1
  <1>3. e[d] = a[d] \cup xs /\ \A b \in Command \ {d} : e[b] = a[b]
    BY <1>1
  <1>4. exch' = e
    BY DEF AnswerAndSend, a
  <1> HIDE DEF e
  <1> QED
    BY <1>1, <1>2, <1>3, <1>4

-----------------------------------------------------------------------------
(* The operator's commands.                                                *)

\* What a new file and a new version leave to show: the ring.
LEMMA PublishKeeps ==
  ASSUME IInv, NEW f \in File, NEW rest, Publish(f, rest),
         rest = [c \in Command |-> rest[c]],
         \A c \in {"add-node", "ver", "fetch"} : rest[c] \subseteq exch[c],
         RingInv'
  PROVE  IInv'
  <1> DEFINE v == version[Manager] + 1
  <1>1. /\ v \in Version /\ version[Manager] \in Version
        /\ version' = [version EXCEPT ![Manager] = v]
        /\ file' = [file EXCEPT ![Manager] = f]
        /\ published' = [published EXCEPT ![v] = f]
        /\ exch' = [rest EXCEPT !["ver"] = @ \cup VersionCommands(f, v)]
    BY Bounds DEF IInv, NodeInv, Publish, Version
  <1>2. version'[Manager] = v /\ file'[Manager] = f
    BY <1>1, ManagerAssumption DEF IInv, NodeInv
  <1>3. \A u \in Version : u <= version[Manager] => published'[u] = published[u]
    BY <1>1, Bounds DEF IInv, NodeInv, Version
  <1>4. published'[v] = f
    BY <1>1 DEF IInv, NodeInv
  <1>5. NodeInv'
    <2>1. version' \in [Node -> Version \cup {Unset}]
      BY <1>1 DEF IInv, NodeInv
    <2>2. file' \in [Node -> File] /\ published' \in [Version -> File]
      BY <1>1 DEF IInv, NodeInv
    <2>3. ASSUME NEW n \in Node, version'[n] # Unset
          PROVE  version'[n] <= version'[Manager] /\ file'[n] = published'[version'[n]]
      <3>1. CASE n = Manager
        BY <1>1, <1>2, <1>4, <3>1, Bounds DEF Version
      <3>2. CASE n # Manager
        <4>1. version'[n] = version[n] /\ file'[n] = file[n]
          BY <1>1, <3>2 DEF IInv, NodeInv
        <4>2. version[n] \in Version /\ version[n] <= version[Manager]
          BY <2>3, <4>1 DEF IInv, NodeInv
        <4>3. file[n] = published[version[n]]
          BY <2>3, <4>1 DEF IInv, NodeInv, VersionNamesRing
        <4> QED
          BY <1>1, <1>2, <1>3, <4>1, <4>2, <4>3, Bounds DEF Version
      <3> QED
        BY <3>1, <3>2
    <2> QED
      BY <1>1, <1>2, <2>1, <2>2, <2>3 DEF NodeInv, VersionNamesRing
  <1>6. ExchInv'
    <2>1. exch' = [c \in Command |-> exch'[c]]
      BY <1>1
    <2>2. /\ exch'["add-node"] \subseteq exch["add-node"]
          /\ exch'["ver"] \subseteq exch["ver"] \cup VersionCommands(f, v)
          /\ exch'["fetch"] \subseteq exch["fetch"]
      BY <1>1 DEF Command
    <2>3. ASSUME NEW x \in exch["add-node"]
          PROVE  AddOK(x)'
      BY DEF IInv, ExchInv, AddOK
    <2>4. ASSUME NEW x \in exch["ver"]
          PROVE  VerOK(x)'
      BY <1>1, <1>2, Bounds DEF IInv, ExchInv, VerOK, Version
    <2>5. ASSUME NEW x \in VersionCommands(f, v)
          PROVE  VerOK(x)'
      <3>1. PICK i \in 2 .. Len(f) : x = Ver(f[i].node, v)
        BY DEF VersionCommands
      <3>2. f[i].node # Manager
        BY <1>2 DEF RingInv
      <3>3. f \in Seq(Entry) /\ i \in DOMAIN f
        BY DEF File
      <3>4. f[i].node \in Node
        <4>1. f[i] \in Entry
          BY <3>3
        <4> QED
          BY <4>1 DEF Entry
      <3> QED
        BY <1>1, <1>2, <3>1, <3>2, <3>4, Bounds DEF VerOK, Ver, Version, Stage
    <2>6. ASSUME NEW x \in exch["fetch"]
          PROVE  FetchOK(x)'
      <3>1. FetchOK(x)
        BY DEF IInv, ExchInv
      <3>2. x.version \in Version /\ x.version <= version[Manager]
        BY <3>1 DEF FetchOK
      <3>3. published'[x.version] = published[x.version]
        BY <1>3, <3>2
      <3>4. x.version <= version'[Manager]
        BY <1>1, <1>2, <3>2, Bounds DEF Version
      <3> QED
        BY <3>1, <3>3, <3>4 DEF FetchOK
    <2> QED
      BY <2>1, <2>2, <2>3, <2>4, <2>5, <2>6 DEF ExchInv
  <1> QED
    BY <1>5, <1>6 DEF IInv

\* An add, of a member or not, twice or not, appends an entry or is rejected.
LEMMA AddKeeps ==
  ASSUME IInv, NEW x \in exch["add-node"], HandleAddCommand(x)
  PROVE  IInv'
  <1> DEFINE rest == Replace("add-node", x, {})
             ring == file[Manager]
             new == AddNode(ring, x.from, x.src)
  <1>1. ExchInv /\ AddOK(x) /\ {"add-node", "ver", "fetch"} \subseteq Command
    BY DEF IInv, ExchInv, Command
  <1>2. /\ rest = [c \in Command |-> rest[c]]
        /\ \A c \in {"add-node", "ver", "fetch"} : rest[c] \subseteq exch[c]
    BY <1>1, ReplaceShape
  <1>3. CASE x.from \notin Members(ring)
    <2>1. exch' = rest /\ UNCHANGED <<version, file, published>>
      BY <1>3 DEF HandleAddCommand
    <2> HIDE DEF rest
    <2> QED
      BY <1>1, <1>2, <2>1, Frame DEF ExchInv
  <1>4. CASE x.from \in Members(ring)
    <2>1. Publish(new, rest)
      BY <1>4 DEF HandleAddCommand
    <2>2. /\ new \in File
          /\ Len(new) = Len(ring) + 1
          /\ new[Len(new)].node = x.src
          /\ \A j \in 1 .. Len(ring) : new[j].node = ring[j].node
      BY <1>1, <1>4, ManagerEntries, AddNodeNodes DEF AddOK
    <2>3. file'[Manager] = new
      BY <2>1, ManagerAssumption DEF Publish, IInv, NodeInv
    <2> HIDE DEF new, rest
    <2>4. RingInv'
      <3>1. Len(ring) \in Nat /\ Len(ring) >= 1
        BY ManagerEntries DEF IInv, RingInv, File
      <3>2. \A j \in 2 .. Len(new) : new[j].node # Manager
        BY <1>1, <2>2, <3>1 DEF IInv, RingInv, AddOK
      <3> QED
        BY <2>2, <2>3, <3>1, <3>2 DEF IInv, RingInv
    <2> QED
      BY <1>2, <2>1, <2>2, <2>4, PublishKeeps
  <1> QED
    BY <1>3, <1>4

\* A delete of a node other than the manager keeps the first entry.
LEMMA DeleteKeeps ==
  ASSUME IInv, NEW f \in Node, NEW t \in Node, HandleDeleteCommand(f, t)
  PROVE  IInv'
  <1> DEFINE ring == file[Manager]
             new == DelNode(ring, f, t, [start |-> 0, end |-> 0])
             i == IndexOf(ring, f)
  <1>1. Publish(new, exch) /\ f # Manager /\ Ring!SafeDelete(f, t)
    BY DEF HandleDeleteCommand
  <1>2. f \in Members(ring)
    BY <1>1 DEF Ring!SafeDelete, Ring!Members, Members
  <1>3. /\ new \in File
        /\ Len(new) = Len(ring) - 1
        /\ \A j \in 1 .. Len(new) :
             new[j].node = ring[IF j < i THEN j ELSE j + 1].node
    BY <1>2, ManagerEntries, DelNodeNodes
  <1>4. i \in DOMAIN ring /\ ring[i].node = f
    BY <1>2, ManagerEntries, FirstEntry
  <1>5. file'[Manager] = new
    BY <1>1, ManagerAssumption DEF Publish, IInv, NodeInv
  <1>6. Len(ring) \in Nat /\ DOMAIN ring = 1 .. Len(ring)
    BY ManagerEntries DEF File
  <1> HIDE DEF new, i
  <1>7. i \in 2 .. Len(ring)
    BY <1>1, <1>4, <1>6 DEF IInv, RingInv
  <1>8. RingInv'
    <2>1. Len(new) >= 1 /\ new[1].node = Manager
      BY <1>3, <1>6, <1>7 DEF IInv, RingInv
    <2>2. ASSUME NEW j \in 2 .. Len(new)
          PROVE  new[j].node # Manager
      <3>1. j \in 1 .. Len(new) /\ j \in 2 .. Len(ring) /\ j + 1 \in 2 .. Len(ring)
        BY <1>3, <1>6
      <3>2. new[j].node = ring[j].node \/ new[j].node = ring[j + 1].node
        BY <1>3, <3>1
      <3> QED
        BY <3>1, <3>2 DEF IInv, RingInv
    <2> QED
      BY <1>5, <2>1, <2>2 DEF RingInv
  <1>9. /\ exch = [c \in Command |-> exch[c]]
        /\ \A c \in {"add-node", "ver", "fetch"} : exch[c] \subseteq exch[c]
    BY DEF IInv, ExchInv
  <1> QED
    BY <1>1, <1>3, <1>8, <1>9, PublishKeeps

\* A process other than the manager's starts.
LEMMA BootKeeps ==
  ASSUME IInv, NEW n \in Node \ {Manager}, NEW f, Boot(n, f)
  PROVE  IInv'
  <1>0. ExchInv /\ NodeInv
    BY DEF IInv
  <1>1. /\ version' = [version EXCEPT ![n] = Unset]
        /\ file' = [file EXCEPT ![n] = <<>>]
        /\ published' = published
        /\ exch' = [[c \in Command |-> Abandoned(c, n)] EXCEPT !["add-node"] =
                      @ \cup {Add(n, f, budget'.restarts)}]
    BY DEF Boot
  <1>2. version'[Manager] = version[Manager] /\ file'[Manager] = file[Manager]
    BY <1>0, <1>1, ManagerAssumption DEF NodeInv
  <1>3. RingInv'
    BY <1>2 DEF IInv, RingInv
  <1>4. NodeInv'
    <2>1. <<>> \in File
      BY DEF File
    <2>2. /\ version' \in [Node -> Version \cup {Unset}]
          /\ file' \in [Node -> File] /\ published' \in [Version -> File]
          /\ version'[Manager] \in Version
      BY <1>0, <1>1, <1>2, <2>1 DEF NodeInv
    <2>3. ASSUME NEW k \in Node, version'[k] # Unset
          PROVE  version'[k] = version[k] /\ file'[k] = file[k]
      BY <1>0, <1>1, <2>3 DEF NodeInv
    <2> QED
      BY <1>0, <1>1, <1>2, <2>2, <2>3 DEF NodeInv, VersionNamesRing
  <1>5. ExchInv'
    <2>1. {"add-node", "ver", "fetch"} \subseteq Command
      BY DEF Command
    <2>2. /\ exch' = [c \in Command |-> exch'[c]]
          /\ exch'["ver"] = Abandoned("ver", n)
          /\ exch'["fetch"] = Abandoned("fetch", n)
          /\ exch'["add-node"] =
               Abandoned("add-node", n) \cup {Add(n, f, budget'.restarts)}
      BY <1>1, <2>1
    <2>5. ASSUME NEW y \in exch'["add-node"]
          PROVE  AddOK(y)'
      <3>1. CASE y \in exch["add-node"]
        BY <1>0, <3>1 DEF ExchInv, AddOK
      <3>2. CASE y = Add(n, f, budget'.restarts)
        BY <3>2 DEF Add, AddOK
      <3> QED
        BY <2>2, <3>1, <3>2 DEF Abandoned
    <2>3. ASSUME NEW y \in exch'["ver"]
          PROVE  VerOK(y)'
      <3>1. y \in exch["ver"]
        BY <2>2 DEF Abandoned
      <3> QED
        BY <1>0, <1>2, <3>1 DEF ExchInv, VerOK
    <2>4. ASSUME NEW y \in exch'["fetch"]
          PROVE  FetchOK(y)'
      <3>1. y \in Abandoned("fetch", n)
        BY <2>2
      <3>2. PICK x \in exch["fetch"] : y = x \/ y = [x EXCEPT !.stage = "late"]
        BY <3>1 DEF Abandoned
      <3>3. FetchOK(x)
        BY <1>0 DEF ExchInv
      <3>4. FetchOK(y)
        BY <3>2, <3>3 DEF FetchOK, Stage
      <3> QED
        BY <1>1, <1>2, <3>4 DEF FetchOK
    <2> QED
      BY <2>2, <2>3, <2>4, <2>5 DEF ExchInv
  <1> QED
    BY <1>3, <1>4, <1>5 DEF IInv

\* A process ends and is started again.
LEMMA ExitKeeps ==
  ASSUME IInv, NEW n, Exit(n)
  PROVE  /\ IInv'
         /\ version'[Manager] = version[Manager] /\ file'[Manager] = file[Manager]
  <1>1. n \in Node \ {Manager} /\ Boot(n, config[n])
    BY DEF Exit
  <1>2. IInv'
    BY <1>1, BootKeeps
  <1>3. version' = [version EXCEPT ![n] = Unset] /\ file' = [file EXCEPT ![n] = <<>>]
    BY <1>1 DEF Boot
  <1> QED
    BY <1>1, <1>2, <1>3, ManagerAssumption DEF IInv, NodeInv

\* The handlers of the ring's Interests and answers.
LEMMA RingStepsKeep ==
  ASSUME IInv, NEW x,
         \/ x \in exch["ver"] /\ HandleVersionCommand(x)
         \/ x \in exch["fetch"] /\ HandleFetchCommand(x)
         \/ x \in exch["fetch"] /\ OnFetchCommandResponse(x)
  PROVE  IInv'
  <1>0. ExchInv
    BY DEF IInv
  <1>a. /\ {"add-node", "ver", "fetch", "coordination", "manifestlist"} \subseteq Command
        /\ "add-node" \notin {"ver", "fetch", "coordination"}
        /\ "ver" # "fetch" /\ "fetch" # "coordination" /\ "ver" # "coordination"
    BY DEF Command
  <1>1. CASE x \in exch["ver"] /\ HandleVersionCommand(x)
    <2> DEFINE xs == IF x.version # version[x.dst] THEN {Fetch(x.dst, x.version)}
                     ELSE {}
    <2>1. exch' = AnswerAndSend("ver", x, x, "fetch", xs)
          /\ UNCHANGED <<version, file, published>>
      BY <1>1 DEF HandleVersionCommand, nodeVars, history
    <2>2. VerOK(x)
      BY <1>0, <1>1 DEF ExchInv
    <2>3. \A y \in xs : FetchOK(y)
      <3>1. <<>> \in File
        BY DEF File
      <3> QED
        BY <2>2, <3>1 DEF FetchOK, Fetch, VerOK, Stage
    <2>4. VerOK(Answered(x))
      BY <2>2 DEF Answered, VerOK, Stage
    <2> HIDE DEF xs
    <2>5. /\ exch' = [b \in Command |-> exch'[b]]
          /\ exch'["ver"] \subseteq exch["ver"] \cup {Answered(x)}
          /\ exch'["fetch"] = exch["fetch"] \cup xs
          /\ exch'["add-node"] = exch["add-node"]
      <3>1. exch' = AnswerAndSend("ver", x, x, "fetch", xs)
        BY <2>1
      <3>2. "ver" \in Command /\ "fetch" \in Command /\ "ver" # "fetch"
        BY <1>a
      <3>7. "add-node" \in Command \ {"ver", "fetch"}
        BY <1>a
      <3>3. exch' = [b \in Command |-> exch'[b]]
        BY <1>0, <3>1, <3>2, AnswerAndSendShape
      <3>4. exch'["ver"] \subseteq exch["ver"] \cup {Answered(x)}
        BY <1>0, <3>1, <3>2, AnswerAndSendShape
      <3>5. exch'["fetch"] = exch["fetch"] \cup xs
        BY <1>0, <3>1, <3>2, AnswerAndSendShape
      <3>6. exch'["add-node"] = exch["add-node"]
        BY <1>0, <3>1, <3>2, <3>7, AnswerAndSendShape
      <3> QED
        BY <3>3, <3>4, <3>5, <3>6
    <2> QED
      BY <1>0, <2>1, <2>3, <2>4, <2>5, Frame DEF ExchInv
  <1>2. CASE x \in exch["fetch"] /\ HandleFetchCommand(x)
    <2> DEFINE content == IF x.version = version[Manager] THEN file[Manager] ELSE <<>>
               y == [x EXCEPT !.content = content]
               xs == {Coordination(to, from[Manager])}
    <2>1. exch' = AnswerAndSend("fetch", x, y, "coordination", xs)
          /\ UNCHANGED <<version, file, published>>
      BY <1>2 DEF HandleFetchCommand, nodeVars, history
    <2>2. FetchOK(x)
      BY <1>0, <1>2 DEF ExchInv
    <2>3. content \in File /\ (content = <<>> \/ content = published[x.version])
      <3>1. <<>> \in File
        BY DEF File
      <3>2. file[Manager] \in File
        BY ManagerAssumption DEF IInv, NodeInv
      <3>3. x.version = version[Manager] => file[Manager] = published[x.version]
        BY <2>2, ManagerAssumption, Bounds
           DEF IInv, NodeInv, VersionNamesRing, Version, Unset
      <3> QED
        BY <3>1, <3>2, <3>3
    <2> HIDE DEF content
    <2>4. FetchOK(Answered(y))
      BY <2>2, <2>3 DEF Answered, FetchOK, Stage
    <2> HIDE DEF y, xs
    <2>5. /\ exch' = [b \in Command |-> exch'[b]]
          /\ exch'["fetch"] \subseteq exch["fetch"] \cup {Answered(y)}
          /\ exch'["ver"] = exch["ver"]
          /\ exch'["add-node"] = exch["add-node"]
      BY <1>0, <1>a, <2>1, AnswerAndSendShape
    <2> QED
      BY <1>0, <2>1, <2>4, <2>5, Frame DEF ExchInv
  <1>3. CASE x \in exch["fetch"] /\ OnFetchCommandResponse(x)
    <2>1. FetchOK(x)
      BY <1>0, <1>3 DEF ExchInv
    <2>6. CASE Exit(x.src)
      BY <2>1, <2>6, ExitKeeps DEF FetchOK
    <2> SUFFICES ASSUME ~Exit(x.src)
                 PROVE  IInv'
      BY <2>6
    <2>2. exch' = Replace("fetch", x, {}) /\ published' = published
      BY <1>3 DEF OnFetchCommandResponse, history
    <2>3. /\ exch' = [b \in Command |-> exch'[b]]
          /\ exch'["fetch"] \subseteq exch["fetch"]
          /\ exch'["ver"] = exch["ver"]
          /\ exch'["add-node"] = exch["add-node"]
      BY <1>0, <1>a, <2>2, ReplaceShape
    <2>4. CASE x.content = <<>>
      <3>1. UNCHANGED <<version, file, published>>
        BY <1>3, <2>2, <2>4 DEF OnFetchCommandResponse
      <3> QED
        BY <1>0, <2>3, <3>1, Frame DEF ExchInv
    <2>5. CASE x.content # <<>>
      <3>1. /\ version' = [version EXCEPT ![x.src] = x.version]
            /\ file' = [file EXCEPT ![x.src] = x.content]
        BY <1>3, <2>5 DEF OnFetchCommandResponse
      <3>2. /\ x.src \in Node /\ x.src # Manager /\ x.version \in Version
            /\ x.version <= version[Manager] /\ x.content \in File
            /\ x.content = published[x.version]
        BY <2>1, <2>5 DEF FetchOK
      <3>3. version'[Manager] = version[Manager] /\ file'[Manager] = file[Manager]
        BY <3>1, <3>2, ManagerAssumption DEF IInv, NodeInv
      <3>4. RingInv'
        BY <3>3 DEF IInv, RingInv
      <3>5. NodeInv'
        <4>1. /\ version' \in [Node -> Version \cup {Unset}]
              /\ file' \in [Node -> File] /\ published' \in [Version -> File]
              /\ version'[Manager] \in Version
          BY <2>2, <3>1, <3>2, <3>3 DEF IInv, NodeInv
        <4>2. ASSUME NEW n \in Node, version'[n] # Unset
              PROVE  version'[n] <= version'[Manager]
                     /\ file'[n] = published'[version'[n]]
          <5>1. CASE n = x.src
            BY <2>2, <3>1, <3>2, <3>3, <5>1 DEF IInv, NodeInv
          <5>2. CASE n # x.src
            BY <2>2, <3>1, <3>3, <4>2, <5>2 DEF IInv, NodeInv, VersionNamesRing
          <5> QED
            BY <5>1, <5>2
        <4> QED
          BY <4>1, <4>2 DEF NodeInv, VersionNamesRing
      <3>6. ExchInv'
        BY <1>0, <2>2, <2>3, <3>3 DEF ExchInv, AddOK, VerOK, FetchOK
      <3> QED
        BY <3>4, <3>5, <3>6 DEF IInv
    <2> QED
      BY <2>4, <2>5
  <1> QED
    BY <1>1, <1>2, <1>3

\* The handlers of the migration's Interests and answers, but the exit of a
\* process.
LEMMA MigrationStepsKeep ==
  ASSUME IInv, NEW x,
         \/ HandleCoordinationCommand(x)
         \/ HandleManifestListCommand(x)
         \/ OnManifestListCommandResponse(x)
         \/ HandleFindCommand(x)
         \/ OnManifestCommandResponse(x) /\ x.found
         \/ OnCompleteCommandResponse(x)
         \/ HandleOnlyDeleteManifestCommand(x)
  PROVE  IInv'
  <1>0. ExchInv
    BY DEF IInv
  <1>a. /\ Command = {"add-node", "ver", "fetch", "coordination", "manifestlist",
                      "find", "complete", "only-delete-manifest"}
        /\ {"add-node", "ver", "fetch"}
              \subseteq Command \ {"coordination", "manifestlist"}
        /\ {"coordination", "manifestlist"} \subseteq Command
        /\ "coordination" # "manifestlist"
    BY DEF Command
  <1>1. CASE HandleCoordinationCommand(x)
    <2>1. /\ exch' = AnswerAndSend("coordination", x, x, "manifestlist",
                       {ManifestListOf(x.dst, x.from)})
          /\ UNCHANGED <<version, file, published>>
      BY <1>1 DEF HandleCoordinationCommand, history
    <2>2. /\ exch' = [b \in Command |-> exch'[b]]
          /\ \A b \in Command \ {"coordination", "manifestlist"} : exch'[b] = exch[b]
      BY <1>0, <1>a, <2>1, AnswerAndSendShape
    <2> QED
      BY <1>0, <1>a, <2>1, <2>2, FrameExch
  <1>2. CASE HandleManifestListCommand(x)
    <2>1. /\ exch' = Answer("manifestlist", x, [x EXCEPT !.content = store[x.dst]])
          /\ UNCHANGED <<version, file, published>>
      BY <1>2 DEF HandleManifestListCommand, nodeVars, history
    <2> QED
      BY <1>0, <1>a, <2>1, AnswerShape, FrameExch
  <1>3. CASE OnManifestListCommandResponse(x)
    <2> DEFINE r == Replace("manifestlist", x, {})
    <2>1. /\ r = [d \in Command |-> r[d]]
          /\ \A d \in {"add-node", "ver", "fetch"} : r[d] = exch[d]
      BY <1>0, <1>a, ReplaceShape
    <2> HIDE DEF r
    <2>2. /\ \E f, c : exch' = [r EXCEPT !["find"] = f, !["complete"] = c]
          /\ UNCHANGED <<version, file, published>>
      BY <1>3 DEF OnManifestListCommandResponse, r
    <2> QED
      BY <1>a, <2>1, <2>2, FrameExch
  <1>4. CASE HandleFindCommand(x)
    <2>1. /\ exch' = Answer("find", x, [x EXCEPT !.found = x.manifest \in store[x.dst]])
          /\ UNCHANGED <<version, file, published>>
      BY <1>4 DEF HandleFindCommand, nodeVars, history
    <2> QED
      BY <1>0, <1>a, <2>1, AnswerShape, FrameExch
  <1>5. CASE OnManifestCommandResponse(x) /\ x.found
    <2>1. exch' = Replace("find", x, {}) /\ UNCHANGED <<version, file, published>>
      BY <1>5 DEF OnManifestCommandResponse, history
    <2> QED
      BY <1>0, <1>a, <2>1, ReplaceShape, FrameExch
  <1>6. CASE OnCompleteCommandResponse(x)
    <2> DEFINE r == Replace("complete", x, {})
    <2>1. /\ r = [d \in Command |-> r[d]]
          /\ \A d \in {"add-node", "ver", "fetch"} : r[d] = exch[d]
      BY <1>0, <1>a, ReplaceShape
    <2> HIDE DEF r
    <2>2. /\ \E f : exch' = [r EXCEPT !["only-delete-manifest"] = f]
          /\ UNCHANGED <<version, file, published>>
      BY <1>6 DEF OnCompleteCommandResponse, nodeVars, r
    <2> QED
      BY <1>a, <2>1, <2>2, FrameExch
  <1>7. CASE HandleOnlyDeleteManifestCommand(x)
    <2>1. /\ exch' = Answer("only-delete-manifest", x, x)
          /\ UNCHANGED <<version, file, published>>
      BY <1>7 DEF HandleOnlyDeleteManifestCommand, history
    <2> QED
      BY <1>0, <1>a, <2>1, AnswerShape, FrameExch
  <1> QED
    BY <1>1, <1>2, <1>3, <1>4, <1>5, <1>6, <1>7


\* An answer of an ignored kind.
LEMMA IgnoreKeeps ==
  ASSUME IInv, NEW c \in {"ver", "coordination", "only-delete-manifest"}, NEW x,
         IgnoreResponse(c, x)
  PROVE  IInv'
  <1>0. ExchInv
    BY DEF IInv
  <1>1. /\ c \in Command /\ {"add-node", "ver", "fetch"} \subseteq Command
        /\ c \notin {"add-node", "fetch"}
    BY DEF Command
  <1>2. exch' = Replace(c, x, {}) /\ UNCHANGED <<version, file, published>>
    BY DEF IgnoreResponse, nodeVars, history
  <1>3. /\ exch' = [d \in Command |-> exch'[d]]
        /\ exch'[c] \subseteq exch[c]
        /\ \A d \in Command \ {c} : exch'[d] = exch[d]
    BY <1>0, <1>1, <1>2, ReplaceShape
  <1>4. /\ exch'["ver"] \subseteq exch["ver"]
        /\ exch'["fetch"] = exch["fetch"] /\ exch'["add-node"] = exch["add-node"]
    BY <1>1, <1>3
  <1> QED
    BY <1>0, <1>2, <1>3, <1>4, Frame DEF ExchInv

\* What giving up leaves of the exchanges: those of the command lose x and may
\* get it back as a late one.
LEMMA GiveUpShape ==
  ASSUME ExchInv, NEW c \in Command, NEW x, NEW xs, GiveUp(c, x, xs)
  PROVE  /\ UNCHANGED <<version, file>>
         /\ x \in exch[c]
         /\ exch' = [d \in Command |-> exch'[d]]
         /\ exch'[c] \subseteq exch[c] \cup xs \cup {[x EXCEPT !.stage = "late"]}
         /\ \A d \in Command \ {c} : exch'[d] = exch[d]
  <1>1. PICK ys : exch' = Replace(c, x, ys)
                  /\ ys \subseteq xs \cup {[x EXCEPT !.stage = "late"]}
    BY DEF GiveUp
  <1>2. UNCHANGED <<version, file>> /\ x \in exch[c]
    BY DEF GiveUp, nodeVars
  <1> QED
    BY <1>1, <1>2, ReplaceShape

\* A timeout, and what is sent again after it, keeps the invariant.
LEMMA TimeoutKeeps ==
  ASSUME IInv, Timeout
  PROVE  IInv'
  <1>0. ExchInv /\ NodeInv
    BY DEF IInv
  <1>a. {"add-node", "ver", "fetch"} \subseteq Command
    BY DEF Command
  <1>1. ASSUME NEW x \in exch["ver"], OnVersionCommandTimeout(x)
        PROVE  IInv'
    <2> DEFINE xs == VersionCommands(file[Manager], version[Manager])
    <2>1. GiveUp("ver", x, xs) /\ published' = published
      BY <1>1 DEF OnVersionCommandTimeout, history
    <2>2. VerOK(x)
      BY <1>0 DEF ExchInv
    <2>3. VerOK([x EXCEPT !.stage = "late"])
      BY <2>2 DEF VerOK, Stage
    <2>4. ASSUME NEW y \in xs
          PROVE  VerOK(y)
      <3>1. PICK i \in 2 .. Len(file[Manager]) :
              y = Ver(file[Manager][i].node, version[Manager])
        BY DEF VersionCommands
      <3>2. file[Manager] \in Seq(Entry)
        BY <1>0, ManagerAssumption DEF NodeInv, File
      <3>3. i \in DOMAIN file[Manager]
        BY <3>2
      <3>4. file[Manager][i].node \in Node /\ file[Manager][i].node # Manager
        BY <3>3, ManagerEntries DEF IInv, RingInv
      <3> QED
        BY <1>0, <3>1, <3>4, Bounds DEF VerOK, Ver, NodeInv, Version, Stage
    <2> HIDE DEF xs
    <2>5. /\ UNCHANGED <<version, file>>
          /\ exch' = [d \in Command |-> exch'[d]]
          /\ exch'["ver"] \subseteq exch["ver"] \cup xs \cup {[x EXCEPT !.stage = "late"]}
      BY <1>0, <1>a, <2>1, GiveUpShape
    <2>6. exch'["fetch"] = exch["fetch"] /\ exch'["add-node"] = exch["add-node"]
      BY <1>0, <1>a, <2>1, GiveUpShape
    <2> QED
      BY <1>0, <2>1, <2>3, <2>4, <2>5, <2>6, Frame DEF ExchInv
  <1>2. ASSUME NEW x \in exch["fetch"], OnFetchCommandTimeout(x)
        PROVE  IInv'
    <2> DEFINE xs == {Fetch(x.src, x.version)}
    <2>1. GiveUp("fetch", x, xs) /\ published' = published
      BY <1>2 DEF OnFetchCommandTimeout, history
    <2>2. FetchOK(x)
      BY <1>0 DEF ExchInv
    <2>3. FetchOK([x EXCEPT !.stage = "late"])
      BY <2>2 DEF FetchOK, Stage
    <2>4. \A y \in xs : FetchOK(y)
      <3>1. <<>> \in File
        BY DEF File
      <3> QED
        BY <2>2, <3>1 DEF FetchOK, Fetch, Stage
    <2> HIDE DEF xs
    <2>5. /\ UNCHANGED <<version, file>>
          /\ exch' = [d \in Command |-> exch'[d]]
          /\ exch'["fetch"] \subseteq
               exch["fetch"] \cup xs \cup {[x EXCEPT !.stage = "late"]}
      BY <1>0, <1>a, <2>1, GiveUpShape
    <2>6. exch'["ver"] = exch["ver"] /\ exch'["add-node"] = exch["add-node"]
      BY <1>0, <1>a, <2>1, GiveUpShape
    <2> QED
      BY <1>0, <2>1, <2>3, <2>4, <2>5, <2>6, Frame DEF ExchInv
  <1>3. ASSUME NEW c \in Command \ {"add-node", "ver", "fetch"}, NEW x, NEW xs, GiveUp(c, x, xs),
               published' = published
        PROVE  IInv'
    <2>1. /\ UNCHANGED <<version, file>>
          /\ exch' = [d \in Command |-> exch'[d]]
          /\ \A d \in Command \ {c} : exch'[d] = exch[d]
      BY <1>0, <1>3, GiveUpShape
    <2> QED
      BY <1>a, <1>3, <2>1, FrameExch
  <1>4. /\ "coordination" \in Command \ {"add-node", "ver", "fetch"}
        /\ "manifestlist" \in Command \ {"add-node", "ver", "fetch"}
        /\ "find" \in Command \ {"add-node", "ver", "fetch"}
        /\ "only-delete-manifest" \in Command \ {"add-node", "ver", "fetch"}
        /\ "complete" \in Command \ {"add-node", "ver", "fetch"}
    BY DEF Command
  <1>5. ASSUME NEW x, OnCoordinationCommandTimeout(x)
        PROVE  IInv'
    BY <1>3, <1>4, <1>5 DEF OnCoordinationCommandTimeout, history
  <1>6. ASSUME NEW x, OnManifestListCommandTimeout(x)
        PROVE  IInv'
    BY <1>3, <1>4, <1>6 DEF OnManifestListCommandTimeout, history
  <1>7. ASSUME NEW x, OnManifestCommandTimeout(x)
        PROVE  IInv'
    BY <1>3, <1>4, <1>7 DEF OnManifestCommandTimeout
  <1>8. ASSUME NEW x, OnDeleteManifestCommandTimeout(x)
        PROVE  IInv'
    BY <1>3, <1>4, <1>8 DEF OnDeleteManifestCommandTimeout, history
  <1>9. ASSUME NEW x, OnCompleteCommandTimeout(x)
        PROVE  IInv'
    <2>1. exch' = Replace("complete", x, {}) /\ UNCHANGED <<version, file, published>>
      BY <1>9 DEF OnCompleteCommandTimeout, nodeVars, history
    <2>2. /\ exch' = [d \in Command |-> exch'[d]]
          /\ \A d \in Command \ {"complete"} : exch'[d] = exch[d]
      BY <1>0, <1>4, <2>1, ReplaceShape
    <2> QED
      BY <1>a, <2>1, <2>2, FrameExch
  <1>10. ASSUME NEW x, OnAddCommandTimeout(x)
         PROVE  IInv'
    <2>1. exch' = Replace("add-node", x, {}) /\ UNCHANGED <<version, file, published>>
      BY <1>10 DEF OnAddCommandTimeout, nodeVars, history
    <2>2. /\ exch' = [d \in Command |-> exch'[d]]
          /\ exch'["add-node"] \subseteq exch["add-node"]
          /\ exch'["ver"] = exch["ver"] /\ exch'["fetch"] = exch["fetch"]
      BY <1>0, <1>a, <2>1, ReplaceShape
    <2> QED
      BY <1>0, <2>1, <2>2, Frame DEF ExchInv
  <1> QED
    BY <1>1, <1>2, <1>5, <1>6, <1>7, <1>8, <1>9, <1>10 DEF Timeout

-----------------------------------------------------------------------------
(* The theorems.                                                           *)

\* The first state, whatever the manager stores.
LEMMA InitStoredInv ==
  ASSUME NEW ms, InitStored(ms)
  PROVE  IInv
  <1>1. version[Manager] = 0 /\ file[Manager] = InitKeySpaceFile /\ 0 \in Version
    BY ManagerAssumption, Bounds DEF InitStored, Version
  <1>3. Len(file[Manager]) = 1 /\ file[Manager][1].node = Manager
    BY <1>1 DEF InitKeySpaceFile
  <1>4. InitKeySpaceFile \in File /\ <<>> \in File
    <2>1. MaxKey \in Int
      BY BaseAssumption DEF MaxKey
    <2>2. [node |-> Manager, start |-> 0, end |-> MaxKey] \in Entry
      BY <2>1, ManagerAssumption DEF Entry
    <2> QED
      BY <2>2 DEF InitKeySpaceFile, File
  <1>5. NodeInv
    <2>1. /\ version \in [Node -> Version \cup {Unset}]
          /\ file \in [Node -> File] /\ published \in [Version -> File]
      BY <1>1, <1>4 DEF InitStored
    <2>2. published[0] = InitKeySpaceFile
      BY <1>1 DEF InitStored
    <2>3. \A n \in Node : version[n] # Unset => n = Manager
      BY DEF InitStored
    <2> QED
      BY <1>1, <2>1, <2>2, <2>3 DEF NodeInv, VersionNamesRing
  <1>6. ExchInv
    BY DEF InitStored, ExchInv, Command
  <1> QED
    BY <1>3, <1>5, <1>6 DEF IInv, RingInv

\* It holds initially.
LEMMA InitInv == Init => IInv
  BY InitStoredInv DEF Init

\* Every step keeps the invariant.
LEMMA NextInv == IInv /\ [Next]_vars => IInv'
  <1> SUFFICES ASSUME IInv, [Next]_vars
               PROVE  IInv'
    OBVIOUS
  <1>1. ASSUME NEW f \in Node, NEW n \in Node, Start(n, f)
        PROVE  IInv'
    BY <1>1, BootKeeps DEF Start
  <1>2. CASE Operate
    BY <1>1, <1>2, DeleteKeeps DEF Operate
  <1>3. ASSUME NEW x \in exch["find"], OnManifestCommandResponse(x)
        PROVE  IInv'
    <2>1. CASE x.found
      BY <1>3, <2>1, MigrationStepsKeep
    <2>2. CASE ~x.found
      <3>1. Exit(x.src)
        BY <1>3, <2>2 DEF OnManifestCommandResponse
      <3> QED
        BY <3>1, ExitKeeps
    <2> QED
      BY <2>1, <2>2
  <1>4. CASE Deliver
    <2>1. "ver" \in {"ver", "coordination", "only-delete-manifest"}
          /\ "coordination" \in {"ver", "coordination", "only-delete-manifest"}
          /\ "only-delete-manifest" \in {"ver", "coordination", "only-delete-manifest"}
      OBVIOUS
    <2> QED
      BY <1>3, <1>4, <2>1, AddKeeps, RingStepsKeep, MigrationStepsKeep, IgnoreKeeps
         DEF Deliver
  <1>5. CASE Timeout
    BY <1>5, TimeoutKeeps
  <1>6. ASSUME NEW n \in Node, Restart(n)
        PROVE  IInv'
    BY <1>6, ExitKeeps DEF Restart
  <1>7. CASE UNCHANGED vars
    <2>1. UNCHANGED <<version, file, published, exch>>
      BY <1>7 DEF vars, nodeVars, history
    <2> QED
      BY <2>1, FrameExch DEF IInv, ExchInv
  <1> QED
    BY <1>2, <1>4, <1>5, <1>6, <1>7 DEF Next

\* The invariant holds in every state.
THEOREM Invariant == Spec => []IInv
  BY InitInv, NextInv, PTL DEF Spec

\* A node at a version has the file the manager published under that version,
\* whatever is lost, delayed, overtaken, repeated or restarted: the manager
\* answers a fetch only with the version it was asked for, and the node takes
\* the version from the name of its own Interest.
THEOREM VersionNamesRingAlways == Spec => []VersionNamesRing
  BY Invariant, PTL DEF IInv, NodeInv

-----------------------------------------------------------------------------
(* The protocol implements the ring.                                       *)

\* An add is one of KeySpaceRing, or leaves the ring alone.
LEMMA AddEdits ==
  ASSUME IInv, NEW x \in exch["add-node"], HandleAddCommand(x)
  PROVE  \/ x.from \in Node /\ x.src \in Node /\ Ring!HandleAddCommand(x.from, x.src)
         \/ UNCHANGED Ring!vars
  <1> DEFINE new == AddNode(file[Manager], x.from, x.src)
             rest == Replace("add-node", x, {})
  <1>1. x.src \in Node
    BY DEF IInv, ExchInv, AddOK
  <1>2. CASE x.from \in Members(file[Manager])
    <2>1. Ring!AddReadable(x.from) /\ Publish(new, rest)
      BY <1>2 DEF HandleAddCommand
    <2>2. x.from \in Node /\ x.from \in Ring!Members(file[Manager])
      BY <1>2, ManagerEntries DEF Members, Ring!Members
    <2>3. new = Ring!AddNode(file[Manager], x.from, x.src)
      BY DEF AddNode, Ring!AddNode, IndexOf, Ring!IndexOf, Halve, Ring!Halve
    <2>4. /\ file'[Manager] = new
          /\ version'[Manager] = version[Manager] + 1
          /\ version[Manager] < MaxVersion
      BY <2>1, ManagerAssumption DEF Publish, IInv, NodeInv
    <2>5. Ring!HandleAddCommand(x.from, x.src)
      BY <2>1, <2>2, <2>3, <2>4 DEF Ring!HandleAddCommand
    <2> QED
      BY <1>1, <2>2, <2>5
  <1>3. CASE x.from \notin Members(file[Manager])
    BY <1>3 DEF HandleAddCommand, Ring!vars
  <1> QED
    BY <1>2, <1>3

\* So is a delete.
LEMMA DeleteEdits ==
  ASSUME IInv, NEW f \in Node, NEW t \in Node, HandleDeleteCommand(f, t)
  PROVE  /\ Ring!SafeDelete(f, t)
         /\ \A g : Ring!HandleDeleteCommand(f, t, g)
  <1> DEFINE new == DelNode(file[Manager], f, t, [start |-> 0, end |-> 0])
  <1>1. /\ Ring!SafeDelete(f, t) /\ Ring!DeleteReadable(f, t)
        /\ Publish(new, exch)
    BY DEF HandleDeleteCommand
  <1>2. f \in Ring!Members(file[Manager]) /\ f \in Members(file[Manager])
    BY <1>1 DEF Ring!SafeDelete, Ring!Members, Members
  <1>3. /\ file'[Manager] = new
        /\ version'[Manager] = version[Manager] + 1
        /\ version[Manager] < MaxVersion
    BY <1>1, ManagerAssumption DEF Publish, IInv, NodeInv
  <1>4. ASSUME NEW g
        PROVE  new = Ring!DelNode(file[Manager], f, t, g)
    BY <1>2 DEF DelNode, Ring!DelNode, IndexOf, Ring!IndexOf, Widen, Ring!Widen,
                Erase, Ring!Erase
  <1> QED
    BY <1>1, <1>3, <1>4 DEF Ring!HandleDeleteCommand

\* No other step touches the manager's file or version.
LEMMA OthersLeaveRing ==
  ASSUME IInv, [Next]_vars,
         \A x \in exch["add-node"] : ~HandleAddCommand(x),
         \A f, t \in Node : ~HandleDeleteCommand(f, t)
  PROVE  version'[Manager] = version[Manager] /\ file'[Manager] = file[Manager]
  <1>1. ASSUME NEW n \in Node \ {Manager}, NEW f, Boot(n, f)
        PROVE  version'[Manager] = version[Manager] /\ file'[Manager] = file[Manager]
    BY <1>1, ManagerAssumption DEF Boot, IInv, NodeInv
  <1>2. CASE Operate
    BY <1>1, <1>2 DEF Operate, Start
  <1>3. ASSUME NEW x \in exch["fetch"], OnFetchCommandResponse(x)
        PROVE  version'[Manager] = version[Manager] /\ file'[Manager] = file[Manager]
    <2>1. x.src \in Node \ {Manager}
      BY DEF IInv, ExchInv, FetchOK
    <2>2. \/ UNCHANGED <<version, file>>
          \/ /\ version' = [version EXCEPT ![x.src] = x.version]
             /\ file' = [file EXCEPT ![x.src] = x.content]
          \/ Exit(x.src)
      BY <1>3 DEF OnFetchCommandResponse
    <2> QED
      BY <2>1, <2>2, ExitKeeps, ManagerAssumption DEF IInv, NodeInv
  <1>4. ASSUME NEW x \in exch["find"], OnManifestCommandResponse(x)
        PROVE  version'[Manager] = version[Manager] /\ file'[Manager] = file[Manager]
    <2>1. (UNCHANGED <<version, file>>) \/ Exit(x.src)
      BY <1>4 DEF OnManifestCommandResponse
    <2> QED
      BY <2>1, ExitKeeps
  <1>5. CASE Deliver
    BY <1>3, <1>4, <1>5 DEF Deliver, nodeVars, HandleVersionCommand, IgnoreResponse,
       HandleFetchCommand, HandleCoordinationCommand, HandleManifestListCommand,
       OnManifestListCommandResponse, HandleFindCommand, OnCompleteCommandResponse,
       HandleOnlyDeleteManifestCommand
  <1>6. CASE Timeout
    BY <1>6 DEF Timeout, GiveUp, nodeVars, OnAddCommandTimeout,
       OnVersionCommandTimeout, OnFetchCommandTimeout, OnCoordinationCommandTimeout,
       OnManifestListCommandTimeout, OnManifestCommandTimeout,
       OnCompleteCommandTimeout, OnDeleteManifestCommandTimeout
  <1>7. ASSUME NEW n \in Node, Restart(n)
        PROVE  version'[Manager] = version[Manager] /\ file'[Manager] = file[Manager]
    BY <1>7, ExitKeeps DEF Restart
  <1>8. CASE UNCHANGED vars
    BY <1>8 DEF vars, nodeVars
  <1> QED
    BY <1>2, <1>5, <1>6, <1>7, <1>8 DEF Next

\* The first ring.
LEMMA RingStarts == Init => Ring!Init
  BY ManagerAssumption DEF Init, InitStored, Ring!Init, Ring!InitKeySpaceFile, InitKeySpaceFile,
     MaxKey, Ring!MaxKey

\* The protocol implements KeySpaceRing: between the commands nothing that a node,
\* a timeout or a restart does changes the manager's ring, and a command does to
\* it what KeySpaceRing says.
THEOREM Implementation == Spec => EditsTheRing
  <1>1. IInv /\ [Next]_vars => [Ring!AnyNext]_(Ring!vars)
    <2> SUFFICES ASSUME IInv, [Next]_vars
                 PROVE  [Ring!AnyNext]_(Ring!vars)
      OBVIOUS
    <2>1. ASSUME NEW x \in exch["add-node"], HandleAddCommand(x)
          PROVE  [Ring!AnyNext]_(Ring!vars)
      BY <2>1, AddEdits DEF Ring!AnyNext
    <2>2. ASSUME NEW f \in Node, NEW t \in Node, HandleDeleteCommand(f, t)
          PROVE  Ring!AnyNext
      <3>1. [start |-> 0, end |-> 0] \in Ring!GarbageRange
        BY BaseAssumption DEF Ring!GarbageRange, Ring!Key, Ring!MaxKey
      <3>2. Ring!HandleDeleteCommand(f, t, [start |-> 0, end |-> 0])
        BY <2>2, DeleteEdits
      <3> QED
        BY <3>1, <3>2 DEF Ring!AnyNext
    <2>3. CASE /\ \A x \in exch["add-node"] : ~HandleAddCommand(x)
               /\ \A f, t \in Node : ~HandleDeleteCommand(f, t)
      <3>1. version'[Manager] = version[Manager] /\ file'[Manager] = file[Manager]
        BY <2>3, OthersLeaveRing
      <3> QED
        BY <3>1 DEF Ring!vars
    <2> QED
      BY <2>1, <2>2, <2>3
  <1> QED
    BY <1>1, RingStarts, Invariant, PTL DEF Spec, EditsTheRing, Ring!AnySpec

-----------------------------------------------------------------------------
(* Type correctness.                                                       *)

\* The commands whose exchanges have several stages, and those of a migration.
Staged == Command \ {"add-node", "complete"}

Moving == {"manifestlist", "find", "complete", "only-delete-manifest"}

\* What a handler needs to answer exchange x of command c, or to repeat it: a node
\* that migrates has been told its source.
Fit(c, x) == x \in Exchange(c) /\ (c \in Moving => from[x.src] \in Node)

AllFit(e) ==
  /\ e = [c \in Command |-> e[c]]
  /\ \A c \in Command : \A x \in e[c] : Fit(c, x)

NodeTypes ==
  /\ config \in [Node -> Node \cup {NoNode}]
  /\ range \in [Node -> KeyRange]
  /\ from \in [Node -> Node \cup {NoNode}]
  /\ mlist \in [Node -> SUBSET Manifest]
  /\ store \in [Node -> SUBSET Manifest]
  /\ budget \in [timeouts : 0 .. MaxTimeouts, restarts : 0 .. MaxRestarts]
  /\ asked \in [Node -> SUBSET (Node \X Manifest)]
  /\ excused \in SUBSET Manifest

\* The manager has the two ends of a migration from its first edit on, before the
\* first Interest about that edit.
LeadInv ==
  \/ to = NoNode /\ \A c \in {"ver", "fetch", "coordination"} : exch[c] = {}
  \/ to \in Node /\ from[Manager] \in Node

BoundInv == \A v \in Version : Bounded(published[v])

TypeInv == NodeTypes /\ AllFit(exch) /\ LeadInv /\ BoundInv

\* The invariant implies the types.
LEMMA TypeInvType ==
  ASSUME IInv, TypeInv
  PROVE  TypeOK
  <1>1. DOMAIN exch = Command
    BY DEF TypeInv, AllFit
  <1>2. \A c \in Command : \A x \in exch[c] : x \in Exchange(c)
    BY DEF TypeInv, AllFit, Fit
  <1>3. to \in Node \cup {NoNode}
    BY DEF TypeInv, LeadInv
  <1> QED
    BY <1>1, <1>2, <1>3 DEF TypeOK, TypeInv, NodeTypes, IInv, NodeInv

\* The exchanges of a command, spelled out.
LEMMA Exchanges ==
  /\ Exchange("add-node") =
       [src : Node, from : Node, sent : 0 .. MaxRestarts, stage : {"interest"}]
  /\ Exchange("ver") = [dst : Node, version : Version, stage : Stage]
  /\ Exchange("fetch") =
       [src : Node, version : Version, stage : Stage, content : File]
  /\ Exchange("coordination") = [dst : Node, from : Node, stage : Stage]
  /\ Exchange("manifestlist") =
       [src : Node, dst : Node, stage : Stage, content : SUBSET Manifest]
  /\ Exchange("find") =
       [src : Node, dst : Node, manifest : Manifest, stage : Stage, found : BOOLEAN]
  /\ Exchange("complete") = [src : Node, stage : {"interest"}]
  /\ Exchange("only-delete-manifest") =
       [src : Node, dst : Node, manifest : Manifest, stage : Stage]
  BY DEF Exchange

\* An exchange fits whatever its stage.
LEMMA StageFits ==
  ASSUME NEW c \in Staged, NEW x, Fit(c, x), NEW s \in Stage
  PROVE  Fit(c, [x EXCEPT !.stage = s])
  <1> DEFINE y == [x EXCEPT !.stage = s]
  <1>0. x \in Exchange(c)
    BY DEF Fit
  <1>1. CASE c = "ver"
    <2>1. x \in [dst : Node, version : Version, stage : Stage]
      BY <1>0, <1>1, Exchanges
    <2>2. y \in [dst : Node, version : Version, stage : Stage]
      BY <2>1
    <2> QED
      BY <1>1, <2>2, Exchanges DEF Fit, Moving
  <1>2. CASE c = "fetch"
    <2>1. x \in [src : Node, version : Version, stage : Stage, content : File]
      BY <1>0, <1>2, Exchanges
    <2>2. y \in [src : Node, version : Version, stage : Stage, content : File]
      BY <2>1
    <2> QED
      BY <1>2, <2>2, Exchanges DEF Fit, Moving
  <1>3. CASE c = "coordination"
    <2>1. x \in [dst : Node, from : Node, stage : Stage]
      BY <1>0, <1>3, Exchanges
    <2>2. y \in [dst : Node, from : Node, stage : Stage]
      BY <2>1
    <2> QED
      BY <1>3, <2>2, Exchanges DEF Fit, Moving
  <1>4. CASE c = "manifestlist"
    <2>1. x \in [src : Node, dst : Node, stage : Stage, content : SUBSET Manifest]
      BY <1>0, <1>4, Exchanges
    <2>2. y \in [src : Node, dst : Node, stage : Stage, content : SUBSET Manifest]
          /\ y.src = x.src
      BY <2>1
    <2> QED
      BY <1>4, <2>2, Exchanges DEF Fit, Moving
  <1>5. CASE c = "find"
    <2>1. x \in [src : Node, dst : Node, manifest : Manifest, stage : Stage,
               found : BOOLEAN]
      BY <1>0, <1>5, Exchanges
    <2>2. y \in [src : Node, dst : Node, manifest : Manifest, stage : Stage,
               found : BOOLEAN]
          /\ y.src = x.src
      BY <2>1
    <2> QED
      BY <1>5, <2>2, Exchanges DEF Fit, Moving
  <1>6. CASE c = "only-delete-manifest"
    <2>1. x \in [src : Node, dst : Node, manifest : Manifest, stage : Stage]
      BY <1>0, <1>6, Exchanges
    <2>2. y \in [src : Node, dst : Node, manifest : Manifest, stage : Stage]
          /\ y.src = x.src
      BY <2>1
    <2> QED
      BY <1>6, <2>2, Exchanges DEF Fit, Moving
  <1> QED
    BY <1>1, <1>2, <1>3, <1>4, <1>5, <1>6 DEF Staged, Command

\* Exchanges that fit are replaced by others that do.
LEMMA ReplaceFits ==
  ASSUME AllFit(exch), NEW c \in Command, NEW x, NEW xs, \A y \in xs : Fit(c, y)
  PROVE  AllFit(Replace(c, x, xs))
  <1> DEFINE e == Replace(c, x, xs)
  <1>1. /\ e = [d \in Command |-> e[d]]
        /\ e[c] = (exch[c] \ {x}) \cup xs
        /\ \A d \in Command \ {c} : e[d] = exch[d]
    BY DEF AllFit, Replace
  <1> HIDE DEF e
  <1>2. ASSUME NEW d \in Command, NEW z \in e[d]
        PROVE  Fit(d, z)
    <2>1. CASE d = c
      BY <1>1, <2>1 DEF AllFit
    <2>2. CASE d # c
      BY <1>1, <2>2 DEF AllFit
    <2> QED
      BY <2>1, <2>2
  <1> QED
    BY <1>1, <1>2 DEF AllFit, e

\* An answer has the fields of its Interest.
LEMMA AnswerFits ==
  ASSUME AllFit(exch), NEW c \in Staged, NEW x, NEW y, Fit(c, y)
  PROVE  AllFit(Answer(c, x, y))
  <1>1. Fit(c, [y EXCEPT !.stage = "data"])
    BY StageFits DEF Stage
  <1>2. c \in Command
    BY DEF Staged
  <1> QED
    BY <1>1, <1>2, ReplaceFits DEF Answer

\* So do an answer and what the handler sends with it.
LEMMA AnswerAndSendFits ==
  ASSUME AllFit(exch), NEW c \in Staged, NEW x, NEW y, Fit(c, y),
         NEW d \in Command, NEW xs, \A z \in xs : Fit(d, z)
  PROVE  AllFit(AnswerAndSend(c, x, y, d, xs))
  <1> DEFINE a == Answer(c, x, y)
             e == [a EXCEPT ![d] = @ \cup xs]
  <1>1. AllFit(a)
    BY AnswerFits
  <1> HIDE DEF a
  <1>2. /\ e = [b \in Command |-> e[b]]
        /\ e[d] = a[d] \cup xs
        /\ \A b \in Command \ {d} : e[b] = a[b]
    BY <1>1 DEF AllFit
  <1>3. AnswerAndSend(c, x, y, d, xs) = e
    BY DEF AnswerAndSend, a
  <1> HIDE DEF e
  <1>4. AllFit(e)
    BY <1>1, <1>2 DEF AllFit
  <1> QED
    BY <1>3, <1>4

\* What giving up leaves fits, too.
LEMMA GiveUpFits ==
  ASSUME AllFit(exch), NEW c \in Staged, NEW x, NEW xs, \A y \in xs : Fit(c, y),
         GiveUp(c, x, xs)
  PROVE  AllFit(exch')
  <1>1. c \in Command /\ x \in exch[c]
    BY DEF Staged, GiveUp
  <1>2. Fit(c, [x EXCEPT !.stage = "late"])
    <2>1. Fit(c, x)
      BY <1>1 DEF AllFit
    <2> QED
      BY <2>1, StageFits DEF Stage
  <1>3. PICK ys : exch' = Replace(c, x, ys)
                  /\ ys \subseteq xs \cup {[x EXCEPT !.stage = "late"]}
    BY DEF GiveUp
  <1>4. \A y \in ys : Fit(c, y)
    BY <1>2, <1>3
  <1> QED
    BY <1>1, <1>3, <1>4, ReplaceFits

\* Exchanges that fit go on doing so: no node loses its source.
LEMMA FitStays ==
  ASSUME AllFit(exch'), \A n \in Node : from[n] \in Node => from'[n] \in Node
  PROVE  AllFit(exch)'
  <1>1. ASSUME NEW c \in Command, NEW x \in exch'[c]
        PROVE  x \in Exchange(c) /\ (c \in Moving => from'[x.src] \in Node)
    <2>1. Fit(c, x)
      BY DEF AllFit
    <2>2. c \in Moving => x.src \in Node
      <3>1. x \in Exchange(c)
        BY <2>1 DEF Fit
      <3>2. CASE c = "manifestlist"
        <4>1. x \in [src : Node, dst : Node, stage : Stage, content : SUBSET Manifest]
          BY <3>1, <3>2, Exchanges
        <4> QED
          BY <4>1
      <3>3. CASE c = "find"
        <4>1. x \in [src : Node, dst : Node, manifest : Manifest, stage : Stage,
                   found : BOOLEAN]
          BY <3>1, <3>3, Exchanges
        <4> QED
          BY <4>1
      <3>4. CASE c = "complete"
        <4>1. x \in [src : Node, stage : {"interest"}]
          BY <3>1, <3>4, Exchanges
        <4> QED
          BY <4>1
      <3>5. CASE c = "only-delete-manifest"
        <4>1. x \in [src : Node, dst : Node, manifest : Manifest, stage : Stage]
          BY <3>1, <3>5, Exchanges
        <4> QED
          BY <4>1
      <3> QED
        BY <3>2, <3>3, <3>4, <3>5 DEF Moving
    <2> QED
      BY <2>1, <2>2 DEF Fit
  <1>2. exch' = [c \in Command |-> exch'[c]]
    BY DEF AllFit
  <1> QED
    BY <1>1, <1>2 DEF AllFit, Fit

\* A step that only answers, sends or gives up.
LEMMA ExchStepTypes ==
  ASSUME TypeInv, UNCHANGED <<nodeVars, published, asked>>, AllFit(exch'),
         budget' \in [timeouts : 0 .. MaxTimeouts, restarts : 0 .. MaxRestarts],
         excused' \in SUBSET Manifest,
         to = NoNode => \A c \in {"ver", "fetch", "coordination"} : exch'[c] = {}
  PROVE  TypeInv'
  <1>1. AllFit(exch)'
    BY FitStays DEF nodeVars
  <1>2. NodeTypes'
    BY DEF TypeInv, NodeTypes, nodeVars
  <1>3. LeadInv'
    BY DEF TypeInv, LeadInv, nodeVars
  <1>4. BoundInv'
    BY DEF TypeInv, BoundInv
  <1> QED
    BY <1>1, <1>2, <1>3, <1>4 DEF TypeInv

\* The fields of the exchanges under way.
LEMMA Fields ==
  ASSUME AllFit(exch)
  PROVE
  /\ \A x \in exch["add-node"] :
       x.src \in Node /\ x.from \in Node
  /\ \A x \in exch["ver"] :
       x.dst \in Node /\ x.version \in Version
  /\ \A x \in exch["fetch"] :
       x.src \in Node /\ x.version \in Version /\ x.content \in File
  /\ \A x \in exch["coordination"] :
       x.dst \in Node /\ x.from \in Node
  /\ \A x \in exch["manifestlist"] :
       /\ x.src \in Node /\ x.dst \in Node /\ x.content \in SUBSET Manifest
       /\ from[x.src] \in Node
  /\ \A x \in exch["find"] :
       /\ x.src \in Node /\ x.dst \in Node /\ x.manifest \in Manifest
       /\ x.found \in BOOLEAN /\ from[x.src] \in Node
  /\ \A x \in exch["complete"] :
       x.src \in Node /\ from[x.src] \in Node
  /\ \A x \in exch["only-delete-manifest"] :
       /\ x.src \in Node /\ x.dst \in Node /\ x.manifest \in Manifest
       /\ from[x.src] \in Node
  <1>1. ASSUME NEW x \in exch["add-node"]
        PROVE  x.src \in Node /\ x.from \in Node
    <2>1. Fit("add-node", x)
      BY DEF AllFit, Command
    <2>2. x \in [src : Node, from : Node, sent : 0 .. MaxRestarts,
            stage : {"interest"}]
      BY <2>1, Exchanges DEF Fit
    <2> QED
      BY <2>1, <2>2 DEF Fit, Moving
  <1>2. ASSUME NEW x \in exch["ver"]
        PROVE  x.dst \in Node /\ x.version \in Version
    <2>1. Fit("ver", x)
      BY DEF AllFit, Command
    <2>2. x \in [dst : Node, version : Version, stage : Stage]
      BY <2>1, Exchanges DEF Fit
    <2> QED
      BY <2>1, <2>2 DEF Fit, Moving
  <1>3. ASSUME NEW x \in exch["fetch"]
        PROVE  x.src \in Node /\ x.version \in Version /\ x.content \in File
    <2>1. Fit("fetch", x)
      BY DEF AllFit, Command
    <2>2. x \in [src : Node, version : Version, stage : Stage, content : File]
      BY <2>1, Exchanges DEF Fit
    <2> QED
      BY <2>1, <2>2 DEF Fit, Moving
  <1>4. ASSUME NEW x \in exch["coordination"]
        PROVE  x.dst \in Node /\ x.from \in Node
    <2>1. Fit("coordination", x)
      BY DEF AllFit, Command
    <2>2. x \in [dst : Node, from : Node, stage : Stage]
      BY <2>1, Exchanges DEF Fit
    <2> QED
      BY <2>1, <2>2 DEF Fit, Moving
  <1>5. ASSUME NEW x \in exch["manifestlist"]
        PROVE  /\ x.src \in Node /\ x.dst \in Node /\ x.content \in SUBSET Manifest
                /\ from[x.src] \in Node
    <2>1. Fit("manifestlist", x)
      BY DEF AllFit, Command
    <2>2. x \in [src : Node, dst : Node, stage : Stage, content : SUBSET Manifest]
      BY <2>1, Exchanges DEF Fit
    <2> QED
      BY <2>1, <2>2 DEF Fit, Moving
  <1>6. ASSUME NEW x \in exch["find"]
        PROVE  /\ x.src \in Node /\ x.dst \in Node /\ x.manifest \in Manifest
                /\ x.found \in BOOLEAN /\ from[x.src] \in Node
    <2>1. Fit("find", x)
      BY DEF AllFit, Command
    <2>2. x \in [src : Node, dst : Node, manifest : Manifest, stage : Stage,
            found : BOOLEAN]
      BY <2>1, Exchanges DEF Fit
    <2> QED
      BY <2>1, <2>2 DEF Fit, Moving
  <1>7. ASSUME NEW x \in exch["complete"]
        PROVE  x.src \in Node /\ from[x.src] \in Node
    <2>1. Fit("complete", x)
      BY DEF AllFit, Command
    <2>2. x \in [src : Node, stage : {"interest"}]
      BY <2>1, Exchanges DEF Fit
    <2> QED
      BY <2>1, <2>2 DEF Fit, Moving
  <1>8. ASSUME NEW x \in exch["only-delete-manifest"]
        PROVE  /\ x.src \in Node /\ x.dst \in Node /\ x.manifest \in Manifest
                /\ from[x.src] \in Node
    <2>1. Fit("only-delete-manifest", x)
      BY DEF AllFit, Command
    <2>2. x \in [src : Node, dst : Node, manifest : Manifest, stage : Stage]
      BY <2>1, Exchanges DEF Fit
    <2> QED
      BY <2>1, <2>2 DEF Fit, Moving
  <1> QED
    BY <1>1, <1>2, <1>3, <1>4, <1>5, <1>6, <1>7, <1>8

\* The exchanges that the handlers begin fit.
LEMMA AddFits ==
  ASSUME NEW n \in Node, NEW f \in Node, NEW s \in 0 .. MaxRestarts
  PROVE  Fit("add-node", Add(n, f, s))
  <1>1. Add(n, f, s) \in [src : Node, from : Node, sent : 0 .. MaxRestarts,
            stage : {"interest"}]
    BY DEF Add, Stage
  <1> QED
    BY <1>1, Exchanges DEF Fit, Moving, Add

\* The exchanges have their fields when they are sent: an announcement,
LEMMA VerFits ==
  ASSUME NEW n \in Node, NEW v \in Version
  PROVE  Fit("ver", Ver(n, v))
  <1>1. Ver(n, v) \in [dst : Node, version : Version, stage : Stage]
    BY DEF Ver, Stage
  <1> QED
    BY <1>1, Exchanges DEF Fit, Moving, Ver

\* a fetch,
LEMMA FetchFits ==
  ASSUME NEW n \in Node, NEW v \in Version
  PROVE  Fit("fetch", Fetch(n, v))
  <1>1. Fetch(n, v) \in [src : Node, version : Version, stage : Stage, content : File]
    BY DEF Fetch, Stage, File
  <1> QED
    BY <1>1, Exchanges DEF Fit, Moving, Fetch

\* a coordination,
LEMMA CoordinationFits ==
  ASSUME NEW n \in Node, NEW f \in Node
  PROVE  Fit("coordination", Coordination(n, f))
  <1>1. Coordination(n, f) \in [dst : Node, from : Node, stage : Stage]
    BY DEF Coordination, Stage
  <1> QED
    BY <1>1, Exchanges DEF Fit, Moving, Coordination

\* a request for the source's list,
LEMMA ManifestListFits ==
  ASSUME NEW n \in Node, NEW f \in Node, from[n] \in Node
  PROVE  Fit("manifestlist", ManifestListOf(n, f))
  <1>1. ManifestListOf(n, f) \in [src : Node, dst : Node, stage : Stage, content : SUBSET Manifest]
    BY DEF ManifestListOf, Stage
  <1> QED
    BY <1>1, Exchanges DEF Fit, Moving, ManifestListOf

\* a find,
LEMMA FindFits ==
  ASSUME NEW n \in Node, NEW f \in Node, NEW m \in Manifest,
         from[n] \in Node
  PROVE  Fit("find", Find(n, f, m))
  <1>1. Find(n, f, m) \in [src : Node, dst : Node, manifest : Manifest, stage : Stage,
            found : BOOLEAN]
    BY DEF Find, Stage
  <1> QED
    BY <1>1, Exchanges DEF Fit, Moving, Find

\* a completion,
LEMMA CompleteFits ==
  ASSUME NEW n \in Node, from[n] \in Node
  PROVE  Fit("complete", Complete(n))
  <1>1. Complete(n) \in [src : Node, stage : {"interest"}]
    BY DEF Complete, Stage
  <1> QED
    BY <1>1, Exchanges DEF Fit, Moving, Complete

\* a deletion.
LEMMA DeleteFits ==
  ASSUME NEW n \in Node, NEW f \in Node, NEW m \in Manifest,
         from[n] \in Node
  PROVE  Fit("only-delete-manifest", DeleteManifest(n, f, m))
  <1>1. DeleteManifest(n, f, m) \in [src : Node, dst : Node, manifest : Manifest, stage : Stage]
    BY DEF DeleteManifest, Stage
  <1> QED
    BY <1>1, Exchanges DEF Fit, Moving, DeleteManifest

\* A process starts, with a member's name for its source.
LEMMA BootTypes ==
  ASSUME IInv, TypeInv, NEW n \in Node \ {Manager}, NEW f \in Node, Boot(n, f),
         budget' \in [timeouts : 0 .. MaxTimeouts, restarts : 0 .. MaxRestarts]
  PROVE  TypeInv'
  <1> DEFINE add == Add(n, f, budget'.restarts)
  <1>1. /\ config' = [config EXCEPT ![n] = f]
        /\ from' = [from EXCEPT ![n] = f]
        /\ mlist' = [mlist EXCEPT ![n] = {}]
        /\ asked' = [asked EXCEPT ![n] = {}]
        /\ excused' = excused \cup {x.manifest : x \in {y \in exch["find"] : y.src = n}}
        /\ UNCHANGED <<to, store, published>>
        /\ exch' = [[c \in Command |-> Abandoned(c, n)] EXCEPT !["add-node"] = @ \cup {add}]
    BY DEF Boot
  <1>2. PICK g \in Garbage : range' = [range EXCEPT ![n] = g]
    BY DEF Boot
  <1>3. AllFit(exch)
    BY DEF TypeInv
  <1>4. NodeTypes'
    <2>1. excused' \in SUBSET Manifest
      BY <1>1, <1>3, Fields DEF TypeInv, NodeTypes
    <2>2. g \in KeyRange
      BY GarbageAssumption
    <2>3. range' \in [Node -> KeyRange]
      BY <1>2, <2>2 DEF TypeInv, NodeTypes
    <2> QED
      BY <1>1, <2>1, <2>3 DEF TypeInv, NodeTypes
  <1>5. AllFit(exch')
    <2>1. Fit("add-node", add)
      <3>1. budget'.restarts \in 0 .. MaxRestarts
        OBVIOUS
      <3> QED
        BY <3>1, AddFits
    <2> HIDE DEF add
    <2>2. /\ exch' = [c \in Command |-> exch'[c]]
          /\ exch'["add-node"] = Abandoned("add-node", n) \cup {add}
          /\ \A c \in Command \ {"add-node"} : exch'[c] = Abandoned(c, n)
      BY <1>1 DEF Command
    <2>3. ASSUME NEW c \in Command, NEW x \in Abandoned(c, n)
          PROVE  Fit(c, x)
      <3>1. CASE x \in exch[c]
        BY <1>3, <3>1 DEF AllFit
      <3>2. CASE x \notin exch[c]
        <4>1. c \in Staged
          BY <3>2 DEF Abandoned, Staged
        <4>2. PICK y \in exch[c] : x = [y EXCEPT !.stage = "late"]
          BY <3>2 DEF Abandoned
        <4> QED
          BY <1>3, <4>1, <4>2, StageFits DEF AllFit, Stage
      <3> QED
        BY <3>1, <3>2
    <2>4. ASSUME NEW c \in Command, NEW x \in exch'[c]
          PROVE  Fit(c, x)
      <3>1. CASE c = "add-node"
        BY <2>1, <2>2, <2>3, <3>1
      <3>2. CASE c # "add-node"
        BY <2>2, <2>3, <3>2
      <3> QED
        BY <3>1, <3>2
    <2> QED
      BY <2>2, <2>4 DEF AllFit
  <1>6. \A k \in Node : from[k] \in Node => from'[k] \in Node
    BY <1>1 DEF TypeInv, NodeTypes
  <1>7. AllFit(exch)'
    BY <1>5, <1>6, FitStays
  <1>8. LeadInv'
    <2>1. \A c \in {"ver", "fetch", "coordination"} : exch[c] = {} => exch'[c] = {}
      BY <1>1 DEF Command, Abandoned
    <2> QED
      BY <1>1, <1>6, <2>1, ManagerAssumption DEF TypeInv, LeadInv
  <1>9. BoundInv'
    BY <1>1 DEF TypeInv, BoundInv
  <1> QED
    BY <1>4, <1>7, <1>8, <1>9 DEF TypeInv

\* A process that ends and is started again keeps the types.
LEMMA ExitTypes ==
  ASSUME IInv, TypeInv, NEW n, Exit(n)
  PROVE  TypeInv'
  <1>1. n \in Node \ {Manager} /\ config[n] \in Node /\ Boot(n, config[n])
    BY DEF Exit, TypeInv, NodeTypes
  <1>2. budget' \in [timeouts : 0 .. MaxTimeouts, restarts : 0 .. MaxRestarts]
    <2>1. /\ budget.restarts > 0
          /\ budget' = [budget EXCEPT !.restarts = @ - 1]
      BY DEF Exit
    <2>2. budget \in [timeouts : 0 .. MaxTimeouts, restarts : 0 .. MaxRestarts]
      BY DEF TypeInv, NodeTypes
    <2> QED
      BY <2>1, <2>2, Bounds
  <1> QED
    BY <1>1, <1>2, BootTypes

\* A new ring, whose bounds are in order, is published with its two ends.
LEMMA PublishTypes ==
  ASSUME IInv, IInv', TypeInv, NEW ring \in File, Bounded(ring), NEW rest, AllFit(rest),
         Publish(ring, rest), NEW f \in Node, NEW t \in Node, SetFromTo(f, t),
         UNCHANGED <<config, range, mlist, store, budget, asked, excused>>
  PROVE  TypeInv'
  <1> DEFINE v == version[Manager] + 1
             xs == VersionCommands(ring, v)
  <1>1. /\ from' = [from EXCEPT ![Manager] = f] /\ to' = t
        /\ published' = [published EXCEPT ![v] = ring]
        /\ exch' = [rest EXCEPT !["ver"] = @ \cup xs]
    BY DEF Publish, SetFromTo
  <1>2. v \in Version
    BY Bounds DEF Publish, IInv, NodeInv, Version
  <1>3. NodeTypes'
    BY <1>1 DEF TypeInv, NodeTypes
  <1>4. \A k \in Node : from[k] \in Node => from'[k] \in Node
    BY <1>1 DEF TypeInv, NodeTypes
  <1>5. AllFit(exch')
    <2> HIDE DEF xs
    <2>1. /\ exch' = [c \in Command |-> exch'[c]]
          /\ \A c \in Command \ {"ver"} : exch'[c] = rest[c]
      BY <1>1 DEF AllFit, Command
    <2>2. ASSUME NEW x \in exch'["ver"]
          PROVE  Fit("ver", x)
      <3>1. VerOK(x)'
        BY DEF IInv, ExchInv
      <3>2. x \in [dst : Node, version : Version, stage : Stage]
        BY <3>1 DEF VerOK
      <3> QED
        BY <3>2, Exchanges DEF Fit, Moving
    <2>3. ASSUME NEW c \in Command, NEW x \in exch'[c]
          PROVE  Fit(c, x)
      <3>1. CASE c = "ver"
        BY <2>2, <3>1
      <3>2. CASE c # "ver"
        BY <2>1, <3>2 DEF AllFit
      <3> QED
        BY <3>1, <3>2
    <2> QED
      BY <2>1, <2>3 DEF AllFit
  <1>6. AllFit(exch)'
    BY <1>4, <1>5, FitStays
  <1>7. LeadInv'
    BY <1>1, ManagerAssumption DEF TypeInv, NodeTypes, LeadInv
  <1>8. BoundInv'
    BY <1>1, <1>2 DEF TypeInv, BoundInv, IInv, NodeInv
  <1> QED
    BY <1>3, <1>6, <1>7, <1>8 DEF TypeInv

\* The manager's file is the one of its version.
LEMMA ManagerBounded ==
  ASSUME IInv, TypeInv
  PROVE  Bounded(file[Manager])
  <1>1. version[Manager] \in Version /\ version[Manager] # Unset
    BY Bounds DEF IInv, NodeInv, Version, Unset
  <1>2. file[Manager] = published[version[Manager]]
    BY <1>1, ManagerAssumption DEF IInv, NodeInv, VersionNamesRing
  <1> QED
    BY <1>1, <1>2 DEF TypeInv, BoundInv

\* An add keeps the types, whatever bound it writes.
LEMMA AddTypes ==
  ASSUME IInv, TypeInv, NEW x \in exch["add-node"], HandleAddCommand(x)
  PROVE  TypeInv'
  <1> DEFINE ring == file[Manager]
             rest == Replace("add-node", x, {})
             new == AddNode(ring, x.from, x.src)
  <1>0. x.src \in Node /\ x.from \in Node /\ AllFit(exch)
    BY Fields DEF TypeInv
  <1>1. AllFit(rest)
    BY <1>0, ReplaceFits DEF Command
  <1>2. SetFromTo(x.from, x.src)
        /\ UNCHANGED <<config, range, mlist, store, budget, asked, excused>>
    BY DEF HandleAddCommand
  <1>3. CASE x.from \in Members(ring)
    <2>1. Publish(new, rest) /\ Ring!AddReadable(x.from)
      BY <1>3 DEF HandleAddCommand
    <2>2. ring[IndexOf(ring, x.from)].start >= 0 /\ ring[IndexOf(ring, x.from)].end >= 0
      BY <2>1 DEF Ring!AddReadable, Ring!Readable, Ring!IndexOf, IndexOf
    <2>3. Bounded(new)
      BY <1>0, <1>3, <2>2, ManagerEntries, ManagerBounded, AddNodeBounded
    <2>4. new \in File
      BY <1>0, <1>3, ManagerEntries, AddNodeNodes
    <2>5. IInv'
      BY AddKeeps
    <2> HIDE DEF rest, new
    <2> QED
      BY <1>0, <1>1, <1>2, <2>1, <2>3, <2>4, <2>5, PublishTypes
  <1>4. CASE x.from \notin Members(ring)
    <2>1. exch' = rest /\ published' = published
      BY <1>4 DEF HandleAddCommand
    <2>2. from' = [from EXCEPT ![Manager] = x.from] /\ to' = x.src
      BY <1>2 DEF SetFromTo
    <2> HIDE DEF rest
    <2>3. \A k \in Node : from[k] \in Node => from'[k] \in Node
      BY <1>0, <2>2 DEF TypeInv, NodeTypes
    <2>4. AllFit(exch)'
      BY <1>1, <2>1, <2>3, FitStays
    <2>5. NodeTypes' /\ LeadInv'
      BY <1>0, <1>2, <2>2, ManagerAssumption DEF TypeInv, NodeTypes, LeadInv
    <2> QED
      BY <2>1, <2>4, <2>5 DEF TypeInv, BoundInv
  <1> QED
    BY <1>3, <1>4

\* So does a delete.
LEMMA DeleteTypes ==
  ASSUME IInv, TypeInv, NEW f \in Node, NEW t \in Node, HandleDeleteCommand(f, t)
  PROVE  TypeInv'
  <1> DEFINE new == DelNode(file[Manager], f, t, [start |-> 0, end |-> 0])
  <1>1. /\ Publish(new, exch) /\ SetFromTo(f, t) /\ Ring!SafeDelete(f, t)
        /\ UNCHANGED <<config, range, mlist, store, budget, asked, excused>>
    BY DEF HandleDeleteCommand
  <1>2. f \in Members(file[Manager])
    BY <1>1 DEF Ring!SafeDelete, Ring!Members, Members
  <1>3. new \in File /\ Bounded(new)
    BY <1>2, ManagerEntries, ManagerBounded, DelNodeNodes, DelNodeBounded
  <1>4. IInv' /\ AllFit(exch)
    BY DeleteKeeps DEF TypeInv
  <1> HIDE DEF new
  <1> QED
    BY <1>1, <1>3, <1>4, PublishTypes

\* The manager has the two ends once an Interest about its ring is under way.
LEMMA Led ==
  ASSUME TypeInv, NEW c \in {"ver", "fetch", "coordination"}, exch[c] # {}
  PROVE  to \in Node /\ to # NoNode /\ from[Manager] \in Node
  BY NoNodeAssumption DEF TypeInv, LeadInv

\* The ring travels.
LEMMA RingStepsTypes ==
  ASSUME IInv, TypeInv, NEW x,
         \/ x \in exch["ver"] /\ HandleVersionCommand(x)
         \/ x \in exch["fetch"] /\ HandleFetchCommand(x)
         \/ x \in exch["fetch"] /\ OnFetchCommandResponse(x)
  PROVE  TypeInv'
  <1>0. /\ AllFit(exch)
        /\ budget \in [timeouts : 0 .. MaxTimeouts, restarts : 0 .. MaxRestarts]
        /\ excused \in SUBSET Manifest
        /\ {"ver", "fetch", "coordination"} \subseteq Staged
        /\ Staged \subseteq Command
    BY DEF TypeInv, NodeTypes, Staged, Command
  <1>1. CASE x \in exch["ver"] /\ HandleVersionCommand(x)
    <2> DEFINE xs == IF x.version # version[x.dst] THEN {Fetch(x.dst, x.version)}
                     ELSE {}
    <2>1. exch' = AnswerAndSend("ver", x, x, "fetch", xs)
          /\ UNCHANGED <<nodeVars, budget, history>>
      BY <1>1 DEF HandleVersionCommand
    <2>2. Fit("ver", x) /\ x.dst \in Node /\ x.version \in Version
      BY <1>0, <1>1, Fields DEF AllFit
    <2>3. \A y \in xs : Fit("fetch", y)
      BY <2>2, FetchFits
    <2>4. to # NoNode
      BY <1>1, Led
    <2> HIDE DEF xs
    <2>5. AllFit(exch')
      BY <1>0, <2>1, <2>2, <2>3, AnswerAndSendFits
    <2> QED
      BY <1>0, <2>1, <2>4, <2>5, ExchStepTypes DEF history
  <1>2. CASE x \in exch["fetch"] /\ HandleFetchCommand(x)
    <2> DEFINE content == IF x.version = version[Manager] THEN file[Manager] ELSE <<>>
               y == [x EXCEPT !.content = content]
               xs == {Coordination(to, from[Manager])}
    <2>1. exch' = AnswerAndSend("fetch", x, y, "coordination", xs)
          /\ UNCHANGED <<nodeVars, budget, history>>
      BY <1>2 DEF HandleFetchCommand
    <2>2. x \in [src : Node, version : Version, stage : Stage, content : File]
      <3>1. Fit("fetch", x)
        BY <1>0, <1>2 DEF AllFit
      <3> QED
        BY <3>1, Exchanges DEF Fit
    <2>3. content \in File
      <3>1. <<>> \in File
        BY DEF File
      <3> QED
        BY <3>1, ManagerEntries
    <2> HIDE DEF content
    <2>4. y \in [src : Node, version : Version, stage : Stage, content : File]
      BY <2>2, <2>3
    <2>5. Fit("fetch", y)
      BY <2>4, Exchanges DEF Fit, Moving
    <2>6. to # NoNode /\ \A z \in xs : Fit("coordination", z)
      BY <1>2, Led, CoordinationFits
    <2> HIDE DEF xs, y
    <2>7. AllFit(exch')
      BY <1>0, <2>1, <2>5, <2>6, AnswerAndSendFits
    <2> QED
      BY <1>0, <2>1, <2>6, <2>7, ExchStepTypes DEF history
  <1>3. CASE x \in exch["fetch"] /\ OnFetchCommandResponse(x)
    <2>1. CASE Exit(x.src)
      BY <2>1, ExitTypes
    <2>2. CASE ~Exit(x.src)
      <3>1. /\ exch' = Replace("fetch", x, {})
            /\ UNCHANGED <<config, from, to, mlist, store, budget, history>>
        BY <1>3, <2>2 DEF OnFetchCommandResponse
      <3>2. AllFit(exch')
        BY <1>0, <3>1, ReplaceFits
      <3>3. AllFit(exch)'
        BY <3>1, <3>2, FitStays
      <3>4. range' \in [Node -> KeyRange]
        <4>1. CASE range' = range
          BY <4>1 DEF TypeInv, NodeTypes
        <4>2. CASE range' # range
          <5> DEFINE i == IndexOf(x.content, x.src)
                     e == x.content[i]
          <5>1. /\ x.content # <<>> /\ x.src \in Members(x.content)
                /\ Ring!Readable(e)
                /\ range' = [range EXCEPT ![x.src] =
                               [start |-> e.start, end |-> e.end]]
            BY <1>3, <2>2, <4>2 DEF OnFetchCommandResponse
          <5>2. FetchOK(x)
            BY <1>3 DEF IInv, ExchInv
          <5>3. /\ x.version \in Version /\ x.content \in File
                /\ x.content = published[x.version]
            BY <5>1, <5>2 DEF FetchOK
          <5>4. Bounded(x.content)
            BY <5>3 DEF TypeInv, BoundInv
          <5>5. i \in DOMAIN x.content
            BY <5>1, <5>3, FirstEntry
          <5>6. e.start \in -1 .. MaxKey /\ e.end \in -1 .. MaxKey
            BY <5>4, <5>5 DEF Bounded
          <5> HIDE DEF i, e
          <5>7. [start |-> e.start, end |-> e.end] \in KeyRange
            <6>1. MaxKey \in Int
              BY BaseAssumption DEF MaxKey
            <6> QED
              BY <5>1, <5>6, <6>1 DEF Ring!Readable, KeyRange, Key
          <5> QED
            BY <5>1, <5>7 DEF TypeInv, NodeTypes
        <4> QED
          BY <4>1, <4>2
      <3>5. NodeTypes'
        BY <3>1, <3>4 DEF TypeInv, NodeTypes, history
      <3>6. LeadInv'
        <4>1. to # NoNode
          BY <1>3, Led
        <4> QED
          BY <3>1, <4>1 DEF TypeInv, LeadInv
      <3> QED
        BY <3>1, <3>3, <3>5, <3>6 DEF TypeInv, BoundInv, history
    <2> QED
      BY <2>1, <2>2
  <1> QED
    BY <1>1, <1>2, <1>3

\* What Replace and Answer leave of the Interests about the ring.
LEMMA RingUntouched ==
  ASSUME AllFit(exch), NEW c \in Command \ {"ver", "fetch", "coordination"}
  PROVE  /\ \A x, xs : \A d \in {"ver", "fetch", "coordination"} :
              Replace(c, x, xs)[d] = exch[d]
         /\ \A x, y : \A d \in {"ver", "fetch", "coordination"} :
              Answer(c, x, y)[d] = exch[d]
  <1>1. ASSUME NEW x, NEW xs, NEW d \in {"ver", "fetch", "coordination"}
        PROVE  Replace(c, x, xs)[d] = exch[d]
    BY DEF AllFit, Replace
  <1> QED
    BY <1>1 DEF Answer

\* The manifests follow.
LEMMA MigrationStepsTypes ==
  ASSUME IInv, TypeInv, NEW x,
         \/ HandleCoordinationCommand(x)
         \/ HandleManifestListCommand(x)
         \/ OnManifestListCommandResponse(x)
         \/ HandleFindCommand(x)
         \/ OnManifestCommandResponse(x)
         \/ OnCompleteCommandResponse(x)
         \/ HandleOnlyDeleteManifestCommand(x)
  PROVE  TypeInv'
  <1>0. /\ AllFit(exch) /\ NodeTypes /\ LeadInv /\ BoundInv
        /\ budget \in [timeouts : 0 .. MaxTimeouts, restarts : 0 .. MaxRestarts]
        /\ excused \in SUBSET Manifest
        /\ {"coordination", "manifestlist", "find", "only-delete-manifest"}
             \subseteq Staged
        /\ Staged \subseteq Command /\ "complete" \in Command
        /\ {"manifestlist", "find", "complete", "only-delete-manifest"}
             \subseteq Command \ {"ver", "fetch", "coordination"}
    BY DEF TypeInv, NodeTypes, Staged, Command
  <1>1. CASE HandleCoordinationCommand(x)
    <2>1. /\ x \in exch["coordination"]
          /\ from' = [from EXCEPT ![x.dst] = x.from]
          /\ exch' = AnswerAndSend("coordination", x, x, "manifestlist",
                       {ManifestListOf(x.dst, x.from)})
          /\ UNCHANGED <<config, range, to, mlist, store, budget, history>>
      BY <1>1 DEF HandleCoordinationCommand, Arriving
    <2>2. x.dst \in Node /\ x.from \in Node
      BY <1>0, <2>1, Fields
    <2>3. \A n \in Node : from[n] \in Node => from'[n] \in Node
      BY <1>0, <2>1, <2>2 DEF NodeTypes
    <2>4. AllFit(exch)'
      <3> DEFINE a == Answer("coordination", x, x)
      <3>1. Fit("coordination", x)
        BY <1>0, <2>1 DEF AllFit
      <3>2. AllFit(a)
        BY <1>0, <3>1, AnswerFits
      <3> HIDE DEF a
      <3>3. /\ exch' = [c \in Command |-> exch'[c]]
            /\ exch'["manifestlist"] =
                 a["manifestlist"] \cup {ManifestListOf(x.dst, x.from)}
            /\ \A c \in Command \ {"manifestlist"} : exch'[c] = a[c]
        BY <1>0, <2>1, <3>2 DEF AnswerAndSend, AllFit, a
      <3>4. ASSUME NEW c \in Command, NEW z \in a[c]
            PROVE  z \in Exchange(c) /\ (c \in Moving => from'[z.src] \in Node)
        <4>1. Fit(c, z)
          BY <3>2 DEF AllFit
        <4>2. CASE c \in Moving
          <5>1. z.src \in Node
            <6>1. CASE c = "manifestlist"
              <7>1. z \in [src : Node, dst : Node, stage : Stage, content : SUBSET Manifest]
                BY <4>1, <6>1, Exchanges DEF Fit
              <7> QED
                BY <7>1
            <6>2. CASE c # "manifestlist"
              <7>1. z \in exch[c]
                <8>1. c \in Command \ {"coordination"}
                  BY <4>2 DEF Moving
                <8> QED
                  BY <3>4, <8>1, <1>0 DEF a, Answer, Replace, AllFit
              <7> QED
                BY <1>0, <4>2, <6>2, <7>1, Fields DEF Moving
            <6> QED
              BY <6>1, <6>2
          <5> QED
            BY <2>3, <4>1, <4>2, <5>1 DEF Fit
        <4>3. CASE c \notin Moving
          BY <4>1, <4>3 DEF Fit
        <4> QED
          BY <4>2, <4>3
      <3>5. LET z == ManifestListOf(x.dst, x.from)
            IN  z \in Exchange("manifestlist") /\ from'[z.src] \in Node
        <4> DEFINE z == ManifestListOf(x.dst, x.from)
        <4>1. z \in [src : Node, dst : Node, stage : Stage, content : SUBSET Manifest]
          BY <2>2 DEF ManifestListOf, Stage
        <4>2. z.src = x.dst
          BY DEF ManifestListOf
        <4>3. from'[x.dst] = x.from
          BY <1>0, <2>1, <2>2 DEF NodeTypes
        <4> QED
          BY <2>2, <4>1, <4>2, <4>3, Exchanges
      <3>6. ASSUME NEW c \in Command, NEW z \in exch'[c]
            PROVE  z \in Exchange(c) /\ (c \in Moving => from'[z.src] \in Node)
        <4>1. CASE c = "manifestlist"
          BY <3>3, <3>4, <3>5, <4>1
        <4>2. CASE c # "manifestlist"
          BY <3>3, <3>4, <4>2
        <4> QED
          BY <4>1, <4>2
      <3> QED
        BY <3>3, <3>6 DEF AllFit, Fit
    <2>5. NodeTypes'
      BY <1>0, <2>1, <2>2 DEF NodeTypes, history
    <2>6. LeadInv'
      <3>1. to \in Node /\ from[Manager] \in Node
        BY <2>1, Led
      <3> QED
        BY <2>1, <2>3, <3>1, ManagerAssumption DEF LeadInv
    <2> QED
      BY <1>0, <2>1, <2>4, <2>5, <2>6 DEF TypeInv, BoundInv, history
  <1>2. CASE HandleManifestListCommand(x)
    <2> DEFINE y == [x EXCEPT !.content = store[x.dst]]
    <2>1. /\ x \in exch["manifestlist"]
          /\ exch' = Answer("manifestlist", x, y)
          /\ UNCHANGED <<nodeVars, budget, history>>
      BY <1>2 DEF HandleManifestListCommand, Arriving
    <2>2. /\ x \in [src : Node, dst : Node, stage : Stage, content : SUBSET Manifest]
          /\ from[x.src] \in Node
      <3>1. Fit("manifestlist", x)
        BY <1>0, <2>1 DEF AllFit
      <3> QED
        BY <3>1, Exchanges DEF Fit, Moving
    <2>3. store[x.dst] \in SUBSET Manifest
      BY <1>0, <2>2 DEF NodeTypes
    <2>4. /\ y \in [src : Node, dst : Node, stage : Stage, content : SUBSET Manifest]
          /\ y.src = x.src
      BY <2>2, <2>3
    <2>5. Fit("manifestlist", y)
      BY <2>2, <2>4, Exchanges DEF Fit
    <2> HIDE DEF y
    <2>6. AllFit(exch')
      BY <1>0, <2>1, <2>5, AnswerFits
    <2>7. to = NoNode => \A c \in {"ver", "fetch", "coordination"} : exch'[c] = {}
      BY <1>0, <2>1, RingUntouched, NoNodeAssumption DEF LeadInv
    <2> QED
      BY <1>0, <2>1, <2>6, <2>7, ExchStepTypes DEF history
  <1>3. CASE OnManifestListCommandResponse(x)
    <2> DEFINE n == x.src
               sel == Selected(n, x.content)
               fs == {Find(n, from[n], m) : m \in sel}
               r == Replace("manifestlist", x, {})
    <2>1. /\ x \in exch["manifestlist"]
          /\ mlist' = [mlist EXCEPT ![n] = x.content]
          /\ exch' = [r EXCEPT !["find"] = @ \cup fs,
                               !["complete"] = @ \cup {Complete(n)}]
          /\ asked' = [asked EXCEPT ![n] = {from[n]} \X sel]
          /\ UNCHANGED <<config, range, from, to, store, budget, published, excused>>
      BY <1>3 DEF OnManifestListCommandResponse, Returning
    <2>2. n \in Node /\ x.content \in SUBSET Manifest /\ from[n] \in Node
      BY <1>0, <2>1, Fields
    <2>3. sel \in SUBSET Manifest
      BY <2>2 DEF Selected
    <2>4. AllFit(r)
      BY <1>0, ReplaceFits
    <2>5. \A c \in {"ver", "fetch", "coordination"} : r[c] = exch[c]
      BY <1>0, RingUntouched
    <2> HIDE DEF r, sel
    <2>6. \A y \in fs : Fit("find", y)
      BY <2>2, <2>3, FindFits
    <2>7. Fit("complete", Complete(n))
      BY <2>2, CompleteFits
    <2> HIDE DEF fs, n
    <2>8. /\ exch' = [c \in Command |-> exch'[c]]
          /\ exch'["find"] = r["find"] \cup fs
          /\ exch'["complete"] = r["complete"] \cup {Complete(n)}
          /\ \A c \in Command \ {"find", "complete"} : exch'[c] = r[c]
      BY <1>0, <2>1, <2>4 DEF AllFit
    <2>9. ASSUME NEW c \in Command, NEW z \in exch'[c]
          PROVE  Fit(c, z)
      <3>1. CASE c = "find"
        BY <2>4, <2>6, <2>8, <3>1 DEF AllFit
      <3>2. CASE c = "complete"
        BY <2>4, <2>7, <2>8, <3>2 DEF AllFit
      <3>3. CASE c \notin {"find", "complete"}
        BY <2>4, <2>8, <3>3 DEF AllFit
      <3> QED
        BY <3>1, <3>2, <3>3
    <2>10. AllFit(exch')
      BY <2>8, <2>9 DEF AllFit
    <2>11. AllFit(exch)'
      BY <2>1, <2>10, FitStays
    <2>12. NodeTypes'
      BY <1>0, <2>1, <2>2, <2>3 DEF NodeTypes
    <2>13. LeadInv'
      <3>1. \A c \in {"ver", "fetch", "coordination"} : exch'[c] = exch[c]
        BY <2>5, <2>8 DEF Command
      <3> QED
        BY <1>0, <2>1, <3>1 DEF LeadInv
    <2> QED
      BY <1>0, <2>1, <2>11, <2>12, <2>13 DEF TypeInv, BoundInv
  <1>4. CASE HandleFindCommand(x)
    <2> DEFINE b == x.manifest \in store[x.dst]
               y == [x EXCEPT !.found = b]
    <2>1. /\ x \in exch["find"]
          /\ exch' = Answer("find", x, y)
          /\ UNCHANGED <<nodeVars, budget, history>>
      BY <1>4 DEF HandleFindCommand, Arriving
    <2>2. /\ x \in [src : Node, dst : Node, manifest : Manifest, stage : Stage,
                   found : BOOLEAN]
          /\ from[x.src] \in Node
      <3>1. Fit("find", x)
        BY <1>0, <2>1 DEF AllFit
      <3> QED
        BY <3>1, Exchanges DEF Fit, Moving
    <2>3. /\ y \in [src : Node, dst : Node, manifest : Manifest, stage : Stage,
                   found : BOOLEAN]
          /\ y.src = x.src
      <3>1. b \in BOOLEAN
        OBVIOUS
      <3> HIDE DEF b
      <3> QED
        BY <2>2, <3>1
    <2>4. Fit("find", y)
      BY <2>2, <2>3, Exchanges DEF Fit
    <2> HIDE DEF y
    <2>5. AllFit(exch')
      BY <1>0, <2>1, <2>4, AnswerFits
    <2>6. to = NoNode => \A c \in {"ver", "fetch", "coordination"} : exch'[c] = {}
      BY <1>0, <2>1, RingUntouched, NoNodeAssumption DEF LeadInv
    <2> QED
      BY <1>0, <2>1, <2>5, <2>6, ExchStepTypes DEF history
  <1>5. CASE OnManifestCommandResponse(x)
    <2>1. CASE Exit(x.src)
      BY <2>1, ExitTypes
    <2>2. CASE ~Exit(x.src)
      <3>1. /\ x \in exch["find"]
            /\ store' = [store EXCEPT ![x.src] = @ \cup {x.manifest}]
            /\ exch' = Replace("find", x, {})
            /\ UNCHANGED <<config, range, from, to, mlist, budget, history>>
        BY <1>5, <2>2 DEF OnManifestCommandResponse, Returning
      <3>2. AllFit(exch)'
        BY <1>0, <3>1, ReplaceFits, FitStays
      <3>3. NodeTypes'
        BY <1>0, <3>1, Fields DEF NodeTypes, history
      <3>4. LeadInv'
        <4>1. \A c \in {"ver", "fetch", "coordination"} : exch'[c] = exch[c]
          BY <1>0, <3>1, RingUntouched
        <4> QED
          BY <1>0, <3>1, <4>1 DEF LeadInv
      <3> QED
        BY <1>0, <3>1, <3>2, <3>3, <3>4 DEF TypeInv, BoundInv, history
    <2> QED
      BY <2>1, <2>2
  <1>6. CASE OnCompleteCommandResponse(x)
    <2> DEFINE n == x.src
               sel == Selected(n, mlist[n])
               ds == {DeleteManifest(n, from[n], m) : m \in sel}
               r == Replace("complete", x, {})
    <2>1. /\ x \in exch["complete"]
          /\ exch' = [r EXCEPT !["only-delete-manifest"] = @ \cup ds]
          /\ excused' = excused \cup {m \in sel : <<from[n], m>> \notin asked[n]}
          /\ UNCHANGED <<nodeVars, budget, published, asked>>
      BY <1>6 DEF OnCompleteCommandResponse, Arriving
    <2>2. n \in Node /\ from[n] \in Node
      BY <1>0, <2>1, Fields
    <2>3. sel \in SUBSET Manifest
      BY <1>0, <2>2 DEF Selected, NodeTypes
    <2>4. AllFit(r)
      BY <1>0, ReplaceFits
    <2>5. \A c \in {"ver", "fetch", "coordination"} : r[c] = exch[c]
      BY <1>0, RingUntouched
    <2> HIDE DEF r, sel
    <2>6. \A y \in ds : Fit("only-delete-manifest", y)
      BY <2>2, <2>3, DeleteFits
    <2> HIDE DEF ds, n
    <2>7. /\ exch' = [c \in Command |-> exch'[c]]
          /\ exch'["only-delete-manifest"] = r["only-delete-manifest"] \cup ds
          /\ \A c \in Command \ {"only-delete-manifest"} : exch'[c] = r[c]
      BY <1>0, <2>1, <2>4 DEF AllFit
    <2>8. ASSUME NEW c \in Command, NEW z \in exch'[c]
          PROVE  Fit(c, z)
      <3>1. CASE c = "only-delete-manifest"
        BY <2>4, <2>6, <2>7, <3>1 DEF AllFit
      <3>2. CASE c # "only-delete-manifest"
        BY <2>4, <2>7, <3>2 DEF AllFit
      <3> QED
        BY <3>1, <3>2
    <2>9. AllFit(exch')
      BY <2>7, <2>8 DEF AllFit
    <2>10. to = NoNode => \A c \in {"ver", "fetch", "coordination"} : exch'[c] = {}
      <3>1. \A c \in {"ver", "fetch", "coordination"} : exch'[c] = exch[c]
        BY <2>5, <2>7 DEF Command
      <3> QED
        BY <1>0, <3>1, NoNodeAssumption DEF LeadInv
    <2>11. excused' \in SUBSET Manifest
      BY <1>0, <2>1, <2>3
    <2> QED
      BY <1>0, <2>1, <2>9, <2>10, <2>11, ExchStepTypes
  <1>7. CASE HandleOnlyDeleteManifestCommand(x)
    <2>1. /\ x \in exch["only-delete-manifest"]
          /\ store' = [store EXCEPT ![x.dst] = @ \ {x.manifest}]
          /\ exch' = Answer("only-delete-manifest", x, x)
          /\ UNCHANGED <<config, range, from, to, mlist, budget, history>>
      BY <1>7 DEF HandleOnlyDeleteManifestCommand, Arriving
    <2>2. Fit("only-delete-manifest", x)
      BY <1>0, <2>1 DEF AllFit
    <2>3. AllFit(exch)'
      BY <1>0, <2>1, <2>2, AnswerFits, FitStays
    <2>4. NodeTypes'
      BY <1>0, <2>1, Fields DEF NodeTypes, history
    <2>5. LeadInv'
      <3>1. \A c \in {"ver", "fetch", "coordination"} : exch'[c] = exch[c]
        BY <1>0, <2>1, RingUntouched
      <3> QED
        BY <1>0, <2>1, <3>1 DEF LeadInv
    <2> QED
      BY <1>0, <2>1, <2>3, <2>4, <2>5 DEF TypeInv, BoundInv, history
  <1> QED
    BY <1>1, <1>2, <1>3, <1>4, <1>5, <1>6, <1>7

\* So does an answer that its requester ignores.
LEMMA IgnoreTypes ==
  ASSUME TypeInv, NEW c \in {"ver", "coordination", "only-delete-manifest"}, NEW x,
         IgnoreResponse(c, x)
  PROVE  TypeInv'
  <1>1. exch' = Replace(c, x, {}) /\ UNCHANGED <<nodeVars, budget, history>>
    BY DEF IgnoreResponse
  <1>2. /\ AllFit(exch) /\ c \in Command
        /\ {"ver", "fetch", "coordination"} \subseteq Command
        /\ budget \in [timeouts : 0 .. MaxTimeouts, restarts : 0 .. MaxRestarts]
        /\ excused \in SUBSET Manifest
    BY DEF TypeInv, NodeTypes, Command
  <1>3. AllFit(exch')
    BY <1>1, <1>2, ReplaceFits
  <1>4. \A d \in {"ver", "fetch", "coordination"} : exch[d] = {} => exch'[d] = {}
    BY <1>1, <1>2 DEF AllFit, Replace
  <1> QED
    BY <1>1, <1>2, <1>3, <1>4, ExchStepTypes, NoNodeAssumption
       DEF history, TypeInv, LeadInv

\* What a timeout takes from the budget.
LEMMA TimeoutBudget ==
  ASSUME TypeInv, budget.timeouts > 0, budget' = [budget EXCEPT !.timeouts = @ - 1]
  PROVE  budget' \in [timeouts : 0 .. MaxTimeouts, restarts : 0 .. MaxRestarts]
  <1>1. budget \in [timeouts : 0 .. MaxTimeouts, restarts : 0 .. MaxRestarts]
    BY DEF TypeInv, NodeTypes
  <1> QED
    BY <1>1, Bounds

\* A requester gives up, and repeats what fits.
LEMMA GiveUpTypes ==
  ASSUME TypeInv, NEW c \in Staged, NEW x, NEW xs, \A y \in xs : Fit(c, y),
         GiveUp(c, x, xs), UNCHANGED <<published, asked>>, excused' \in SUBSET Manifest
  PROVE  TypeInv'
  <1>1. AllFit(exch) /\ c \in Command
    BY DEF TypeInv, Staged
  <1>2. AllFit(exch')
    BY <1>1, GiveUpFits
  <1>3. budget' \in [timeouts : 0 .. MaxTimeouts, restarts : 0 .. MaxRestarts]
    BY TimeoutBudget DEF GiveUp
  <1>4. ASSUME to = NoNode, NEW d \in {"ver", "fetch", "coordination"}
        PROVE  exch'[d] = {}
    <2>1. exch[d] = {}
      BY <1>4, NoNodeAssumption DEF TypeInv, LeadInv
    <2>2. d # c
      BY <2>1, <1>4, Led DEF GiveUp
    <2>3. d \in Command
      BY DEF Command
    <2>4. \A ys : Replace(c, x, ys)[d] = exch[d]
      BY <1>1, <2>2, <2>3 DEF Replace, AllFit
    <2> QED
      BY <2>1, <2>4 DEF GiveUp
  <1>5. UNCHANGED nodeVars
    BY DEF GiveUp
  <1> QED
    BY <1>2, <1>3, <1>4, <1>5, ExchStepTypes

\* So does a timeout.
LEMMA TimeoutTypes ==
  ASSUME IInv, TypeInv, Timeout
  PROVE  TypeInv'
  <1>0. /\ AllFit(exch) /\ excused \in SUBSET Manifest
        /\ {"ver", "fetch", "coordination", "manifestlist", "find",
            "only-delete-manifest"} \subseteq Staged
        /\ {"add-node", "complete"} \subseteq Command \ {"ver", "fetch", "coordination"}
    BY DEF TypeInv, NodeTypes, Staged, Command
  <1>1. ASSUME NEW c \in {"add-node", "complete"}, NEW x, exch' = Replace(c, x, {}),
               budget.timeouts > 0, budget' = [budget EXCEPT !.timeouts = @ - 1],
               UNCHANGED <<nodeVars, history>>
        PROVE  TypeInv'
    <2>1. AllFit(exch')
      BY <1>0, <1>1, ReplaceFits
    <2>2. budget' \in [timeouts : 0 .. MaxTimeouts, restarts : 0 .. MaxRestarts]
      BY <1>1, TimeoutBudget
    <2>3. \A d \in {"ver", "fetch", "coordination"} : exch'[d] = exch[d]
      BY <1>0, <1>1, RingUntouched
    <2> QED
      BY <1>0, <1>1, <2>1, <2>2, <2>3, ExchStepTypes, NoNodeAssumption
         DEF history, TypeInv, LeadInv
  <1>2. ASSUME NEW x \in exch["add-node"], OnAddCommandTimeout(x)
        PROVE  TypeInv'
    BY <1>1, <1>2 DEF OnAddCommandTimeout
  <1>3. ASSUME NEW x \in exch["complete"], OnCompleteCommandTimeout(x)
        PROVE  TypeInv'
    BY <1>1, <1>3 DEF OnCompleteCommandTimeout
  <1>4. ASSUME NEW x \in exch["ver"], OnVersionCommandTimeout(x)
        PROVE  TypeInv'
    <2> DEFINE xs == VersionCommands(file[Manager], version[Manager])
    <2>1. \A y \in xs : Fit("ver", y)
      <3>1. \A i \in 2 .. Len(file[Manager]) : file[Manager][i].node \in Node
        <4>1. Len(file[Manager]) \in Nat
          BY ManagerEntries DEF File
        <4> QED
          BY <4>1, ManagerEntries
      <3>2. version[Manager] \in Version
        BY DEF IInv, NodeInv
      <3> QED
        BY <3>1, <3>2, VerFits DEF VersionCommands
    <2>2. /\ GiveUp("ver", x, xs) /\ UNCHANGED <<published, asked>>
          /\ excused' \in SUBSET Manifest
      BY <1>0, <1>4 DEF OnVersionCommandTimeout, history
    <2> HIDE DEF xs
    <2> QED
      BY <1>0, <2>1, <2>2, GiveUpTypes
  <1>5. ASSUME NEW x \in exch["fetch"], OnFetchCommandTimeout(x)
        PROVE  TypeInv'
    <2>1. Fit("fetch", Fetch(x.src, x.version))
      BY <1>0, Fields, FetchFits
    <2> QED
      BY <1>0, <1>5, <2>1, GiveUpTypes DEF OnFetchCommandTimeout, history
  <1>6. ASSUME NEW x \in exch["coordination"], OnCoordinationCommandTimeout(x)
        PROVE  TypeInv'
    <2>1. Fit("coordination", Coordination(to, from[Manager]))
      BY Led, CoordinationFits
    <2> QED
      BY <1>0, <1>6, <2>1, GiveUpTypes DEF OnCoordinationCommandTimeout, history
  <1>7. ASSUME NEW x \in exch["manifestlist"], OnManifestListCommandTimeout(x)
        PROVE  TypeInv'
    <2>1. Fit("manifestlist", ManifestListOf(x.src, from[x.src]))
      BY <1>0, Fields, ManifestListFits
    <2> QED
      BY <1>0, <1>7, <2>1, GiveUpTypes DEF OnManifestListCommandTimeout, history
  <1>8. ASSUME NEW x \in exch["find"], OnManifestCommandTimeout(x)
        PROVE  TypeInv'
    <2>1. excused' \in SUBSET Manifest
      BY <1>0, <1>8, Fields DEF OnManifestCommandTimeout
    <2> QED
      BY <1>0, <1>8, <2>1, GiveUpTypes DEF OnManifestCommandTimeout
  <1>9. ASSUME NEW x \in exch["only-delete-manifest"], OnDeleteManifestCommandTimeout(x)
        PROVE  TypeInv'
    BY <1>0, <1>9, GiveUpTypes DEF OnDeleteManifestCommandTimeout, history
  <1> QED
    BY <1>2, <1>3, <1>4, <1>5, <1>6, <1>7, <1>8, <1>9 DEF Timeout

\* The types hold initially, whatever the manager's disk has.
LEMMA InitStoredTypes ==
  ASSUME NEW ms \in SUBSET Manifest, InitStored(ms)
  PROVE  TypeInv
  <1>1. NodeTypes
    BY GarbageAssumption, Bounds DEF InitStored, NodeTypes
  <1>2. AllFit(exch)
    BY DEF InitStored, AllFit
  <1>3. LeadInv
    BY DEF InitStored, LeadInv, Command
  <1>4. ASSUME NEW v \in Version
        PROVE  Bounded(published[v])
    <2>1. published[v] = InitKeySpaceFile \/ published[v] = <<>>
      BY DEF InitStored
    <2>2. Bounded(<<>>)
      BY DEF Bounded
    <2>3. Bounded(InitKeySpaceFile)
      <3>1. MaxKey \in Nat
        BY KeySpaceSize
      <3> QED
        BY <3>1 DEF Bounded, InitKeySpaceFile
    <2> QED
      BY <2>1, <2>2, <2>3
  <1> QED
    BY <1>1, <1>2, <1>3, <1>4 DEF TypeInv, BoundInv

\* So they do in the initial states of the protocol.
LEMMA InitTypes == Init => TypeInv
  BY InitStoredTypes DEF Init

\* Every step keeps the types.
LEMMA NextTypes == IInv /\ TypeInv /\ [Next]_vars => TypeInv'
  <1> SUFFICES ASSUME IInv, TypeInv, [Next]_vars
               PROVE  TypeInv'
    OBVIOUS
  <1>1. ASSUME NEW f \in Node, NEW n \in Node, Start(n, f)
        PROVE  TypeInv'
    <2>1. n \in Node \ {Manager} /\ Boot(n, f) /\ budget' = budget
      BY <1>1 DEF Start
    <2> QED
      BY <2>1, BootTypes DEF TypeInv, NodeTypes
  <1>2. CASE Operate
    BY <1>1, <1>2, DeleteTypes DEF Operate
  <1>3. CASE Deliver
    <2>1. "ver" \in {"ver", "coordination", "only-delete-manifest"}
          /\ "coordination" \in {"ver", "coordination", "only-delete-manifest"}
          /\ "only-delete-manifest" \in {"ver", "coordination", "only-delete-manifest"}
      OBVIOUS
    <2> QED
      BY <1>3, <2>1, AddTypes, RingStepsTypes, MigrationStepsTypes, IgnoreTypes
         DEF Deliver
  <1>4. CASE Timeout
    BY <1>4, TimeoutTypes
  <1>5. ASSUME NEW n \in Node, Restart(n)
        PROVE  TypeInv'
    BY <1>5, ExitTypes DEF Restart
  <1>6. CASE UNCHANGED vars
    <2>1. /\ AllFit(exch')
          /\ UNCHANGED <<nodeVars, published, asked, exch, budget, excused>>
      BY <1>6 DEF TypeInv, vars, history
    <2> QED
      BY <2>1, ExchStepTypes, NoNodeAssumption DEF TypeInv, NodeTypes, LeadInv
  <1> QED
    BY <1>2, <1>3, <1>4, <1>5, <1>6 DEF Next

\* Every exchange has the fields its handler reads, whatever is lost, late or
\* restarted: a coordination always names two nodes, a retry has a node to ask,
\* and a node's range, taken from the file it fetched, is inside the key space,
\* although the manager's edits can leave an entry whose end is -1.
THEOREM TypeAlways == Spec => []TypeOK
  <1>1. IInv /\ TypeInv => TypeOK
    BY TypeInvType
  <1> QED
    BY <1>1, InitInv, NextInv, InitTypes, NextTypes, PTL DEF Spec

=============================================================================
