---------------------- MODULE KeySpaceMigration_proofs ----------------------
(***************************************************************************)
(* Proofs about the manifests that follow the keys: what can lose one.     *)
(*                                                                         *)
(* The first part is about an unreliable network whose nodes only join: a  *)
(* node is then started with one source for good, so that the sources are  *)
(* a tree, rooted in the manager, along which the manifests go down.       *)
(*                                                                         *)
(* The second part is about an orderly cluster, whose nodes join and leave *)
(* one after the other: all that is under way is then about the latest     *)
(* edit, and moves the manifests from one source to m_to.                  *)
(***************************************************************************)
EXTENDS KeySpaceHandle_proofs

-----------------------------------------------------------------------------
(* The tree of the sources.                                                *)

\* With a node, the nodes that it is the source of.
Closed(S) == \A n \in Node : config[n] \in S => n \in S

\* The nodes below the manager.
Rooted(n) == \A S \in SUBSET Node : Manager \in S /\ Closed(S) => n \in S

\* Node n was started with f for its source.
Linked(n, f) == n \in Node \ {Manager} /\ f \in Node /\ f = config[n]

\* An exchange of a migration is one between a node and its source.
Tied(c, x) ==
  /\ c = "add-node" => Linked(x.src, x.from)
  /\ c = "coordination" => Linked(x.dst, x.from)
  /\ c \in {"manifestlist", "find", "only-delete-manifest"} => Linked(x.src, x.dst)
  /\ c = "complete" => Linked(x.src, config[x.src])

AllTied(e) == \A c \in Command : \A x \in e[c] : Tied(c, x)

LinkInv ==
  /\ config[Manager] = NoNode
  /\ \A n \in Node \ {Manager} : from[n] = config[n]
  /\ to # NoNode => Linked(to, from[Manager])
  /\ AllTied(exch)

\* Only nodes below the manager store or receive a manifest.
RootInv ==
  /\ \A n \in Node : store[n] # {} => Rooted(n)
  /\ \A x \in exch["find"] : x.found /\ x.stage = "data" => Rooted(x.src)

\* Node n has the manifest m or is about to.
Holder(m, n) ==
  \/ m \in store[n]
  \/ \E x \in exch["find"] : x.src = n /\ x.manifest = m /\ x.stage # "late"

\* Node n will have m deleted, or is having it deleted, at its source.
Owes(n, m) ==
  \/ <<config[n], m>> \in asked[n]
  \/ \E x \in exch["only-delete-manifest"] : x.src = n /\ x.manifest = m

\* A manifest has a holder, and has one in every subtree with a node that may
\* have it deleted: whatever is deleted further up, the manifest is still there.
Kept(m) ==
  /\ \E n \in Node : Holder(m, n)
  /\ \A S \in SUBSET Node : \A n \in S :
       Closed(S) /\ Owes(n, m) => \E h \in S : Holder(m, h)

CopyInv == \A m \in Manifest : m \in excused \/ Kept(m)

LossInv == LinkInv /\ RootInv /\ CopyInv

\* The source of a node below the manager is not below that node: its subtree
\* without itself is closed, too.
LEMMA NoCycle ==
  ASSUME TypeInv, LinkInv, NEW d \in Node, Rooted(d)
  PROVE  \E T \in SUBSET Node :
           Closed(T) /\ d \notin T /\ \A k \in Node : config[k] = d => k \in T
  <1> DEFINE Above(n, T) == /\ Closed(T) /\ n \notin T
                            /\ \A k \in Node : config[k] = n => k \in T
             F == {n \in Node : \E T \in SUBSET Node : Above(n, T)}
  <1>0. config[Manager] = NoNode /\ config \in [Node -> Node \cup {NoNode}]
    BY DEF LinkInv, TypeInv, NodeTypes
  <1>1. Manager \in F
    <2> DEFINE T == Node \ {Manager}
    <2>1. Above(Manager, T)
      BY <1>0, ManagerAssumption, NoNodeAssumption DEF Closed
    <2> QED
      BY <2>1, ManagerAssumption
  <1>2. ASSUME NEW n \in Node, config[n] \in F
        PROVE  n \in F
    <2>1. PICK T \in SUBSET Node : Above(config[n], T)
      BY <1>2
    <2>2. n \in T
      BY <2>1
    <2> DEFINE U == T \ {n}
    <2>3. Closed(U)
      BY <2>1 DEF Closed
    <2>4. \A k \in Node : config[k] = n => k \in U
      BY <2>1, <2>2 DEF Closed
    <2>5. U \in SUBSET Node /\ n \notin U
      OBVIOUS
    <2> HIDE DEF U
    <2> QED
      BY <2>3, <2>4, <2>5
  <1>3. F \in SUBSET Node /\ Closed(F)
    BY <1>2 DEF Closed
  <1>4. d \in F
    BY <1>1, <1>3 DEF Rooted
  <1> QED
    BY <1>4

-----------------------------------------------------------------------------
(* Exchanges.                                                              *)

\* An exchange is tied whatever its stage.
LEMMA StageTied ==
  ASSUME NEW c \in Staged, NEW x \in Exchange(c), Tied(c, x), NEW s
  PROVE  Tied(c, [x EXCEPT !.stage = s])
  <1> DEFINE y == [x EXCEPT !.stage = s]
  <1>1. CASE c \in {"ver", "fetch"}
    BY <1>1 DEF Tied
  <1>2. CASE c = "coordination"
    <2>1. x \in [dst : Node, from : Node, stage : Stage]
      BY <1>2, Exchanges
    <2>2. y.dst = x.dst /\ y.from = x.from
      BY <2>1
    <2> QED
      BY <1>2, <2>2 DEF Tied
  <1>3. CASE c = "manifestlist"
    <2>1. x \in [src : Node, dst : Node, stage : Stage, content : SUBSET Manifest]
      BY <1>3, Exchanges
    <2>2. y.src = x.src /\ y.dst = x.dst
      BY <2>1
    <2> QED
      BY <1>3, <2>2 DEF Tied
  <1>4. CASE c = "find"
    <2>1. x \in [src : Node, dst : Node, manifest : Manifest, stage : Stage,
                 found : BOOLEAN]
      BY <1>4, Exchanges
    <2>2. y.src = x.src /\ y.dst = x.dst
      BY <2>1
    <2> QED
      BY <1>4, <2>2 DEF Tied
  <1>5. CASE c = "only-delete-manifest"
    <2>1. x \in [src : Node, dst : Node, manifest : Manifest, stage : Stage]
      BY <1>5, Exchanges
    <2>2. y.src = x.src /\ y.dst = x.dst
      BY <2>1
    <2> QED
      BY <1>5, <2>2 DEF Tied
  <1> QED
    BY <1>1, <1>2, <1>3, <1>4, <1>5 DEF Staged, Command

\* What replaces an exchange is tied, and so is the rest.
LEMMA ReplaceTied ==
  ASSUME AllFit(exch), AllTied(exch), NEW c \in Command, NEW x, NEW xs,
         \A y \in xs : Tied(c, y)
  PROVE  AllTied(Replace(c, x, xs))
  <1> DEFINE e == Replace(c, x, xs)
  <1>1. /\ e[c] = (exch[c] \ {x}) \cup xs
        /\ \A d \in Command \ {c} : e[d] = exch[d]
    BY DEF AllFit, Replace
  <1> HIDE DEF e
  <1>2. ASSUME NEW d \in Command, NEW z \in e[d]
        PROVE  Tied(d, z)
    <2>1. CASE d = c
      BY <1>1, <2>1 DEF AllTied
    <2>2. CASE d # c
      BY <1>1, <2>2 DEF AllTied
    <2> QED
      BY <2>1, <2>2
  <1> QED
    BY <1>2 DEF AllTied, e

\* An answer is tied as its Interest was.
LEMMA AnswerTied ==
  ASSUME AllFit(exch), AllTied(exch), NEW c \in Staged, NEW x,
         NEW y \in Exchange(c), Tied(c, y)
  PROVE  AllTied(Answer(c, x, y))
  <1>1. Tied(c, [y EXCEPT !.stage = "data"])
    BY StageTied
  <1>2. c \in Command
    BY DEF Staged
  <1> QED
    BY <1>1, <1>2, ReplaceTied DEF Answer

\* So are an answer and what the handler sends with it.
LEMMA AnswerAndSendTied ==
  ASSUME AllFit(exch), AllTied(exch), NEW c \in Staged, NEW x,
         NEW y \in Exchange(c), Tied(c, y), Fit(c, y),
         NEW d \in Command, NEW xs, \A z \in xs : Tied(d, z)
  PROVE  AllTied(AnswerAndSend(c, x, y, d, xs))
  <1> DEFINE a == Answer(c, x, y)
             e == [a EXCEPT ![d] = @ \cup xs]
  <1>1. AllTied(a) /\ AllFit(a)
    BY AnswerTied, AnswerFits
  <1> HIDE DEF a
  <1>2. /\ e[d] = a[d] \cup xs
        /\ \A b \in Command \ {d} : e[b] = a[b]
    BY <1>1 DEF AllFit
  <1>3. AnswerAndSend(c, x, y, d, xs) = e
    BY DEF AnswerAndSend, a
  <1> HIDE DEF e
  <1>4. AllTied(e)
    BY <1>1, <1>2 DEF AllTied
  <1> QED
    BY <1>3, <1>4

\* So is what a timeout leaves, and what is sent again after it.
LEMMA GiveUpTied ==
  ASSUME AllFit(exch), AllTied(exch), NEW c \in Staged, NEW x, NEW xs,
         \A y \in xs : Tied(c, y), GiveUp(c, x, xs)
  PROVE  AllTied(exch')
  <1>1. c \in Command /\ x \in exch[c]
    BY DEF Staged, GiveUp
  <1>2. Tied(c, [x EXCEPT !.stage = "late"])
    <2>1. Tied(c, x) /\ x \in Exchange(c)
      BY <1>1 DEF AllFit, AllTied, Fit
    <2> QED
      BY <2>1, StageTied
  <1>3. PICK ys : exch' = Replace(c, x, ys)
                  /\ ys \subseteq xs \cup {[x EXCEPT !.stage = "late"]}
    BY DEF GiveUp
  <1>4. \A y \in ys : Tied(c, y)
    BY <1>2, <1>3
  <1> QED
    BY <1>1, <1>3, <1>4, ReplaceTied

\* What is tied stays tied while no node gets another source.
LEMMA TiedStays ==
  ASSUME AllTied(exch'), UNCHANGED config
  PROVE  AllTied(exch)'
  BY DEF AllTied, Tied, Linked

\* A step that creates no new debt and takes no copy away.
LEMMA KeptStays ==
  ASSUME NEW m \in Manifest, Kept(m),
         \A S \in SUBSET Node : Closed(S)' => Closed(S),
         \A n \in Node : Holder(m, n) => Holder(m, n)',
         \A n \in Node : Owes(n, m)' => Owes(n, m) \/ Holder(m, n)'
  PROVE  Kept(m)'
  <1>1. \E n \in Node : Holder(m, n)'
    BY DEF Kept
  <1>2. ASSUME NEW S \in SUBSET Node, NEW n \in S, Closed(S)', Owes(n, m)'
        PROVE  \E h \in S : Holder(m, h)'
    <2>1. CASE Owes(n, m)
      <3>1. \E h \in S : Holder(m, h)
        BY <1>2, <2>1 DEF Kept
      <3> QED
        BY <3>1
    <2>2. CASE Holder(m, n)'
      BY <2>2
    <2> QED
      BY <1>2, <2>1, <2>2
  <1> QED
    BY <1>1, <1>2 DEF Kept

\* A step that leaves the disks, the finds and what was asked for alone.
LEMMA LossFrame ==
  ASSUME LossInv, UNCHANGED <<config, store, asked, excused>>,
         AllTied(exch'), exch'["find"] = exch["find"],
         \A y \in exch'["only-delete-manifest"] :
           \E x \in exch["only-delete-manifest"] :
             x.src = y.src /\ x.manifest = y.manifest,
         \A n \in Node \ {Manager} : from'[n] = config'[n],
         to' # NoNode => Linked(to', from'[Manager])
  PROVE  LossInv'
  <1>1. LinkInv'
    BY TiedStays DEF LossInv, LinkInv, Linked
  <1>2. RootInv'
    BY DEF LossInv, RootInv, Rooted, Closed
  <1>3. ASSUME NEW m \in Manifest, m \notin excused'
        PROVE  Kept(m)'
    <2>1. Kept(m)
      BY <1>3 DEF LossInv, CopyInv
    <2>2. \A S \in SUBSET Node : Closed(S)' => Closed(S)
      BY DEF Closed
    <2>3. \A n \in Node : Holder(m, n) => Holder(m, n)'
      BY DEF Holder
    <2>4. \A n \in Node : Owes(n, m)' => Owes(n, m)
      BY DEF Owes
    <2> QED
      BY <2>1, <2>2, <2>3, <2>4, KeptStays
  <1> QED
    BY <1>1, <1>2, <1>3 DEF LossInv, CopyInv

-----------------------------------------------------------------------------
(* The steps of an unreliable network.                                     *)

\* Set up for the leaves below: the commands whose exchanges may be answered, and
\* what is known of the exchanges.
LEMMA LossContext ==
  ASSUME TypeInv, LossInv
  PROVE  /\ AllFit(exch) /\ AllTied(exch) /\ NodeTypes
         /\ \A c \in Command : \A x \in exch[c] : Fit(c, x) /\ x \in Exchange(c) /\ Tied(c, x)
         /\ {"ver", "fetch", "coordination", "manifestlist", "find",
             "only-delete-manifest"} \subseteq Staged
         /\ Staged \subseteq Command
         /\ {"add-node", "complete"} \subseteq Command
         /\ \A n \in Node \ {Manager} : from[n] = config[n]
         /\ to # NoNode => Linked(to, from[Manager])
  BY DEF TypeInv, AllFit, Fit, LossInv, LinkInv, AllTied, Staged, Command

\* A process starts with the source it had, if it had one.
LEMMA BootLoss ==
  ASSUME IInv, TypeInv, LossInv, NEW n \in Node \ {Manager}, NEW f \in Node,
         config[n] \in {NoNode, f}, Boot(n, f)
  PROVE  LossInv'
  <1>a. PICK add : add = Add(n, f, budget'.restarts)
    OBVIOUS
  <1>1. /\ config' = [config EXCEPT ![n] = f]
        /\ from' = [from EXCEPT ![n] = f]
        /\ asked' = [asked EXCEPT ![n] = {}]
        /\ excused' = excused \cup {x.manifest : x \in {y \in exch["find"] : y.src = n}}
        /\ UNCHANGED <<to, store, published>>
        /\ exch' = [[c \in Command |-> Abandoned(c, n)] EXCEPT !["add-node"] = @ \cup {add}]
    BY <1>a DEF Boot
  <1>0. /\ config \in [Node -> Node \cup {NoNode}]
        /\ from \in [Node -> Node \cup {NoNode}]
        /\ asked \in [Node -> SUBSET (Node \X Manifest)]
    BY DEF TypeInv, NodeTypes
  <1>2. /\ exch'["add-node"] = Abandoned("add-node", n) \cup {add}
        /\ \A c \in Command \ {"add-node"} : exch'[c] = Abandoned(c, n)
    BY <1>1 DEF Command
  <1>3. config'[n] = f /\ \A k \in Node \ {n} : config'[k] = config[k]
    BY <1>0, <1>1
  <1>4. \A k, g : Linked(k, g) => Linked(k, g)'
    BY <1>3, NoNodeAssumption DEF Linked
  <1>5. \A c \in Command : \A x : Tied(c, x) => Tied(c, x)'
    BY <1>3, <1>4, NoNodeAssumption DEF Tied, Linked
  <1>6. AllTied(exch)'
    <2>1. ASSUME NEW c \in Command, NEW x \in Abandoned(c, n)
          PROVE  Tied(c, x)'
      <3>1. CASE x \in exch[c]
        BY <1>5, <3>1, LossContext
      <3>2. CASE x \notin exch[c]
        <4>1. c \in Staged
          BY <3>2 DEF Abandoned, Staged
        <4>2. PICK y \in exch[c] : x = [y EXCEPT !.stage = "late"]
          BY <3>2 DEF Abandoned
        <4>3. Tied(c, y) /\ y \in Exchange(c)
          BY LossContext
        <4> QED
          BY <1>5, <4>1, <4>2, <4>3, StageTied
      <3> QED
        BY <3>1, <3>2
    <2>2. Tied("add-node", add)'
      <3>1. add.src = n /\ add.from = f
        BY <1>a DEF Add
      <3> QED
        BY <1>3, <3>1 DEF Tied, Linked
    <2> QED
      BY <1>2, <2>1, <2>2 DEF AllTied
  <1>7. LinkInv'
    <2>1. config'[Manager] = NoNode
      BY <1>3, ManagerAssumption DEF LossInv, LinkInv
    <2>2. \A k \in Node \ {Manager} : from'[k] = config'[k]
      BY <1>0, <1>1, <1>3 DEF LossInv, LinkInv
    <2>3. from'[Manager] = from[Manager]
      BY <1>0, <1>1, ManagerAssumption
    <2>4. to' # NoNode => Linked(to, from[Manager])'
      BY <1>1, <1>4, <2>3 DEF LossInv, LinkInv
    <2> QED
      BY <1>6, <2>1, <2>2, <2>4 DEF LinkInv, Linked
  <1>8. \A S \in SUBSET Node : Closed(S)' => Closed(S)
    BY <1>3, NoNodeAssumption DEF Closed
  <1>9. \A k \in Node : Rooted(k) => Rooted(k)'
    BY <1>8 DEF Rooted
  <1>10. ASSUME NEW x \in exch'["find"]
         PROVE  \/ x \in exch["find"] /\ (x.src = n => x.stage = "data")
                \/ x.stage = "late"
    <2>1. x \in Abandoned("find", n)
      BY <1>2 DEF Command
    <2>2. CASE x \in exch["find"] /\ (x.src = n => x.stage = "data")
      BY <2>2
    <2>3. CASE ~(x \in exch["find"] /\ (x.src = n => x.stage = "data"))
      <3>1. PICK y \in exch["find"] : x = [y EXCEPT !.stage = "late"]
        BY <2>1, <2>3 DEF Abandoned
      <3>2. y \in [src : Node, dst : Node, manifest : Manifest, stage : Stage,
                   found : BOOLEAN]
        BY LossContext, Exchanges
      <3> QED
        BY <3>1, <3>2
    <2> QED
      BY <2>2, <2>3
  <1>11. RootInv'
    <2>1. \A k \in Node : store'[k] # {} => Rooted(k)'
      BY <1>1, <1>9 DEF LossInv, RootInv
    <2>2. ASSUME NEW x \in exch'["find"], x.found, x.stage = "data"
          PROVE  Rooted(x.src)'
      <3>1. x \in exch["find"]
        BY <1>10, <2>2
      <3>2. x.src \in Node
        BY <3>1, LossContext, Fields
      <3> QED
        BY <1>9, <2>2, <3>1, <3>2 DEF LossInv, RootInv
    <2> QED
      BY <2>1, <2>2 DEF RootInv
  <1>12. ASSUME NEW m \in Manifest, m \notin excused'
         PROVE  Kept(m)'
    <2>1. Kept(m)
      BY <1>1, <1>12 DEF LossInv, CopyInv
    <2>2. ASSUME NEW k \in Node, Holder(m, k)
          PROVE  Holder(m, k)'
      <3>1. CASE m \in store[k]
        BY <1>1, <3>1 DEF Holder
      <3>2. ASSUME NEW x \in exch["find"], x.src = k, x.manifest = m, x.stage # "late"
            PROVE  Holder(m, k)'
        <4>1. k # n
          BY <1>1, <1>12, <3>2
        <4>2. x \in Abandoned("find", n)
          BY <3>2, <4>1 DEF Abandoned
        <4>3. x \in exch'["find"]
          BY <1>2, <4>2 DEF Command
        <4> QED
          BY <3>2, <4>3 DEF Holder
      <3> QED
        BY <2>2, <3>1, <3>2 DEF Holder
    <2>3. ASSUME NEW k \in Node, Owes(k, m)'
          PROVE  Owes(k, m)
      <3>1. CASE <<config'[k], m>> \in asked'[k]
        <4>1. k # n /\ asked'[k] = asked[k] /\ config'[k] = config[k]
          BY <1>0, <1>1, <3>1
        <4> QED
          BY <3>1, <4>1 DEF Owes
      <3>2. ASSUME NEW x \in exch'["only-delete-manifest"], x.src = k, x.manifest = m
            PROVE  Owes(k, m)
        <4>1. x \in Abandoned("only-delete-manifest", n)
          BY <1>2 DEF Command
        <4>2. PICK y \in exch["only-delete-manifest"] :
                x = y \/ x = [y EXCEPT !.stage = "late"]
          BY <4>1 DEF Abandoned
        <4>3. y \in [src : Node, dst : Node, manifest : Manifest, stage : Stage]
          BY LossContext, Exchanges
        <4>4. y.src = k /\ y.manifest = m
          BY <3>2, <4>2, <4>3
        <4> QED
          BY <4>4 DEF Owes
      <3> QED
        BY <2>3, <3>1, <3>2 DEF Owes
    <2> QED
      BY <1>8, <2>1, <2>2, <2>3, KeptStays
  <1> QED
    BY <1>7, <1>11, <1>12 DEF LossInv, CopyInv

\* A process that ends by itself is started again with its own configuration.
LEMMA ExitLoss ==
  ASSUME IInv, TypeInv, LossInv, NEW n, Exit(n)
  PROVE  LossInv'
  <1>1. n \in Node \ {Manager} /\ config[n] \in Node /\ Boot(n, config[n])
    BY DEF Exit, TypeInv, NodeTypes
  <1> QED
    BY <1>1, BootLoss

\* An answer or a retry about the ring, or a logged answer.
LEMMA AnswerData ==
  ASSUME TypeInv, NEW x \in exch["only-delete-manifest"]
  PROVE  LET y == [x EXCEPT !.stage = "data"]
             z == [x EXCEPT !.stage = "late"]
         IN  /\ y.src = x.src /\ y.manifest = x.manifest
             /\ z.src = x.src /\ z.manifest = x.manifest
  <1>1. x \in [src : Node, dst : Node, manifest : Manifest, stage : Stage]
    BY Exchanges DEF TypeInv, AllFit, Fit, Command
  <1> QED
    BY <1>1

\* The other commands' exchanges are those of before.
LEMMA Elsewhere ==
  ASSUME AllFit(exch), NEW c \in Command, NEW d \in Command \ {c}
  PROVE  /\ \A x, xs : Replace(c, x, xs)[d] = exch[d]
         /\ \A x, y : Answer(c, x, y)[d] = exch[d]
         /\ \A x, y : \A b \in Command \ {d} : \A xs :
              AnswerAndSend(c, x, y, b, xs)[d] = exch[d]
         /\ \A x, xs : GiveUp(c, x, xs) => exch'[d] = exch[d]
  <1>1. ASSUME NEW x, NEW xs
        PROVE  Replace(c, x, xs)[d] = exch[d]
    BY DEF AllFit, Replace
  <1>2. \A x, y : Answer(c, x, y)[d] = exch[d]
    BY <1>1 DEF Answer
  <1>3. ASSUME NEW x, NEW y, NEW b \in Command \ {d}, NEW xs
        PROVE  AnswerAndSend(c, x, y, b, xs)[d] = exch[d]
    <2> DEFINE a == Answer(c, x, y)
    <2>1. a = [k \in Command |-> a[k]]
      BY DEF AllFit, Answer, Replace
    <2>2. a[d] = exch[d]
      BY <1>2
    <2> HIDE DEF a
    <2>3. [a EXCEPT ![b] = @ \cup xs][d] = a[d]
      BY <2>1
    <2> QED
      BY <2>2, <2>3 DEF AnswerAndSend, a
  <1>4. ASSUME NEW x, NEW xs, GiveUp(c, x, xs)
        PROVE  exch'[d] = exch[d]
    BY <1>1, <1>4 DEF GiveUp
  <1> QED
    BY <1>1, <1>2, <1>3, <1>4

\* The steps that touch no disk, no find and nothing asked for.
LEMMA QuietStepsLoss ==
  ASSUME IInv, TypeInv, LossInv, NEW x,
         \/ x \in exch["add-node"] /\ HandleAddCommand(x)
         \/ x \in exch["ver"] /\ HandleVersionCommand(x)
         \/ x \in exch["fetch"] /\ HandleFetchCommand(x)
         \/ x \in exch["fetch"] /\ OnFetchCommandResponse(x)
         \/ x \in exch["coordination"] /\ HandleCoordinationCommand(x)
         \/ x \in exch["manifestlist"] /\ HandleManifestListCommand(x)
  PROVE  LossInv'
  <1>0. /\ AllFit(exch) /\ AllTied(exch) /\ NodeTypes
        /\ \A c \in Command : \A y \in exch[c] : Fit(c, y) /\ y \in Exchange(c) /\ Tied(c, y)
        /\ {"ver", "fetch", "coordination", "manifestlist", "find",
            "only-delete-manifest"} \subseteq Staged
        /\ Staged \subseteq Command
        /\ {"add-node", "complete"} \subseteq Command
        /\ \A n \in Node \ {Manager} : from[n] = config[n]
        /\ to # NoNode => Linked(to, from[Manager])
    BY LossContext
  <1>1. CASE x \in exch["add-node"] /\ HandleAddCommand(x)
    <2> DEFINE rest == Replace("add-node", x, {})
    <2>1. /\ from' = [from EXCEPT ![Manager] = x.from] /\ to' = x.src
          /\ UNCHANGED <<config, store, asked, excused>>
          /\ \/ exch' = rest
             \/ \E vs : exch' = [rest EXCEPT !["ver"] = @ \cup vs]
      BY <1>1 DEF HandleAddCommand, SetFromTo, Publish
    <2>2. Linked(x.src, x.from)
      BY <1>0, <1>1 DEF Tied
    <2>3. AllTied(rest) /\ AllFit(rest)
      BY <1>0, ReplaceTied, ReplaceFits
    <2>4. rest["find"] = exch["find"]
          /\ rest["only-delete-manifest"] = exch["only-delete-manifest"]
      BY <1>0, Elsewhere DEF Command
    <2> HIDE DEF rest
    <2>5. /\ \A c \in Command \ {"ver"} : exch'[c] = rest[c]
      BY <2>1, <2>3 DEF AllFit
    <2>6. AllTied(exch')
      BY <2>3, <2>5 DEF AllTied, Tied
    <2>7. exch'["find"] = exch["find"]
          /\ exch'["only-delete-manifest"] = exch["only-delete-manifest"]
      BY <2>4, <2>5 DEF Command
    <2>8. \A n \in Node \ {Manager} : from'[n] = config'[n]
      BY <1>0, <2>1 DEF NodeTypes
    <2>9. from'[Manager] = x.from
      BY <1>0, <2>1, ManagerAssumption DEF NodeTypes
    <2> QED
      BY <2>1, <2>2, <2>6, <2>7, <2>8, <2>9, LossFrame
  <1>2. ASSUME UNCHANGED <<config, from, to, store, asked, excused>>, AllTied(exch'),
               exch'["find"] = exch["find"],
               exch'["only-delete-manifest"] = exch["only-delete-manifest"]
        PROVE  LossInv'
    BY <1>0, <1>2, LossFrame DEF Linked
  <1>3. CASE x \in exch["ver"] /\ HandleVersionCommand(x)
    <2> DEFINE xs == IF x.version # version[x.dst] THEN {Fetch(x.dst, x.version)}
                     ELSE {}
    <2>1. exch' = AnswerAndSend("ver", x, x, "fetch", xs)
          /\ UNCHANGED <<nodeVars, budget, history>>
      BY <1>3 DEF HandleVersionCommand
    <2>2. \A z \in xs : Tied("fetch", z)
      BY DEF Tied
    <2> HIDE DEF xs
    <2>3. AllTied(exch')
      BY <1>0, <1>3, <2>1, <2>2, AnswerAndSendTied
    <2>4. exch'["find"] = exch["find"]
          /\ exch'["only-delete-manifest"] = exch["only-delete-manifest"]
      BY <1>0, <2>1, Elsewhere DEF Command
    <2> QED
      BY <1>2, <2>1, <2>3, <2>4 DEF nodeVars, history
  <1>4. CASE x \in exch["fetch"] /\ HandleFetchCommand(x)
    <2>1. PICK content : exch' = AnswerAndSend("fetch", x, [x EXCEPT !.content = content],
                                "coordination", {Coordination(to, from[Manager])})
      BY <1>4 DEF HandleFetchCommand
    <2>2. UNCHANGED <<nodeVars, budget, history>>
      BY <1>4 DEF HandleFetchCommand
    <2>3. Tied("coordination", Coordination(to, from[Manager]))
      <3>1. Linked(to, from[Manager])
        BY <1>0, <1>4, Led
      <3> QED
        BY <3>1 DEF Tied, Coordination
    <2>4. AllTied(exch')
      <3> DEFINE a == Answer("fetch", x, [x EXCEPT !.content = content])
      <3>1. /\ \A c \in Command \ {"fetch"} : a[c] = exch[c]
            /\ a = [c \in Command |-> a[c]]
        BY <1>0, Elsewhere DEF AllFit, Answer, Replace
      <3>2. exch' = [a EXCEPT !["coordination"] = @ \cup {Coordination(to, from[Manager])}]
        BY <2>1 DEF AnswerAndSend
      <3> HIDE DEF a
      <3>3. /\ exch'["coordination"] =
                 exch["coordination"] \cup {Coordination(to, from[Manager])}
            /\ \A c \in Command \ {"fetch", "coordination"} : exch'[c] = exch[c]
        BY <3>1, <3>2 DEF Command
      <3>4. ASSUME NEW c \in Command, NEW y \in exch'[c]
            PROVE  Tied(c, y)
        <4>1. CASE c = "fetch"
          BY <4>1 DEF Tied
        <4>2. CASE c = "coordination"
          BY <1>0, <2>3, <3>3, <4>2
        <4>3. CASE c \notin {"fetch", "coordination"}
          BY <1>0, <3>3, <4>3
        <4> QED
          BY <4>1, <4>2, <4>3
      <3> QED
        BY <3>4 DEF AllTied
    <2>5. exch'["find"] = exch["find"]
          /\ exch'["only-delete-manifest"] = exch["only-delete-manifest"]
      BY <1>0, <2>1, Elsewhere DEF Command
    <2> QED
      BY <1>2, <2>2, <2>4, <2>5 DEF nodeVars, history
  <1>5. CASE x \in exch["fetch"] /\ OnFetchCommandResponse(x)
    <2>1. CASE Exit(x.src)
      BY <2>1, ExitLoss
    <2>2. CASE ~Exit(x.src)
      <3>1. /\ exch' = Replace("fetch", x, {})
            /\ UNCHANGED <<config, from, to, mlist, store, budget, history>>
        BY <1>5, <2>2 DEF OnFetchCommandResponse
      <3>2. AllTied(exch')
        BY <1>0, <3>1, ReplaceTied
      <3>3. exch'["find"] = exch["find"]
            /\ exch'["only-delete-manifest"] = exch["only-delete-manifest"]
        BY <1>0, <3>1, Elsewhere DEF Command
      <3> QED
        BY <1>2, <3>1, <3>2, <3>3 DEF history
    <2> QED
      BY <2>1, <2>2
  <1>6. CASE x \in exch["coordination"] /\ HandleCoordinationCommand(x)
    <2>1. /\ from' = [from EXCEPT ![x.dst] = x.from]
          /\ exch' = AnswerAndSend("coordination", x, x, "manifestlist",
                       {ManifestListOf(x.dst, x.from)})
          /\ UNCHANGED <<config, to, store, history>>
      BY <1>6 DEF HandleCoordinationCommand
    <2>2. Linked(x.dst, x.from)
      BY <1>0, <1>6 DEF Tied
    <2>3. from' = from
      BY <1>0, <2>1, <2>2 DEF Linked, NodeTypes
    <2>4. Tied("manifestlist", ManifestListOf(x.dst, x.from))
      BY <2>2 DEF Tied, ManifestListOf
    <2>5. AllTied(exch')
      BY <1>0, <1>6, <2>1, <2>4, AnswerAndSendTied
    <2>6. exch'["find"] = exch["find"]
          /\ exch'["only-delete-manifest"] = exch["only-delete-manifest"]
      BY <1>0, <2>1, Elsewhere DEF Command
    <2> QED
      BY <1>2, <2>1, <2>3, <2>5, <2>6 DEF history
  <1>7. CASE x \in exch["manifestlist"] /\ HandleManifestListCommand(x)
    <2> DEFINE y == [x EXCEPT !.content = store[x.dst]]
    <2>1. /\ exch' = Answer("manifestlist", x, y)
          /\ UNCHANGED <<nodeVars, budget, history>>
      BY <1>7 DEF HandleManifestListCommand
    <2>2. x \in [src : Node, dst : Node, stage : Stage, content : SUBSET Manifest]
      BY <1>0, <1>7, Exchanges
    <2>3. store[x.dst] \in SUBSET Manifest
      BY <1>0, <2>2 DEF NodeTypes
    <2>4. /\ y \in [src : Node, dst : Node, stage : Stage, content : SUBSET Manifest]
          /\ y.src = x.src /\ y.dst = x.dst
      BY <2>2, <2>3
    <2>5. Tied("manifestlist", x)
      BY <1>0, <1>7
    <2>6. y \in Exchange("manifestlist") /\ Tied("manifestlist", y)
      BY <2>4, <2>5, Exchanges DEF Tied
    <2> HIDE DEF y
    <2>7. AllTied(exch')
      BY <1>0, <2>1, <2>6, AnswerTied
    <2>8. exch'["find"] = exch["find"]
          /\ exch'["only-delete-manifest"] = exch["only-delete-manifest"]
      BY <1>0, <2>1, Elsewhere DEF Command
    <2> QED
      BY <1>2, <2>1, <2>7, <2>8 DEF nodeVars, history
  <1> QED
    BY <1>1, <1>3, <1>4, <1>5, <1>6, <1>7

\* A list is answered: what the node will have deleted, it asks for first.
LEMMA ListLoss ==
  ASSUME IInv, TypeInv, LossInv, NEW x \in exch["manifestlist"],
         OnManifestListCommandResponse(x)
  PROVE  LossInv'
  <1> DEFINE n == x.src
             sel == Selected(n, x.content)
             fs == {Find(n, from[n], m) : m \in sel}
             r == Replace("manifestlist", x, {})
  <1>0. /\ AllFit(exch) /\ AllTied(exch) /\ NodeTypes
        /\ "manifestlist" \in Command
        /\ Linked(n, from[n]) /\ from[n] = config[n]
    BY LossContext DEF Tied, Linked, Command
  <1>1. /\ exch' = [r EXCEPT !["find"] = @ \cup fs,
                             !["complete"] = @ \cup {Complete(n)}]
        /\ asked' = [asked EXCEPT ![n] = {from[n]} \X sel]
        /\ UNCHANGED <<config, from, to, store, excused>>
    BY DEF OnManifestListCommandResponse
  <1>2. AllTied(r) /\ AllFit(r)
    BY <1>0, ReplaceTied, ReplaceFits
  <1>3. \A c \in {"find", "complete", "only-delete-manifest"} : r[c] = exch[c]
    BY <1>0, Elsewhere DEF Command
  <1>4. \A y \in fs : /\ Tied("find", y) /\ y.src = n /\ y.stage = "interest"
                      /\ y.found = FALSE
    BY <1>0 DEF Tied, Find
  <1>5. ASSUME NEW m \in sel
        PROVE  \E y \in fs : y.src = n /\ y.manifest = m /\ y.stage = "interest"
    <2>1. Find(n, from[n], m) \in fs
      OBVIOUS
    <2>2. LET y == Find(n, from[n], m)
          IN  y.src = n /\ y.manifest = m /\ y.stage = "interest"
      BY DEF Find
    <2> HIDE DEF fs
    <2> QED
      BY <2>1, <2>2
  <1>6. Tied("complete", Complete(n))
    BY <1>0 DEF Tied, Complete
  <1> HIDE DEF r, fs, sel, n
  <1>7. /\ exch'["find"] = exch["find"] \cup fs
        /\ exch'["complete"] = exch["complete"] \cup {Complete(n)}
        /\ \A c \in Command \ {"find", "complete"} : exch'[c] = r[c]
    BY <1>1, <1>2, <1>3 DEF AllFit, Command
  <1>8. AllTied(exch')
    <2>1. ASSUME NEW c \in Command, NEW z \in exch'[c]
          PROVE  Tied(c, z)
      <3>1. CASE c = "find"
        BY <1>0, <1>4, <1>7, <3>1 DEF AllTied
      <3>2. CASE c = "complete"
        BY <1>0, <1>6, <1>7, <3>2 DEF AllTied
      <3>3. CASE c \notin {"find", "complete"}
        BY <1>2, <1>7, <3>3 DEF AllTied
      <3> QED
        BY <3>1, <3>2, <3>3
    <2> QED
      BY <2>1 DEF AllTied
  <1>9. LinkInv'
    BY <1>1, <1>8, TiedStays DEF LossInv, LinkInv, Linked
  <1>10. RootInv'
    BY <1>1, <1>4, <1>7 DEF LossInv, RootInv, Rooted, Closed
  <1>11. ASSUME NEW m \in Manifest, m \notin excused'
         PROVE  Kept(m)'
    <2>1. Kept(m)
      BY <1>1, <1>11 DEF LossInv, CopyInv
    <2>2. \A S \in SUBSET Node : Closed(S)' => Closed(S)
      BY <1>1 DEF Closed
    <2>3. \A k \in Node : Holder(m, k) => Holder(m, k)'
      BY <1>1, <1>7 DEF Holder
    <2>4. ASSUME NEW k \in Node, Owes(k, m)'
          PROVE  Owes(k, m) \/ Holder(m, k)'
      <3>1. CASE k = n /\ m \in sel
        <4>1. PICK y \in fs : y.src = n /\ y.manifest = m /\ y.stage = "interest"
          BY <1>5, <3>1
        <4> QED
          BY <1>7, <3>1, <4>1 DEF Holder
      <3>2. CASE ~(k = n /\ m \in sel)
        <4>1. exch'["only-delete-manifest"] = exch["only-delete-manifest"]
          BY <1>3, <1>7 DEF Command
        <4>2. <<config'[k], m>> \in asked'[k] => <<config[k], m>> \in asked[k]
          <5>1. CASE k = n
            <6>1. asked'[k] = {from[n]} \X sel
              BY <1>0, <1>1, <5>1 DEF NodeTypes
            <6> QED
              BY <3>2, <5>1, <6>1
          <5>2. CASE k # n
            BY <1>0, <1>1, <5>2 DEF NodeTypes
          <5> QED
            BY <5>1, <5>2
        <4> QED
          BY <2>4, <4>1, <4>2 DEF Owes
      <3> QED
        BY <3>1, <3>2
    <2> QED
      BY <2>1, <2>2, <2>3, <2>4, KeptStays
  <1> QED
    BY <1>9, <1>10, <1>11 DEF LossInv, CopyInv

\* A find is answered: the requester goes on waiting for the manifest, and one
\* that is said to be there comes from a node below the manager.
LEMMA FindLoss ==
  ASSUME IInv, TypeInv, LossInv, NEW x \in exch["find"], HandleFindCommand(x)
  PROVE  LossInv'
  <1> DEFINE b == x.manifest \in store[x.dst]
             y == [x EXCEPT !.found = b]
             z == [y EXCEPT !.stage = "data"]
  <1>0. /\ AllFit(exch) /\ AllTied(exch) /\ NodeTypes
        /\ "find" \in Staged /\ "find" \in Command
        /\ x \in Exchange("find") /\ Tied("find", x)
    BY LossContext
  <1>1. exch' = Answer("find", x, y) /\ UNCHANGED <<nodeVars, budget, history>>
    BY DEF HandleFindCommand
  <1>2. x \in [src : Node, dst : Node, manifest : Manifest, stage : Stage,
               found : BOOLEAN]
    BY <1>0, Exchanges
  <1>3. /\ y \in [src : Node, dst : Node, manifest : Manifest, stage : Stage,
                  found : BOOLEAN]
        /\ y.src = x.src /\ y.dst = x.dst /\ y.manifest = x.manifest /\ y.found = b
    <2>1. b \in BOOLEAN
      OBVIOUS
    <2> HIDE DEF b
    <2> QED
      BY <1>2, <2>1
  <1> HIDE DEF b, y
  <1>4. y \in Exchange("find") /\ Tied("find", y)
    BY <1>0, <1>3, Exchanges DEF Tied
  <1>5. AllTied(exch')
    BY <1>0, <1>1, <1>4, AnswerTied
  <1>6. /\ z.src = x.src /\ z.manifest = x.manifest /\ z.found = b /\ z.stage = "data"
    BY <1>3
  <1> HIDE DEF z
  <1>7. exch'["find"] = (exch["find"] \ {x}) \cup
                          (IF x.stage = "interest" THEN {z} ELSE {})
    BY <1>0, <1>1 DEF Answer, AnswerLogged, Replace, AllFit, z
  <1>8. exch'["only-delete-manifest"] = exch["only-delete-manifest"]
    BY <1>0, <1>1, Elsewhere DEF Command
  <1>9. LinkInv'
    BY <1>1, <1>5, TiedStays DEF LossInv, LinkInv, Linked, nodeVars
  <1>10. RootInv'
    <2>1. \A k \in Node : Rooted(k) => Rooted(k)'
      BY <1>1 DEF Rooted, Closed, nodeVars
    <2>2. b => Rooted(x.src)
      <3>1. ASSUME b
            PROVE  Rooted(x.dst)
        BY <1>2, <3>1 DEF b, LossInv, RootInv
      <3>2. x.dst = config[x.src] /\ x.src \in Node
        BY <1>0 DEF Tied, Linked
      <3> QED
        BY <3>1, <3>2 DEF Rooted, Closed
    <2>3. ASSUME NEW w \in exch'["find"], w.found, w.stage = "data"
          PROVE  Rooted(w.src)'
      <3>1. CASE w \in exch["find"]
        <4>1. w.src \in Node
          BY <1>0, <3>1, Fields
        <4> QED
          BY <2>1, <2>3, <3>1, <4>1 DEF LossInv, RootInv
      <3>2. CASE w = z
        BY <1>2, <1>6, <2>1, <2>2, <2>3, <3>2
      <3> QED
        BY <1>7, <3>1, <3>2
    <2>4. \A k \in Node : store'[k] # {} => Rooted(k)'
      BY <1>1, <2>1 DEF LossInv, RootInv, nodeVars
    <2> QED
      BY <2>3, <2>4 DEF RootInv
  <1>11. ASSUME NEW m \in Manifest, m \notin excused'
         PROVE  Kept(m)'
    <2>1. Kept(m)
      BY <1>1, <1>11 DEF LossInv, CopyInv, history
    <2>2. \A S \in SUBSET Node : Closed(S)' => Closed(S)
      BY <1>1 DEF Closed, nodeVars
    <2>3. ASSUME NEW k \in Node, Holder(m, k)
          PROVE  Holder(m, k)'
      <3>1. CASE m \in store[k]
        BY <1>1, <3>1 DEF Holder, nodeVars
      <3>2. ASSUME NEW w \in exch["find"], w.src = k, w.manifest = m, w.stage # "late"
            PROVE  Holder(m, k)'
        <4>1. CASE w = x
          <5>1. CASE x.stage = "interest"
            BY <1>6, <1>7, <3>2, <4>1, <5>1 DEF Holder
          <5>2. CASE x.stage # "interest"
            BY <3>2, <4>1, <5>2 DEF HandleFindCommand, Arriving
          <5> QED
            BY <5>1, <5>2
        <4>2. CASE w # x
          BY <1>7, <3>2, <4>2 DEF Holder
        <4> QED
          BY <4>1, <4>2
      <3> QED
        BY <2>3, <3>1, <3>2 DEF Holder
    <2>4. \A k \in Node : Owes(k, m)' => Owes(k, m)
      BY <1>1, <1>8 DEF Owes, nodeVars, history
    <2> QED
      BY <2>1, <2>2, <2>3, <2>4, KeptStays
  <1> QED
    BY <1>9, <1>10, <1>11 DEF LossInv, CopyInv

\* A manifest arrives, and is on the disk from then on.
LEMMA FoundLoss ==
  ASSUME IInv, TypeInv, LossInv, NEW x \in exch["find"], OnManifestCommandResponse(x)
  PROVE  LossInv'
  <1>1. CASE Exit(x.src)
    BY <1>1, ExitLoss
  <1>2. CASE ~Exit(x.src)
    <2>0. /\ AllFit(exch) /\ AllTied(exch) /\ NodeTypes /\ "find" \in Command
          /\ x.src \in Node
      BY LossContext, Fields
    <2>1. /\ x.found /\ x.stage = "data"
          /\ store' = [store EXCEPT ![x.src] = @ \cup {x.manifest}]
          /\ exch' = Replace("find", x, {})
          /\ UNCHANGED <<config, from, to, mlist, budget, history>>
      BY <1>2 DEF OnManifestCommandResponse, Returning
    <2>2. AllTied(exch')
      BY <2>0, <2>1, ReplaceTied
    <2>3. exch'["find"] = exch["find"] \ {x}
      BY <2>0, <2>1 DEF Replace, AllFit
    <2>4. exch'["only-delete-manifest"] = exch["only-delete-manifest"]
      BY <2>0, <2>1, Elsewhere DEF Command
    <2>5. LinkInv'
      BY <2>1, <2>2, TiedStays DEF LossInv, LinkInv, Linked
    <2>6. /\ \A k \in Node : store[k] \subseteq store'[k]
          /\ \A k \in Node \ {x.src} : store'[k] = store[k]
          /\ x.manifest \in store'[x.src]
      BY <2>0, <2>1 DEF NodeTypes
    <2>7. RootInv'
      <3>1. \A k \in Node : Rooted(k) => Rooted(k)'
        BY <2>1 DEF Rooted, Closed
      <3>2. Rooted(x.src)
        BY <2>1 DEF LossInv, RootInv
      <3>3. \A k \in Node : store'[k] # {} => Rooted(k)
        BY <2>6, <3>2 DEF LossInv, RootInv
      <3>4. \A w \in exch'["find"] : w.found /\ w.stage = "data" =>
              Rooted(w.src) /\ w.src \in Node
        BY <2>0, <2>3, Fields DEF LossInv, RootInv
      <3> QED
        BY <3>1, <3>3, <3>4 DEF RootInv
    <2>8. ASSUME NEW m \in Manifest, m \notin excused'
          PROVE  Kept(m)'
      <3>1. Kept(m)
        BY <2>1, <2>8 DEF LossInv, CopyInv, history
      <3>2. \A S \in SUBSET Node : Closed(S)' => Closed(S)
        BY <2>1 DEF Closed
      <3>3. \A k \in Node : Holder(m, k) => Holder(m, k)'
        BY <2>3, <2>6 DEF Holder
      <3>4. \A k \in Node : Owes(k, m)' => Owes(k, m)
        BY <2>1, <2>4 DEF Owes, history
      <3> QED
        BY <3>1, <3>2, <3>3, <3>4, KeptStays
    <2> QED
      BY <2>5, <2>7, <2>8 DEF LossInv, CopyInv
  <1> QED
    BY <1>1, <1>2

\* The completion: the deletes that are sent are of what was asked for, or are
\* excused.
LEMMA CompleteLoss ==
  ASSUME IInv, TypeInv, LossInv, NEW x \in exch["complete"],
         OnCompleteCommandResponse(x)
  PROVE  LossInv'
  <1> DEFINE n == x.src
             sel == Selected(n, mlist[n])
             ds == {DeleteManifest(n, from[n], m) : m \in sel}
             r == Replace("complete", x, {})
  <1>0. /\ AllFit(exch) /\ AllTied(exch) /\ NodeTypes
        /\ "complete" \in Command
        /\ Linked(n, from[n]) /\ from[n] = config[n]
    BY LossContext DEF Tied, Linked
  <1>1. /\ exch' = [r EXCEPT !["only-delete-manifest"] = @ \cup ds]
        /\ excused' = excused \cup {m \in sel : <<from[n], m>> \notin asked[n]}
        /\ UNCHANGED <<nodeVars, budget, published, asked>>
    BY DEF OnCompleteCommandResponse
  <1>2. AllTied(r) /\ AllFit(r)
    BY <1>0, ReplaceTied, ReplaceFits
  <1>3. \A c \in {"find", "only-delete-manifest"} : r[c] = exch[c]
    BY <1>0, Elsewhere DEF Command
  <1>4. ASSUME NEW y \in ds
        PROVE  /\ Tied("only-delete-manifest", y)
               /\ y.src = n /\ y.manifest \in sel
    BY <1>0 DEF Tied, DeleteManifest
  <1> HIDE DEF r, ds, sel, n
  <1>5. /\ exch'["only-delete-manifest"] = exch["only-delete-manifest"] \cup ds
        /\ \A c \in Command \ {"only-delete-manifest"} : exch'[c] = r[c]
        /\ exch'["find"] = exch["find"]
    BY <1>1, <1>2, <1>3 DEF AllFit, Command
  <1>6. AllTied(exch')
    <2>1. ASSUME NEW c \in Command, NEW z \in exch'[c]
          PROVE  Tied(c, z)
      <3>1. CASE c = "only-delete-manifest"
        BY <1>0, <1>4, <1>5, <3>1 DEF AllTied
      <3>2. CASE c # "only-delete-manifest"
        BY <1>2, <1>5, <3>2 DEF AllTied
      <3> QED
        BY <3>1, <3>2
    <2> QED
      BY <2>1 DEF AllTied
  <1>7. LinkInv'
    BY <1>1, <1>6, TiedStays DEF LossInv, LinkInv, Linked, nodeVars
  <1>8. RootInv'
    BY <1>1, <1>5 DEF LossInv, RootInv, Rooted, Closed, nodeVars
  <1>9. ASSUME NEW m \in Manifest, m \notin excused'
        PROVE  Kept(m)'
    <2>1. Kept(m)
      BY <1>1, <1>9 DEF LossInv, CopyInv
    <2>2. \A S \in SUBSET Node : Closed(S)' => Closed(S)
      BY <1>1 DEF Closed, nodeVars
    <2>3. \A k \in Node : Holder(m, k) => Holder(m, k)'
      BY <1>1, <1>5 DEF Holder, nodeVars
    <2>4. ASSUME NEW k \in Node, Owes(k, m)'
          PROVE  Owes(k, m)
      <3>1. CASE <<config'[k], m>> \in asked'[k]
        BY <1>1, <3>1 DEF Owes, nodeVars
      <3>2. ASSUME NEW y \in exch'["only-delete-manifest"], y.src = k, y.manifest = m
            PROVE  Owes(k, m)
        <4>1. CASE y \in exch["only-delete-manifest"]
          BY <3>2, <4>1 DEF Owes
        <4>2. CASE y \in ds
          <5>1. k = n /\ m \in sel
            BY <1>4, <3>2, <4>2
          <5>2. <<config[n], m>> \in asked[n]
            BY <1>0, <1>1, <1>9, <5>1
          <5> QED
            BY <5>1, <5>2 DEF Owes
        <4> QED
          BY <1>5, <4>1, <4>2
      <3> QED
        BY <2>4, <3>1, <3>2 DEF Owes
    <2> QED
      BY <2>1, <2>2, <2>3, <2>4, KeptStays
  <1> QED
    BY <1>7, <1>8, <1>9 DEF LossInv, CopyInv

\* A delete at the source: the subtree of the node that has it deleted lies below
\* the source, and has a copy of its own.
LEMMA DeleteLoss ==
  ASSUME IInv, TypeInv, LossInv, NEW x \in exch["only-delete-manifest"],
         HandleOnlyDeleteManifestCommand(x)
  PROVE  LossInv'
  <1> DEFINE d == x.dst
             n == x.src
             z == [x EXCEPT !.stage = "data"]
  <1>0. /\ AllFit(exch) /\ AllTied(exch) /\ NodeTypes
        /\ "only-delete-manifest" \in Staged /\ "only-delete-manifest" \in Command
        /\ x \in Exchange("only-delete-manifest") /\ Tied("only-delete-manifest", x)
        /\ Linked(n, d)
    BY LossContext DEF Tied
  <1>1. /\ store' = [store EXCEPT ![d] = @ \ {x.manifest}]
        /\ exch' = Answer("only-delete-manifest", x, x)
        /\ UNCHANGED <<config, from, to, history>>
    BY DEF HandleOnlyDeleteManifestCommand
  <1>2. AllTied(exch')
    BY <1>0, <1>1, AnswerTied
  <1>3. exch'["find"] = exch["find"]
    BY <1>0, <1>1, Elsewhere DEF Command
  <1>4. \A y \in exch'["only-delete-manifest"] :
          \E w \in exch["only-delete-manifest"] : w.src = y.src /\ w.manifest = y.manifest
    <2>1. exch'["only-delete-manifest"] \subseteq exch["only-delete-manifest"] \cup {z}
      BY <1>0, <1>1 DEF Answer, Replace, AllFit
    <2>2. z.src = x.src /\ z.manifest = x.manifest
      BY AnswerData
    <2> QED
      BY <2>1, <2>2
  <1>5. LinkInv'
    BY <1>1, <1>2, TiedStays DEF LossInv, LinkInv, Linked
  <1>6. /\ d \in Node /\ n \in Node /\ config[n] = d
        /\ \A k \in Node \ {d} : store'[k] = store[k]
        /\ store'[d] = store[d] \ {x.manifest}
    BY <1>0, <1>1 DEF NodeTypes, Linked
  <1>7. RootInv'
    <2>1. \A k \in Node : Rooted(k) => Rooted(k)'
      BY <1>1 DEF Rooted, Closed
    <2>2. \A k \in Node : store'[k] # {} => store[k] # {}
      BY <1>6
    <2>3. \A w \in exch'["find"] : w.src \in Node
      BY <1>0, <1>3, Fields
    <2> QED
      BY <1>3, <2>1, <2>2, <2>3 DEF LossInv, RootInv
  <1>8. \A k \in Node : \A m : Owes(k, m)' => Owes(k, m)
    BY <1>1, <1>4 DEF Owes, history
  <1>9. ASSUME NEW m \in Manifest, m \notin excused'
        PROVE  Kept(m)'
    <2>1. Kept(m)
      BY <1>1, <1>9 DEF LossInv, CopyInv, history
    <2>2. \A S \in SUBSET Node : Closed(S)' => Closed(S)
      BY <1>1 DEF Closed
    <2>3. CASE m = x.manifest /\ m \in store[d]
      <3>1. Rooted(d)
        BY <1>6, <2>3 DEF LossInv, RootInv
      <3>2. LinkInv
        BY DEF LossInv
      <3>3. PICK T \in SUBSET Node :
              Closed(T) /\ d \notin T /\ \A k \in Node : config[k] = d => k \in T
        BY <1>6, <3>1, <3>2, NoCycle
      <3>4. \A k \in Node : Holder(m, k) /\ k # d => Holder(m, k)'
        BY <1>3, <1>6 DEF Holder
      <3>5. Owes(n, m)
        BY <2>3 DEF Owes
      <3>6. ASSUME NEW S \in SUBSET Node, Closed(S), n \in S
            PROVE  \E h \in S : Holder(m, h)'
        <4>1. S \cap T \in SUBSET Node /\ Closed(S \cap T) /\ n \in S \cap T
          BY <1>6, <3>3, <3>6 DEF Closed
        <4>2. PICK h \in S \cap T : Holder(m, h)
          BY <2>1, <3>5, <4>1 DEF Kept
        <4> QED
          BY <3>3, <3>4, <4>2
      <3>7. \E k \in Node : Holder(m, k)'
        BY <1>6, <3>6 DEF Closed
      <3>8. ASSUME NEW S \in SUBSET Node, NEW k \in S, Closed(S)', Owes(k, m)'
            PROVE  \E h \in S : Holder(m, h)'
        <4>1. Closed(S) /\ Owes(k, m)
          BY <1>8, <2>2, <3>8
        <4>2. PICK h \in S : Holder(m, h)
          BY <2>1, <4>1 DEF Kept
        <4>3. CASE h # d
          BY <3>4, <4>2, <4>3
        <4>4. CASE h = d
          <5>1. n \in S
            BY <1>6, <4>1, <4>4 DEF Closed
          <5> QED
            BY <3>6, <4>1, <5>1
        <4> QED
          BY <4>3, <4>4
      <3> QED
        BY <3>7, <3>8 DEF Kept
    <2>4. CASE ~(m = x.manifest /\ m \in store[d])
      <3>1. \A k \in Node : Holder(m, k) => Holder(m, k)'
        BY <1>3, <1>6, <2>4 DEF Holder
      <3> QED
        BY <1>8, <2>1, <2>2, <3>1, KeptStays
    <2> QED
      BY <2>3, <2>4
  <1> QED
    BY <1>5, <1>7, <1>9 DEF LossInv, CopyInv

\* The answers that are only logged.
LEMMA IgnoreLoss ==
  ASSUME TypeInv, LossInv, NEW c \in {"ver", "coordination", "only-delete-manifest"},
         NEW x \in exch[c], IgnoreResponse(c, x)
  PROVE  LossInv'
  <1>0. /\ AllFit(exch) /\ AllTied(exch) /\ c \in Command
        /\ \A n \in Node \ {Manager} : from[n] = config[n]
        /\ to # NoNode => Linked(to, from[Manager])
    BY LossContext
  <1>1. exch' = Replace(c, x, {}) /\ UNCHANGED <<nodeVars, budget, history>>
    BY DEF IgnoreResponse
  <1>2. AllTied(exch')
    BY <1>0, <1>1, ReplaceTied
  <1>3. exch'["find"] = exch["find"]
    BY <1>0, <1>1, Elsewhere DEF Command
  <1>4. exch'["only-delete-manifest"] \subseteq exch["only-delete-manifest"]
    BY <1>0, <1>1 DEF Replace, AllFit, Command
  <1> QED
    BY <1>0, <1>1, <1>2, <1>3, <1>4, LossFrame DEF nodeVars, history, Linked

\* The timeouts: only that of a find takes something away, and excuses it.
LEMMA TimeoutLoss ==
  ASSUME IInv, TypeInv, LossInv, Timeout
  PROVE  LossInv'
  <1>0. /\ AllFit(exch) /\ AllTied(exch) /\ NodeTypes
        /\ \A c \in Command : \A y \in exch[c] : Fit(c, y) /\ y \in Exchange(c) /\ Tied(c, y)
        /\ {"ver", "fetch", "coordination", "manifestlist", "find",
            "only-delete-manifest"} \subseteq Staged
        /\ Staged \subseteq Command
        /\ {"add-node", "complete"} \subseteq Command
        /\ \A n \in Node \ {Manager} : from[n] = config[n]
        /\ to # NoNode => Linked(to, from[Manager])
    BY LossContext
  <1>1. ASSUME UNCHANGED <<nodeVars, history>>, AllTied(exch'),
               exch'["find"] = exch["find"],
               \A y \in exch'["only-delete-manifest"] :
                 \E x \in exch["only-delete-manifest"] :
                   x.src = y.src /\ x.manifest = y.manifest
        PROVE  LossInv'
    BY <1>0, <1>1, LossFrame DEF Linked, nodeVars, history
  <1>2. ASSUME NEW c \in Command \ {"find", "only-delete-manifest"}, AllTied(exch'),
               UNCHANGED <<nodeVars, history>>,
               \A d \in Command \ {c} : exch'[d] = exch[d]
        PROVE  LossInv'
    <2>1. exch'["find"] = exch["find"]
          /\ exch'["only-delete-manifest"] = exch["only-delete-manifest"]
      BY <1>2 DEF Command
    <2> QED
      BY <1>1, <1>2, <2>1
  <1>3. ASSUME NEW c \in {"add-node", "complete"}, NEW x, exch' = Replace(c, x, {}),
               UNCHANGED <<nodeVars, history>>
        PROVE  LossInv'
    <2>1. c \in Command \ {"find", "only-delete-manifest"}
      BY DEF Command
    <2>2. AllTied(exch')
      BY <1>0, <1>3, <2>1, ReplaceTied
    <2>3. \A d \in Command \ {c} : exch'[d] = exch[d]
      BY <1>0, <1>3, <2>1, Elsewhere
    <2> QED
      BY <1>2, <1>3, <2>1, <2>2, <2>3
  <1>4. ASSUME NEW c \in {"ver", "fetch", "coordination", "manifestlist"}, NEW x, NEW xs,
               GiveUp(c, x, xs), \A y \in xs : Tied(c, y), UNCHANGED history
        PROVE  LossInv'
    <2>1. c \in Staged /\ c \in Command \ {"find", "only-delete-manifest"}
      BY <1>0
    <2>2. AllTied(exch')
      BY <1>0, <1>4, <2>1, GiveUpTied
    <2>3. \A d \in Command \ {c} : exch'[d] = exch[d]
      BY <1>0, <1>4, <2>1, Elsewhere
    <2>4. UNCHANGED nodeVars
      BY <1>4 DEF GiveUp
    <2> QED
      BY <1>2, <1>4, <2>1, <2>2, <2>3, <2>4
  <1>5. ASSUME NEW x \in exch["add-node"], OnAddCommandTimeout(x)
        PROVE  LossInv'
    BY <1>3, <1>5 DEF OnAddCommandTimeout
  <1>6. ASSUME NEW x \in exch["complete"], OnCompleteCommandTimeout(x)
        PROVE  LossInv'
    BY <1>3, <1>6 DEF OnCompleteCommandTimeout
  <1>7. ASSUME NEW x \in exch["ver"], OnVersionCommandTimeout(x)
        PROVE  LossInv'
    <2>1. \A y : Tied("ver", y)
      BY DEF Tied
    <2> QED
      BY <1>4, <1>7, <2>1 DEF OnVersionCommandTimeout
  <1>8. ASSUME NEW x \in exch["fetch"], OnFetchCommandTimeout(x)
        PROVE  LossInv'
    <2>1. \A y : Tied("fetch", y)
      BY DEF Tied
    <2> QED
      BY <1>4, <1>8, <2>1 DEF OnFetchCommandTimeout
  <1>9. ASSUME NEW x \in exch["coordination"], OnCoordinationCommandTimeout(x)
        PROVE  LossInv'
    <2>1. Linked(to, from[Manager])
      BY <1>0, <1>9, Led
    <2>2. Tied("coordination", Coordination(to, from[Manager]))
      BY <2>1 DEF Tied, Coordination
    <2> QED
      BY <1>4, <1>9, <2>2 DEF OnCoordinationCommandTimeout
  <1>10. ASSUME NEW x \in exch["manifestlist"], OnManifestListCommandTimeout(x)
         PROVE  LossInv'
    <2>1. Linked(x.src, from[x.src])
      BY <1>0, <1>10 DEF Tied, Linked
    <2>2. Tied("manifestlist", ManifestListOf(x.src, from[x.src]))
      BY <2>1 DEF Tied, ManifestListOf
    <2> QED
      BY <1>4, <1>10, <2>2 DEF OnManifestListCommandTimeout
  <1>11. ASSUME NEW x \in exch["only-delete-manifest"], OnDeleteManifestCommandTimeout(x)
         PROVE  LossInv'
    <2> DEFINE z == [x EXCEPT !.stage = "late"]
    <2>1. GiveUp("only-delete-manifest", x, {}) /\ UNCHANGED <<nodeVars, history>>
      BY <1>11 DEF OnDeleteManifestCommandTimeout, GiveUp
    <2>2. AllTied(exch')
      BY <1>0, <2>1, GiveUpTied
    <2>3. exch'["find"] = exch["find"]
      BY <1>0, <2>1, Elsewhere DEF Command
    <2>4. exch'["only-delete-manifest"] \subseteq exch["only-delete-manifest"] \cup {z}
      BY <1>0, <2>1 DEF GiveUp, Replace, AllFit
    <2>5. z.src = x.src /\ z.manifest = x.manifest
      BY AnswerData
    <2> QED
      BY <1>1, <2>1, <2>2, <2>3, <2>4, <2>5
  <1>12. ASSUME NEW x \in exch["find"], OnManifestCommandTimeout(x)
         PROVE  LossInv'
    <2> DEFINE z == [x EXCEPT !.stage = "late"]
    <2>1. /\ GiveUp("find", x, {}) /\ UNCHANGED nodeVars
          /\ excused' = excused \cup {x.manifest} /\ asked' = asked
      BY <1>12 DEF OnManifestCommandTimeout, GiveUp
    <2>2. AllTied(exch')
      BY <1>0, <2>1, GiveUpTied
    <2>3. exch'["only-delete-manifest"] = exch["only-delete-manifest"]
      BY <1>0, <2>1, Elsewhere DEF Command
    <2>4. /\ exch["find"] \ {x} \subseteq exch'["find"]
          /\ exch'["find"] \subseteq exch["find"] \cup {z}
      BY <1>0, <2>1 DEF GiveUp, Replace, AllFit
    <2>5. z.stage = "late"
      <3>1. x \in [src : Node, dst : Node, manifest : Manifest, stage : Stage,
                   found : BOOLEAN]
        BY <1>0, Exchanges
      <3> QED
        BY <3>1
    <2> HIDE DEF z
    <2>6. LinkInv'
      BY <2>1, <2>2, TiedStays DEF LossInv, LinkInv, Linked, nodeVars
    <2>7. RootInv'
      <3>1. \A k \in Node : Rooted(k) => Rooted(k)'
        BY <2>1 DEF Rooted, Closed, nodeVars
      <3>2. \A w \in exch["find"] : w.src \in Node
        BY <1>0, Fields
      <3>3. \A w \in exch'["find"] : w.stage = "data" => w \in exch["find"]
        BY <2>4, <2>5
      <3> QED
        BY <2>1, <3>1, <3>2, <3>3 DEF LossInv, RootInv, nodeVars
    <2>8. ASSUME NEW m \in Manifest, m \notin excused'
          PROVE  Kept(m)'
      <3>1. Kept(m)
        BY <2>1, <2>8 DEF LossInv, CopyInv
      <3>2. \A S \in SUBSET Node : Closed(S)' => Closed(S)
        BY <2>1 DEF Closed, nodeVars
      <3>3. m # x.manifest
        BY <2>1, <2>8
      <3>4. \A k \in Node : Holder(m, k) => Holder(m, k)'
        BY <2>1, <2>4, <3>3 DEF Holder, nodeVars
      <3>5. \A k \in Node : Owes(k, m)' => Owes(k, m)
        BY <2>1, <2>3 DEF Owes, nodeVars
      <3> QED
        BY <3>1, <3>2, <3>4, <3>5, KeptStays
    <2> QED
      BY <2>6, <2>7, <2>8 DEF LossInv, CopyInv
  <1> QED
    BY <1>5, <1>6, <1>7, <1>8, <1>9, <1>10, <1>11, <1>12 DEF Timeout

\* At first the manager has all manifests.
LEMMA InitLoss == Init => LossInv
  <1> SUFFICES ASSUME Init
               PROVE  LossInv
    OBVIOUS
  <1>0. /\ config = [n \in Node |-> NoNode] /\ from = [n \in Node |-> NoNode]
        /\ store = [n \in Node |-> IF n = Manager THEN Manifest ELSE {}]
        /\ exch = [c \in Command |-> {}] /\ asked = [n \in Node |-> {}]
        /\ to = NoNode
    BY DEF Init, InitStored
  <1>1. LinkInv
    BY <1>0, ManagerAssumption DEF LinkInv, AllTied
  <1>2. exch["find"] = {} /\ exch["only-delete-manifest"] = {}
    BY <1>0 DEF Command
  <1>3. RootInv
    BY <1>0, <1>2 DEF RootInv, Rooted
  <1>4. ASSUME NEW m \in Manifest
        PROVE  Kept(m)
    <2>1. Holder(m, Manager) /\ \A n \in Node : ~Owes(n, m)
      BY <1>0, <1>2, ManagerAssumption DEF Holder, Owes
    <2> QED
      BY <2>1, ManagerAssumption DEF Kept
  <1> QED
    BY <1>1, <1>3, <1>4 DEF LossInv, CopyInv

\* Every step keeps the invariant.
LEMMA NextLoss ==
  ASSUME ~Orderly, ~Departures, IInv, TypeInv, LossInv, [Next]_vars
  PROVE  LossInv'
  <1>1. ASSUME NEW f \in Node, NEW n \in Node, Start(n, f)
        PROVE  LossInv'
    <2>1. n \in Node \ {Manager} /\ config[n] = NoNode /\ Boot(n, f)
      BY <1>1 DEF Start
    <2> QED
      BY <2>1, BootLoss
  <1>2. CASE Operate
    BY <1>1, <1>2 DEF Operate, HandleDeleteCommand
  <1>3. CASE Deliver
    <2>1. "ver" \in {"ver", "coordination", "only-delete-manifest"}
          /\ "coordination" \in {"ver", "coordination", "only-delete-manifest"}
          /\ "only-delete-manifest" \in {"ver", "coordination", "only-delete-manifest"}
      OBVIOUS
    <2> QED
      BY <1>3, <2>1, QuietStepsLoss, ListLoss, FindLoss, FoundLoss, CompleteLoss,
         DeleteLoss, IgnoreLoss DEF Deliver
  <1>4. CASE Timeout
    BY <1>4, TimeoutLoss
  <1>5. ASSUME NEW n \in Node, Restart(n)
        PROVE  LossInv'
    BY <1>5, ExitLoss DEF Restart
  <1>6. CASE UNCHANGED vars
    <2>1. UNCHANGED <<config, from, to, store, asked, excused, exch>>
      BY <1>6 DEF vars, nodeVars, history
    <2> QED
      BY <2>1, LossFrame DEF LossInv, LinkInv
  <1> QED
    BY <1>2, <1>3, <1>4, <1>5, <1>6 DEF Next

\* In a cluster that only grows, whatever the network loses, delays and repeats
\* and however often nodes restart, a manifest that nobody stores and no find is
\* bringing had a find time out, a requester restart, or a delete that its last
\* list had not made it ask for: the delete that onCompleteCommandResponse sends
\* before the finds are answered is never the only cause of a loss.
THEOREM LossHasCauseAlways ==
  ASSUME ~Orderly, ~Departures
  PROVE  Spec => []LossHasCause
  <1>1. LossInv => LossHasCause
    BY DEF LossInv, CopyInv, Kept, Holder, LossHasCause
  <1>2. IInv /\ TypeInv /\ LossInv /\ [Next]_vars => LossInv'
    BY NextLoss
  <1> QED
    BY <1>1, <1>2, InitInv, NextInv, InitTypes, NextTypes, InitLoss, PTL DEF Spec

-----------------------------------------------------------------------------
(* The orderly cluster: the inductive invariant.                           *)

\* What the manifests move from.
Source == from[Manager]

\* An exchange is about the latest edit: the version and the file are the latest
\* ones, and a migration is that of m_to, which has the latest ring, from its
\* source.  What is deleted is not the source's.
Proper(c, x) ==
  /\ c = "ver" => x.version = version[Manager]
  /\ c = "fetch" => /\ x.version = version[Manager]
                    /\ x.stage = "data" => x.content = file[Manager]
  /\ c = "coordination" => x.dst = to /\ x.from = Source
  /\ c \in Moving => /\ x.src = to
                     /\ from[to] = Source /\ version[to] = version[Manager]
  /\ c \in Moving \ {"complete"} => x.dst = Source
  /\ c = "only-delete-manifest" =>
       GetManifestStorage(file[Manager], Hash[x.manifest]) # Source

AllProper(e) == \A c \in Command : \A x \in e[c] : Proper(c, x)

\* A list is what the source stores, and what is looked for there is found.
Sound(c, x) ==
  /\ c = "manifestlist" => (x.stage = "data" => x.content = store[Source])
  /\ c = "find" => /\ x.stage # "late"
                   /\ x.manifest \in store[Source]
                   /\ x.stage = "data" => x.found = TRUE

AllSound(e) == \A c \in Command : \A x \in e[c] : Sound(c, x)

\* Nothing but an add is under way.
Still == \A c \in Command \ {"add-node"} : exch[c] = {}

\* The manager's file is a partition, and an add, which comes alone, keeps to the
\* rules and is about a node that has just started.
RingOrder ==
  /\ Partitioned(file[Manager])
  /\ \A x \in exch["add-node"] :
       /\ exch["add-node"] = {x} /\ Still
       /\ Ring!SafeAdd(x.from, x.src)
       /\ version[x.src] = Unset

\* Node n has been told of the latest version, or waits for the ring.
Learning(n) ==
  \/ \E x \in exch["ver"] : x.dst = n /\ x.stage = "interest"
  \/ \E x \in exch["fetch"] : x.src = n /\ x.stage \in {"interest", "data"}

\* Node n has the latest ring, or will have it.
Told(n) == version[n] = version[Manager] \/ Learning(n)

AllTold == \A n \in Members(file[Manager]) \ {Manager} : Told(n)

\* Before the first edit nothing but an add is under way; after it, m_to is a
\* member other than the manager.
Idle == to = NoNode /\ Still

Directed == to \in Members(file[Manager]) \ {Manager} /\ Source \in Node \ {to}

\* Once it has the ring, m_to knows its range, which its entry gives.
RangeKnown ==
  to \in Node /\ version[to] = version[Manager] =>
    \E i \in DOMAIN file[Manager] :
      /\ file[Manager][i].node = to
      /\ range[to] = [start |-> file[Manager][i].start,
                      end |-> file[Manager][i].end]

\* The source, if it is a member still, has only keys below those of m_to.
SourceBelow ==
  \A i, j \in DOMAIN file[Manager] :
    file[Manager][i].node = Source /\ file[Manager][j].node = to =>
      file[Manager][i].end < file[Manager][j].start

EndsOrder == AllTold /\ (Idle \/ Directed) /\ RangeKnown /\ SourceBelow

\* A find of manifest m is under way; m_to has the manifest or will.
Finding(m) == \E x \in exch["find"] : x.manifest = m

Coming(m) == m \in store[to] \/ Finding(m)

\* A list that is awaited is the only one, and nothing that follows from a list is
\* under way.
ListAlone ==
  \A x \in exch["manifestlist"] : x.stage # "late" =>
    /\ \A y \in exch["manifestlist"] : y.stage # "late" => y = x
    /\ \A c \in Moving \ {"manifestlist"} : exch[c] = {}

\* With a complete, all that will be deleted is coming, and so is what is being
\* deleted.
MoveOrder ==
  /\ exch["complete"] # {} => \A m \in Selected(to, mlist[to]) : Coming(m)
  /\ \A x \in exch["only-delete-manifest"] : Coming(x.manifest)

\* What will make m_to ask for manifest m.
Chain(m) ==
  \/ /\ version[to] # version[Manager]
     /\ \A x \in exch["fetch"] : x.src = to => x.stage # "data"
  \/ \E x \in exch["coordination"] : x.stage = "interest"
  \/ \E x \in exch["manifestlist"] : x.stage # "late"
  \/ Finding(m)

\* A manifest of two digits is where a lookup looks for it, or comes there.
Placed(m) ==
  Hash[m] >= Base =>
    LET o == GetManifestStorage(file[Manager], Hash[m])
    IN  m \in store[o] \/ (o = to /\ m \in store[Source] /\ Chain(m))

CopyOrder == NothingLost /\ \A m \in Manifest : Placed(m)

\* What the ring and the exchanges are, whatever the disks have.
FlowInv == RingOrder /\ AllProper(exch) /\ EndsOrder /\ ListAlone

Flow == IInv /\ TypeInv /\ FlowInv

\* What the disks have, when nobody but the protocol writes to them.
StoreInv == AllSound(exch) /\ MoveOrder /\ CopyOrder

Inv == Flow /\ StoreInv

-----------------------------------------------------------------------------
(* Lemmas.                                                                 *)

\* The types that the leaves below need.
LEMMA OrderContext ==
  ASSUME Flow
  PROVE  /\ AllFit(exch) /\ NodeTypes /\ AllProper(exch) /\ ExchInv
         /\ file[Manager] \in File /\ Partitioned(file[Manager])
         /\ version \in [Node -> Version \cup {Unset}]
         /\ version[Manager] \in Version /\ version[Manager] \in Nat
         /\ file \in [Node -> File] /\ Manager \in Node
         /\ Members(file[Manager]) \subseteq Node
         /\ Hash \in [Manifest -> Key] /\ MaxKey \in Nat /\ Base \in Nat \ {0}
         /\ Staged \subseteq Command /\ Moving \subseteq Command
  <1>1. file[Manager] \in File /\ Members(file[Manager]) \subseteq Node
    BY ManagerEntries DEF Flow
  <1>2. version[Manager] \in Version /\ version[Manager] \in Nat
    BY Bounds DEF Flow, IInv, NodeInv, Version
  <1>3. AllFit(exch) /\ NodeTypes /\ AllProper(exch) /\ Partitioned(file[Manager])
    BY DEF Flow, TypeInv, FlowInv, RingOrder
  <1> QED
    BY <1>1, <1>2, <1>3, ManagerAssumption, HashAssumption, KeySpaceSize, BaseAssumption
       DEF Flow, IInv, NodeInv, Staged, Moving, Command

\* The fields of an exchange are those of its other stages.
LEMMA StageFields ==
  ASSUME AllFit(exch), NEW s
  PROVE  /\ \A x \in exch["ver"] : LET y == [x EXCEPT !.stage = s] IN
              y.stage = s /\ y.dst = x.dst /\ y.version = x.version
         /\ \A x \in exch["fetch"] : LET y == [x EXCEPT !.stage = s] IN
              /\ y.stage = s /\ y.src = x.src /\ y.version = x.version
              /\ y.content = x.content
         /\ \A x \in exch["coordination"] : LET y == [x EXCEPT !.stage = s] IN
              y.stage = s /\ y.dst = x.dst /\ y.from = x.from
         /\ \A x \in exch["manifestlist"] : LET y == [x EXCEPT !.stage = s] IN
              y.stage = s /\ y.src = x.src /\ y.dst = x.dst /\ y.content = x.content
         /\ \A x \in exch["find"] : LET y == [x EXCEPT !.stage = s] IN
              /\ y.stage = s /\ y.src = x.src /\ y.dst = x.dst
              /\ y.manifest = x.manifest /\ y.found = x.found
         /\ \A x \in exch["only-delete-manifest"] : LET y == [x EXCEPT !.stage = s] IN
              /\ y.stage = s /\ y.src = x.src /\ y.dst = x.dst
              /\ y.manifest = x.manifest
  <1>0. \A c \in Command : \A x \in exch[c] : x \in Exchange(c)
    BY DEF AllFit, Fit
  <1>1. ASSUME NEW x \in exch["ver"]
        PROVE  LET y == [x EXCEPT !.stage = s] IN
                 y.stage = s /\ y.dst = x.dst /\ y.version = x.version
    <2>1. x \in [dst : Node, version : Version, stage : Stage]
      BY <1>0, Exchanges DEF Command
    <2> QED
      BY <2>1
  <1>2. ASSUME NEW x \in exch["fetch"]
        PROVE  LET y == [x EXCEPT !.stage = s] IN
                 /\ y.stage = s /\ y.src = x.src /\ y.version = x.version
                 /\ y.content = x.content
    <2>1. x \in [src : Node, version : Version, stage : Stage, content : File]
      BY <1>0, Exchanges DEF Command
    <2> QED
      BY <2>1
  <1>3. ASSUME NEW x \in exch["coordination"]
        PROVE  LET y == [x EXCEPT !.stage = s] IN
                 y.stage = s /\ y.dst = x.dst /\ y.from = x.from
    <2>1. x \in [dst : Node, from : Node, stage : Stage]
      BY <1>0, Exchanges DEF Command
    <2> QED
      BY <2>1
  <1>4. ASSUME NEW x \in exch["manifestlist"]
        PROVE  LET y == [x EXCEPT !.stage = s] IN
                 y.stage = s /\ y.src = x.src /\ y.dst = x.dst /\ y.content = x.content
    <2>1. x \in [src : Node, dst : Node, stage : Stage, content : SUBSET Manifest]
      BY <1>0, Exchanges DEF Command
    <2> QED
      BY <2>1
  <1>5. ASSUME NEW x \in exch["find"]
        PROVE  LET y == [x EXCEPT !.stage = s] IN
                 /\ y.stage = s /\ y.src = x.src /\ y.dst = x.dst
                 /\ y.manifest = x.manifest /\ y.found = x.found
    <2>1. x \in [src : Node, dst : Node, manifest : Manifest, stage : Stage,
                 found : BOOLEAN]
      BY <1>0, Exchanges DEF Command
    <2> QED
      BY <2>1
  <1>6. ASSUME NEW x \in exch["only-delete-manifest"]
        PROVE  LET y == [x EXCEPT !.stage = s] IN
                 /\ y.stage = s /\ y.src = x.src /\ y.dst = x.dst
                 /\ y.manifest = x.manifest
    <2>1. x \in [src : Node, dst : Node, manifest : Manifest, stage : Stage]
      BY <1>0, Exchanges DEF Command
    <2> QED
      BY <2>1
  <1> QED
    BY <1>1, <1>2, <1>3, <1>4, <1>5, <1>6

\* The exchanges of the command itself, and of the others, after a replacement.
LEMMA ReplaceExact ==
  ASSUME ExchInv, NEW c \in Command, NEW x, NEW xs, exch' = Replace(c, x, xs)
  PROVE  /\ exch'[c] = (exch[c] \ {x}) \cup xs
         /\ \A d \in Command \ {c} : exch'[d] = exch[d]
  BY DEF ExchInv, Replace

\* The same after an answer.
Awaited(c, x) == x.stage = "interest" /\ (c \in AnswerLogged => budget.timeouts > 0)

\* What an answer leaves under way: the answer itself if it is awaited.
LEMMA AnswerExact ==
  ASSUME ExchInv, NEW c \in Command, NEW x, NEW y, exch' = Answer(c, x, y)
  PROVE  /\ exch'[c] = (exch[c] \ {x}) \cup (IF Awaited(c, x) THEN {Answered(y)} ELSE {})
         /\ \A d \in Command \ {c} : exch'[d] = exch[d]
  <1> DEFINE xs == IF Awaited(c, x) THEN {Answered(y)} ELSE {}
  <1>1. Answer(c, x, y) = Replace(c, x, xs)
    BY DEF Answer, Answered, Awaited
  <1> HIDE DEF xs
  <1>2. exch' = Replace(c, x, xs)
    BY <1>1
  <1> QED
    BY <1>2, ReplaceExact DEF xs

\* The same with what the handler sends.
LEMMA AnswerAndSendExact ==
  ASSUME ExchInv, NEW c \in Command, NEW x, NEW y, NEW d \in Command, c # d, NEW xs,
         exch' = AnswerAndSend(c, x, y, d, xs)
  PROVE  /\ exch'[c] = (exch[c] \ {x}) \cup (IF Awaited(c, x) THEN {Answered(y)} ELSE {})
         /\ exch'[d] = exch[d] \cup xs
         /\ \A b \in Command \ {c, d} : exch'[b] = exch[b]
  <1> DEFINE ys == IF Awaited(c, x) THEN {Answered(y)} ELSE {}
             a == Replace(c, x, ys)
             e == [a EXCEPT ![d] = @ \cup xs]
  <1>1. /\ a = [b \in Command |-> a[b]]
        /\ a[c] = (exch[c] \ {x}) \cup ys
        /\ \A b \in Command \ {c} : a[b] = exch[b]
    <2> HIDE DEF ys
    <2> QED
      BY ReplaceShape
  <1>2. exch' = e
    BY DEF AnswerAndSend, Answer, Answered, Awaited
  <1> HIDE DEF a
  <1>3. e[d] = a[d] \cup xs /\ \A b \in Command \ {d} : e[b] = a[b]
    BY <1>1
  <1> HIDE DEF e, ys
  <1> QED
    BY <1>1, <1>2, <1>3 DEF ys

\* The same after giving up.
LEMMA GiveUpExact ==
  ASSUME ExchInv, NEW c \in Command, NEW x, NEW xs, GiveUp(c, x, xs)
  PROVE  /\ x \in exch[c] /\ x.stage # "late"
         /\ exch'[c] = (exch[c] \ {x}) \cup xs
              \/ exch'[c] = (exch[c] \ {x}) \cup (xs \cup {[x EXCEPT !.stage = "late"]})
         /\ \A d \in Command \ {c} : exch'[d] = exch[d]
         /\ UNCHANGED nodeVars
  <1>1. /\ x \in exch[c] /\ x.stage # "late" /\ UNCHANGED nodeVars
        /\ \/ exch' = Replace(c, x, xs)
           \/ exch' = Replace(c, x, xs \cup {[x EXCEPT !.stage = "late"]})
    BY DEF GiveUp
  <1>2. CASE exch' = Replace(c, x, xs)
    BY <1>1, <1>2, ReplaceExact
  <1>3. CASE exch' = Replace(c, x, xs \cup {[x EXCEPT !.stage = "late"]})
    BY <1>1, <1>3, ReplaceExact
  <1> QED
    BY <1>1, <1>2, <1>3

\* While something but an add is under way, no add is, and a migration has its ends.
LEMMA UnderWay ==
  ASSUME Flow, NEW c \in Command \ {"add-node"}, exch[c] # {}
  PROVE  /\ exch["add-node"] = {}
         /\ to \in Node \ {Manager} /\ to \in Members(file[Manager]) \ {Manager}
         /\ Source \in Node \ {to} /\ Directed
  <1>1. exch["add-node"] = {}
    BY DEF Flow, FlowInv, RingOrder, Still
  <1>2. Directed
    BY DEF Flow, FlowInv, EndsOrder, Idle, Still
  <1>3. Members(file[Manager]) \subseteq Node
    BY OrderContext
  <1> QED
    BY <1>1, <1>2, <1>3 DEF Directed

\* A step that changes neither the ring nor the ends of the migration.
LEMMA Onward ==
  ASSUME Flow, Directed, exch["add-node"] = {}, exch'["add-node"] = {},
         to' = to, from'[Manager] = from[Manager],
         file'[Manager] = file[Manager], version'[Manager] = version[Manager],
         \A c \in Command : \A x \in exch'[c] : Proper(c, x)',
         \A n \in Members(file[Manager]) \ {Manager} : Told(n) => Told(n)',
         RangeKnown', ListAlone'
  PROVE  FlowInv'
  <1>1. RingOrder'
    BY DEF Flow, FlowInv, RingOrder
  <1>2. AllProper(exch)'
    BY DEF AllProper
  <1>3. AllTold'
    BY DEF Flow, FlowInv, EndsOrder, AllTold
  <1>4. Directed' /\ SourceBelow'
    BY DEF Flow, FlowInv, EndsOrder, Directed, SourceBelow, Source
  <1> QED
    BY <1>1, <1>2, <1>3, <1>4 DEF FlowInv, EndsOrder

\* The nodes' variables that Proper looks at.
LEMMA ProperStays ==
  ASSUME to' = to, from'[Manager] = from[Manager], file'[Manager] = file[Manager],
         version'[Manager] = version[Manager],
         from'[to] = from[to] \/ from'[to] = Source,
         version'[to] = version[to] \/ version'[to] = version[Manager]
  PROVE  \A c, x : Proper(c, x) => Proper(c, x)'
  BY DEF Proper, Source

\* What is sound stays sound as long as the source and its disk do.
LEMMA SoundStays ==
  ASSUME from'[Manager] = from[Manager], store'[Source] = store[Source]
  PROVE  \A c, x : Sound(c, x) => Sound(c, x)'
  BY DEF Sound, Source

\* A manifest stays in its place when no disk loses it and what makes m_to ask for
\* it goes on.
LEMMA PlacedStays ==
  ASSUME NEW m \in Manifest, Placed(m),
         to' = to, from'[Manager] = from[Manager], file'[Manager] = file[Manager],
         \A n \in Node : m \in store[n] => m \in store'[n],
         Flow, Directed,
         /\ Hash[m] >= Base /\ GetManifestStorage(file[Manager], Hash[m]) = to
         /\ m \in store[Source] /\ Chain(m)
         => m \in store'[to] \/ Chain(m)'
  PROVE  Placed(m)'
  <1>1. Hash[m] \in Key
    BY OrderContext
  <1>2. GetManifestStorage(file[Manager], Hash[m]) \in Node
    BY <1>1, OrderContext, SomeEntry, NoneNegative
  <1>3. Source \in Node
    BY DEF Directed
  <1> QED
    BY <1>2, <1>3 DEF Placed, Source

\* The migration when a step touches none of its exchanges and disks.
LEMMA MoveStays ==
  ASSUME Flow, to' = to, UNCHANGED <<store, mlist>>,
         \A c \in Moving : exch'[c] = exch[c],
         exch["complete"] # {} => range'[to] = range[to]
  PROVE  ListAlone' /\ (StoreInv => MoveOrder')
  <1>1. \A m : Coming(m) => Coming(m)'
    BY DEF Coming, Finding, Moving
  <1>2. exch["complete"] # {} => Selected(to, mlist[to])' = Selected(to, mlist[to])
    BY DEF Selected
  <1> QED
    BY <1>1, <1>2 DEF Flow, FlowInv, ListAlone, StoreInv, MoveOrder, Moving

\* What comes in the place of an exchange is sound.
LEMMA SoundExchanges ==
  ASSUME StoreInv, \A c \in Command : \A x \in exch'[c] : x \in exch[c] \/ Sound(c, x)
  PROVE  AllSound(exch')
  BY DEF StoreInv, AllSound

-----------------------------------------------------------------------------
(* The ring travels.                                                       *)

\* Set up for the steps that change no variable of a node.
LEMMA QuietNodes ==
  ASSUME Flow, Directed, exch["add-node"] = {}, exch'["add-node"] = {},
         UNCHANGED nodeVars,
         \A c \in Command : \A x \in exch'[c] : x \in exch[c] \/ Proper(c, x),
         \A n \in Members(file[Manager]) \ {Manager} : Told(n) => Told(n)',
         ListAlone'
  PROVE  FlowInv'
  <1>1. to' = to /\ from' = from /\ file' = file /\ version' = version /\ range' = range
    BY DEF nodeVars
  <1>2. \A c \in Command : \A x \in exch'[c] : Proper(c, x)'
    <2>1. \A c \in Command : \A x \in exch'[c] : Proper(c, x)
      BY OrderContext DEF AllProper
    <2>2. \A c, x : Proper(c, x) => Proper(c, x)'
      BY <1>1, ProperStays
    <2> QED
      BY <2>1, <2>2
  <1>3. RangeKnown'
    BY <1>1 DEF Flow, FlowInv, EndsOrder, RangeKnown
  <1> QED
    BY <1>1, <1>2, <1>3, Onward

\* A step that leaves the disks alone keeps what is said of them.
LEMMA QuietDisks ==
  ASSUME Flow, Directed, StoreInv, UNCHANGED nodeVars, AllSound(exch'), MoveOrder',
         \A m \in Manifest : Chain(m) => Chain(m)'
  PROVE  StoreInv'
  <1>1. to' = to /\ from' = from /\ file' = file /\ version' = version /\ store' = store
    BY DEF nodeVars
  <1>2. AllSound(exch)'
    <2>1. \A c, x : Sound(c, x) => Sound(c, x)'
      BY <1>1, SoundStays
    <2> QED
      BY <2>1 DEF AllSound
  <1>3. NothingLost'
    BY <1>1 DEF StoreInv, CopyOrder, NothingLost
  <1>4. \A m \in Manifest : Placed(m) => Placed(m)'
    BY <1>1, PlacedStays
  <1> QED
    BY <1>2, <1>3, <1>4 DEF StoreInv, CopyOrder

\* A member that is told of the version has it, or asks for the ring.
LEMMA VersionOrder ==
  ASSUME Flow, NEW x \in exch["ver"], HandleVersionCommand(x)
  PROVE  FlowInv' /\ (StoreInv => StoreInv')
  <1> DEFINE xs == IF x.version # version[x.dst] THEN {Fetch(x.dst, x.version)} ELSE {}
  <1>1. /\ exch' = AnswerAndSend("ver", x, x, "fetch", xs)
        /\ UNCHANGED nodeVars
    BY DEF HandleVersionCommand
  <1>2. /\ exch'["ver"] \subseteq (exch["ver"] \ {x}) \cup {Answered(x)}
        /\ exch["ver"] \ {x} \subseteq exch'["ver"]
        /\ exch'["fetch"] = exch["fetch"] \cup xs
        /\ \A b \in Command \ {"ver", "fetch"} : exch'[b] = exch[b]
    <2> HIDE DEF xs
    <2>1. /\ exch'["ver"] =
               (exch["ver"] \ {x}) \cup (IF Awaited("ver", x) THEN {Answered(x)} ELSE {})
          /\ exch'["fetch"] = exch["fetch"] \cup xs
          /\ \A b \in Command \ {"ver", "fetch"} : exch'[b] = exch[b]
      BY <1>1, OrderContext, AnswerAndSendExact DEF Command
    <2> QED
      BY <2>1
  <1>3. /\ exch["add-node"] = {} /\ Directed /\ to \in Node \ {Manager}
        /\ exch'["add-node"] = {}
    BY <1>2, UnderWay DEF Command
  <1>4. /\ to' = to /\ from' = from /\ file' = file /\ version' = version
        /\ store' = store /\ range' = range /\ mlist' = mlist
    BY <1>1 DEF nodeVars
  <1>5. Proper("ver", x)
    BY OrderContext DEF AllProper, Command
  <1>6. Answered(x).version = x.version
    BY OrderContext, StageFields DEF Answered
  <1>7. \A c \in Command : \A y \in exch'[c] : y \in exch[c] \/ Proper(c, y)
    <2>1. Proper("ver", Answered(x))
      BY <1>5, <1>6 DEF Proper, Moving
    <2>2. \A y \in xs : Proper("fetch", y)
      BY <1>5 DEF Proper, Moving, Fetch
    <2> HIDE DEF xs
    <2> QED
      BY <1>2, <2>1, <2>2
  <1>8. \A n \in Members(file[Manager]) \ {Manager} : Told(n) => Told(n)'
    <2> SUFFICES ASSUME NEW n \in Members(file[Manager]) \ {Manager}, Told(n)
                 PROVE  Told(n)'
      OBVIOUS
    <2>1. CASE version[n] = version[Manager]
      BY <1>4, <2>1 DEF Told
    <2>2. ASSUME NEW y \in exch["ver"], y.dst = n, y.stage = "interest", y # x
          PROVE  Told(n)'
      BY <1>2, <2>2 DEF Told, Learning
    <2>3. CASE x.dst = n /\ version[n] # version[Manager]
      <3>1. Fetch(n, x.version) \in exch'["fetch"]
        BY <1>2, <1>5, <2>3 DEF Proper
      <3>2. Fetch(n, x.version).src = n /\ Fetch(n, x.version).stage = "interest"
        BY DEF Fetch
      <3> QED
        BY <3>1, <3>2 DEF Told, Learning
    <2>4. ASSUME NEW y \in exch["fetch"], y.src = n, y.stage \in {"interest", "data"}
          PROVE  Told(n)'
      BY <1>2, <2>4 DEF Told, Learning
    <2> QED
      BY <2>1, <2>2, <2>3, <2>4 DEF Told, Learning
  <1>9. ListAlone' /\ (StoreInv => MoveOrder')
    BY <1>2, <1>4, MoveStays DEF Moving, Command
  <1>10. \A m \in Manifest : Chain(m) => Chain(m)'
    <2>1. \A y \in xs : y.stage # "data"
      BY DEF Fetch
    <2> HIDE DEF xs
    <2> QED
      BY <1>2, <1>4, <2>1 DEF Chain, Finding, Command
  <1>11. FlowInv'
    BY <1>1, <1>3, <1>7, <1>8, <1>9, QuietNodes
  <1>12. StoreInv => AllSound(exch')
    <2> HIDE DEF xs
    <2>1. \A c \in Command : \A y \in exch'[c] : y \in exch[c] \/ Sound(c, y)
      BY <1>2 DEF Sound
    <2> QED
      BY <2>1, SoundExchanges
  <1> QED
    BY <1>1, <1>3, <1>9, <1>10, <1>11, <1>12, QuietDisks

\* The manager answers with the latest ring, and tells m_to, and with that m_to will
\* ask for every manifest.
LEMMA FetchOrder ==
  ASSUME Flow, NEW x \in exch["fetch"], HandleFetchCommand(x)
  PROVE  FlowInv' /\ (StoreInv => StoreInv')
  <1> DEFINE content == IF x.version = version[Manager] THEN file[Manager] ELSE <<>>
             y == [x EXCEPT !.content = content]
             add == Coordination(to, from[Manager])
  <1>1. /\ exch' = AnswerAndSend("fetch", x, y, "coordination", {add})
        /\ UNCHANGED nodeVars
    BY DEF HandleFetchCommand
  <1>2. /\ exch'["fetch"] =
             (exch["fetch"] \ {x}) \cup (IF Awaited("fetch", x) THEN {Answered(y)} ELSE {})
        /\ exch'["coordination"] = exch["coordination"] \cup {add}
        /\ \A b \in Command \ {"fetch", "coordination"} : exch'[b] = exch[b]
    <2> HIDE DEF y, add
    <2> QED
      BY <1>1, OrderContext, AnswerAndSendExact DEF Command
  <1>3. /\ exch["add-node"] = {} /\ Directed /\ to \in Node \ {Manager}
        /\ exch'["add-node"] = {}
    BY <1>2, UnderWay DEF Command
  <1>4. /\ to' = to /\ from' = from /\ file' = file /\ version' = version
        /\ store' = store /\ range' = range /\ mlist' = mlist
    BY <1>1 DEF nodeVars
  <1>5. Proper("fetch", x)
    BY OrderContext DEF AllProper, Command
  <1>6. /\ Answered(y).version = x.version /\ Answered(y).src = x.src
        /\ Answered(y).stage = "data" /\ Answered(y).content = file[Manager]
    <2>1. x \in [src : Node, version : Version, stage : Stage, content : File]
      BY OrderContext, Exchanges DEF AllFit, Fit, Command
    <2>2. content = file[Manager]
      BY <1>5 DEF Proper
    <2> HIDE DEF content
    <2> QED
      BY <2>1, <2>2 DEF Answered
  <1> HIDE DEF y
  <1>7. \A c \in Command : \A z \in exch'[c] : z \in exch[c] \/ Proper(c, z)
    <2>1. Proper("fetch", Answered(y))
      BY <1>5, <1>6 DEF Proper, Moving
    <2>2. Proper("coordination", add)
      BY DEF Proper, Moving, Coordination, Source
    <2> HIDE DEF add
    <2> QED
      BY <1>2, <2>1, <2>2
  <1>8. \A n \in Members(file[Manager]) \ {Manager} : Told(n) => Told(n)'
    <2> SUFFICES ASSUME NEW n \in Members(file[Manager]) \ {Manager}, Told(n)
                 PROVE  Told(n)'
      OBVIOUS
    <2>1. CASE version[n] = version[Manager]
      BY <1>4, <2>1 DEF Told
    <2>2. ASSUME NEW z \in exch["ver"], z.dst = n, z.stage = "interest"
          PROVE  Told(n)'
      BY <1>2, <2>2 DEF Told, Learning, Command
    <2>3. ASSUME NEW z \in exch["fetch"], z.src = n, z.stage \in {"interest", "data"},
                 z # x
          PROVE  Told(n)'
      BY <1>2, <2>3 DEF Told, Learning
    <2>4. CASE x.src = n /\ x.stage \in {"interest", "data"}
      <3>1. Awaited("fetch", x)
        BY <2>4 DEF Awaited, AnswerLogged, HandleFetchCommand, Arriving
      <3>2. Answered(y) \in exch'["fetch"]
        BY <1>2, <3>1
      <3> QED
        BY <1>6, <2>4, <3>2 DEF Told, Learning
    <2> QED
      BY <2>1, <2>2, <2>3, <2>4 DEF Told, Learning
  <1>9. ListAlone' /\ (StoreInv => MoveOrder')
    BY <1>2, <1>4, MoveStays DEF Moving, Command
  <1>10. \A m \in Manifest : Chain(m)'
    <2>1. add \in exch'["coordination"] /\ add.stage = "interest"
      BY <1>2 DEF Coordination
    <2> HIDE DEF add
    <2> QED
      BY <2>1 DEF Chain
  <1>11. FlowInv'
    BY <1>1, <1>3, <1>7, <1>8, <1>9, QuietNodes
  <1>12. StoreInv => AllSound(exch')
    <2> HIDE DEF add
    <2>1. \A c \in Command : \A z \in exch'[c] : z \in exch[c] \/ Sound(c, z)
      BY <1>2 DEF Sound
    <2> QED
      BY <2>1, SoundExchanges
  <1> QED
    BY <1>1, <1>3, <1>9, <1>10, <1>11, <1>12, QuietDisks

\* A node has one entry in the manager's file, and its bounds are readable.
LEMMA EntryOf ==
  ASSUME Flow, NEW n \in Members(file[Manager])
  PROVE  LET e == file[Manager][IndexOf(file[Manager], n)]
         IN  /\ IndexOf(file[Manager], n) \in DOMAIN file[Manager] /\ e.node = n
             /\ Ring!Readable(e)
             /\ \A i \in DOMAIN file[Manager] :
                  file[Manager][i].node = n => file[Manager][i] = e
  <1> DEFINE F == file[Manager]
             k == IndexOf(F, n)
  <1>1. F \in File /\ Partitioned(F)
    BY OrderContext
  <1>2. k \in DOMAIN F /\ F[k].node = n
    BY <1>1, FirstEntry
  <1> HIDE DEF k, F
  <1>3. F[k].start \in Nat /\ F[k].end \in Nat
    BY <1>1, <1>2, NoneNegative
  <1>4. \A i \in DOMAIN F : F[i].node = n => i = k
    BY <1>1, <1>2 DEF Partitioned, OneEntry
  <1> QED
    BY <1>2, <1>3, <1>4 DEF F, k, Ring!Readable

\* A member takes the ring, whose entries it can read; while it reports completion,
\* it has the ring already.
LEMMA RingTaken ==
  ASSUME Flow, NEW x \in exch["fetch"], OnFetchCommandResponse(x)
  PROVE  LET F == file[Manager]
             e == F[IndexOf(F, x.src)]
         IN  /\ x.stage = "data" /\ x.content = F /\ x.version = version[Manager]
             /\ x.src \in Node \ {Manager}
             /\ exch'["fetch"] = exch["fetch"] \ {x}
             /\ \A b \in Command \ {"fetch"} : exch'[b] = exch[b]
             /\ exch["add-node"] = {} /\ Directed /\ to \in Members(F)
             /\ to \in Node \ {Manager} /\ exch'["add-node"] = {}
             /\ version'[x.src] = version[Manager] /\ version'[Manager] = version[Manager]
             /\ \A n \in Node : n # x.src => version'[n] = version[n]
             /\ file'[Manager] = file[Manager]
             /\ to' = to /\ from' = from /\ store' = store /\ mlist' = mlist
             /\ published' = published
             /\ x.src = to => range'[to] = [start |-> e.start, end |-> e.end]
             /\ x.src # to => range'[to] = range[to]
             /\ \/ /\ IndexOf(F, x.src) \in DOMAIN F
                   /\ e.node = x.src
                   /\ \A i \in DOMAIN F : F[i].node = x.src => F[i] = e
                \/ x.src \notin Members(F)
             /\ exch["complete"] # {} => range'[to] = range[to]
  <1> DEFINE F == file[Manager]
             e == F[IndexOf(F, x.src)]
  <1>1. x.stage = "data" /\ x.content = F /\ x.version = version[Manager]
        /\ x.src \in Node \ {Manager}
    BY OrderContext DEF OnFetchCommandResponse, Returning, AllProper, Proper, Command,
                        Flow, IInv, ExchInv, FetchOK
  <1>2. F # <<>>
    BY DEF Flow, IInv, RingInv
  <1>3. /\ exch' = Replace("fetch", x, {})
        /\ version' = [version EXCEPT ![x.src] = x.version]
        /\ file' = [file EXCEPT ![x.src] = F]
        /\ range' = IF x.src \in Members(F)
                    THEN [range EXCEPT ![x.src] = [start |-> e.start, end |-> e.end]]
                    ELSE range
        /\ UNCHANGED <<config, from, to, mlist, store, budget, history>>
    <2>1. ~(x.src \in Members(x.content)
            /\ ~Ring!Readable(x.content[IndexOf(x.content, x.src)]))
      BY <1>1, EntryOf
    <2> QED
      BY <1>1, <1>2, <2>1 DEF OnFetchCommandResponse
  <1>4. /\ exch'["fetch"] = exch["fetch"] \ {x}
        /\ \A b \in Command \ {"fetch"} : exch'[b] = exch[b]
    BY <1>3, OrderContext, ReplaceExact DEF Command
  <1>5. /\ exch["add-node"] = {} /\ Directed /\ to \in Members(F) /\ to \in Node \ {Manager}
        /\ exch'["add-node"] = {}
    BY <1>4, UnderWay DEF Command
  <1>6. /\ version'[x.src] = version[Manager] /\ version'[Manager] = version[Manager]
        /\ \A n \in Node : n # x.src => version'[n] = version[n]
        /\ file'[Manager] = file[Manager]
        /\ to' = to /\ from' = from /\ store' = store /\ mlist' = mlist
        /\ published' = published
    BY <1>1, <1>3, OrderContext DEF history
  <1>7. range \in [Node -> KeyRange]
    BY OrderContext DEF NodeTypes
  <1>8. /\ x.src = to => range'[to] = [start |-> e.start, end |-> e.end]
        /\ x.src # to => range'[to] = range[to]
    BY <1>1, <1>3, <1>5, <1>7
  <1>9. /\ IndexOf(F, x.src) \in DOMAIN F
        /\ e.node = x.src
        /\ \A i \in DOMAIN F : F[i].node = x.src => F[i] = e
     \/ x.src \notin Members(F)
    BY EntryOf
  <1> HIDE DEF e
  <1>10. exch["complete"] # {} => range'[to] = range[to]
    <2> SUFFICES ASSUME NEW y \in exch["complete"], x.src = to
                 PROVE  range'[to] = range[to]
      BY <1>8
    <2>1. version[to] = version[Manager]
      BY OrderContext DEF AllProper, Proper, Moving, Command
    <2>2. PICK i \in DOMAIN F :
            F[i].node = to /\ range[to] = [start |-> F[i].start, end |-> F[i].end]
      BY <1>5, <2>1 DEF Flow, FlowInv, EndsOrder, RangeKnown
    <2>3. F[i] = e
      BY <1>5, <1>9, <2>2
    <2> QED
      BY <1>8, <2>2, <2>3
  <1> QED
    BY <1>1, <1>4, <1>5, <1>6, <1>8, <1>9, <1>10 DEF e, F

\* The ring is taken without harm to anything under way.
LEMMA RingOrderStep ==
  ASSUME Flow, NEW x \in exch["fetch"], OnFetchCommandResponse(x)
  PROVE  FlowInv' /\ (StoreInv => StoreInv')
  <1> DEFINE F == file[Manager]
             e == F[IndexOf(F, x.src)]
  <1>1. /\ x.stage = "data" /\ x.content = F /\ x.version = version[Manager]
        /\ x.src \in Node \ {Manager}
        /\ exch'["fetch"] = exch["fetch"] \ {x}
        /\ \A b \in Command \ {"fetch"} : exch'[b] = exch[b]
        /\ exch["add-node"] = {} /\ Directed /\ to \in Members(F)
        /\ to \in Node \ {Manager} /\ exch'["add-node"] = {}
        /\ version'[x.src] = version[Manager] /\ version'[Manager] = version[Manager]
        /\ \A n \in Node : n # x.src => version'[n] = version[n]
        /\ file'[Manager] = file[Manager]
        /\ to' = to /\ from' = from /\ store' = store /\ mlist' = mlist
        /\ published' = published
        /\ x.src = to => range'[to] = [start |-> e.start, end |-> e.end]
        /\ x.src # to => range'[to] = range[to]
        /\ \/ /\ IndexOf(F, x.src) \in DOMAIN F
              /\ e.node = x.src
              /\ \A i \in DOMAIN F : F[i].node = x.src => F[i] = e
           \/ x.src \notin Members(F)
        /\ exch["complete"] # {} => range'[to] = range[to]
    BY RingTaken
  <1> HIDE DEF e
  <1>2. RangeKnown'
    <2>1. CASE x.src = to
      <3>1. /\ IndexOf(F, to) \in DOMAIN F /\ F[IndexOf(F, to)].node = to
            /\ F[IndexOf(F, to)] = e
        BY <1>1, <2>1 DEF e
      <3>2. range'[to] = [start |-> F[IndexOf(F, to)].start, end |-> F[IndexOf(F, to)].end]
        BY <1>1, <2>1, <3>1
      <3> QED
        BY <1>1, <3>1, <3>2 DEF RangeKnown
    <2>2. CASE x.src # to
      BY <1>1, <2>2 DEF Flow, FlowInv, EndsOrder, RangeKnown
    <2> QED
      BY <2>1, <2>2
  <1>3. ListAlone' /\ (StoreInv => MoveOrder')
    <2>1. \A c \in Moving : exch'[c] = exch[c]
      BY <1>1 DEF Moving, Command
    <2> QED
      BY <1>1, <2>1, MoveStays
  <1>4. \A c \in Command : \A z \in exch'[c] : Proper(c, z)'
    <2>1. \A c \in Command : \A z \in exch'[c] : Proper(c, z)
      BY <1>1, OrderContext DEF AllProper
    <2>2. version'[to] = version[to] \/ version'[to] = version[Manager]
      BY <1>1
    <2> QED
      BY <1>1, <2>1, <2>2, ProperStays
  <1>5. \A n \in Members(F) \ {Manager} : Told(n) => Told(n)'
    <2> SUFFICES ASSUME NEW n \in Members(F) \ {Manager}, Told(n), n # x.src
                 PROVE  Told(n)'
      BY <1>1 DEF Told
    <2>1. n \in Node
      BY OrderContext
    <2>2. Learning(n) => Learning(n)'
      BY <1>1 DEF Learning, Command
    <2> QED
      BY <1>1, <2>1, <2>2 DEF Told
  <1>6. \A m \in Manifest : Chain(m) => Chain(m)'
    <2>1. x.src = to => ~(\A z \in exch["fetch"] : z.src = to => z.stage # "data")
      BY <1>1
    <2>2. x.src # to => version'[to] = version[to]
      BY <1>1
    <2> QED
      BY <1>1, <2>1, <2>2 DEF Chain, Finding, Command
  <1>7. \A m \in Manifest : Placed(m) => Placed(m)'
    BY <1>1, <1>6, PlacedStays
  <1>8. StoreInv => AllSound(exch)'
    <2>1. \A c \in Command : exch'[c] \subseteq exch[c]
      BY <1>1
    <2>2. \A c, z : Sound(c, z) => Sound(c, z)'
      BY <1>1, SoundStays
    <2> QED
      BY <2>1, <2>2 DEF StoreInv, AllSound
  <1>9. StoreInv => NothingLost'
    BY <1>1 DEF StoreInv, CopyOrder, NothingLost
  <1>10. FlowInv'
    BY <1>1, <1>2, <1>3, <1>4, <1>5, Onward
  <1> QED
    BY <1>3, <1>7, <1>8, <1>9, <1>10 DEF StoreInv, CopyOrder

-----------------------------------------------------------------------------
(* The manifests follow.                                                   *)

\* The exchanges of a migration are m_to's.
LEMMA Mover ==
  ASSUME Flow, NEW c \in Moving, NEW x \in exch[c]
  PROVE  /\ x.src = to
         /\ c # "complete" => x.dst = Source
         /\ from[to] = Source /\ version[to] = version[Manager]
         /\ to \in Node \ {Manager} /\ Source \in Node \ {to} /\ Directed
         /\ exch["add-node"] = {}
  <1>1. c \in Command \ {"add-node"}
    BY DEF Moving, Command
  <1>2. Proper(c, x)
    BY <1>1, OrderContext DEF AllProper
  <1> QED
    BY <1>1, <1>2, UnderWay DEF Proper

\* What was told stays told while the ring does not travel.
LEMMA ToldStays ==
  ASSUME version' = version, exch'["ver"] = exch["ver"], exch'["fetch"] = exch["fetch"]
  PROVE  \A n : Told(n) => Told(n)'
  BY DEF Told, Learning

\* A coordination comes to m_to when it has the ring and no migration is under way,
\* and begins one.
LEMMA CoordinationOrder ==
  ASSUME Flow, Orderly, NEW x \in exch["coordination"], HandleCoordinationCommand(x)
  PROVE  FlowInv' /\ (StoreInv => StoreInv')
  <1> DEFINE add == ManifestListOf(to, Source)
  <1>1. x.dst = to /\ x.from = Source
    BY OrderContext DEF AllProper, Proper, Command
  <1>2. /\ version[to] = version[Manager] /\ Migrating(to) = {}
        /\ from' = [from EXCEPT ![to] = Source]
        /\ exch' = AnswerAndSend("coordination", x, x, "manifestlist", {add})
        /\ UNCHANGED <<config, version, file, range, to, mlist, store, budget, history>>
    BY <1>1 DEF HandleCoordinationCommand
  <1>3. /\ exch'["coordination"] = (exch["coordination"] \ {x})
             \cup (IF Awaited("coordination", x) THEN {Answered(x)} ELSE {})
        /\ exch'["manifestlist"] = exch["manifestlist"] \cup {add}
        /\ \A b \in Command \ {"coordination", "manifestlist"} : exch'[b] = exch[b]
    <2> HIDE DEF add
    <2> QED
      BY <1>2, OrderContext, AnswerAndSendExact DEF Command
  <1>4. /\ exch["add-node"] = {} /\ Directed /\ to \in Node \ {Manager}
        /\ Source \in Node \ {to} /\ exch'["add-node"] = {}
    BY <1>3, UnderWay DEF Command
  <1>5. /\ from'[Manager] = from[Manager] /\ from'[to] = Source
        /\ to' = to /\ file' = file /\ version' = version
        /\ store' = store /\ range' = range /\ mlist' = mlist
    BY <1>2, <1>4, OrderContext DEF NodeTypes
  <1>6. \A c \in Moving : exch[c] = {}
    <2>1. \A c \in Moving : \A y \in exch[c] : y.src = to
      BY Mover
    <2>2. \A c \in Moving : \A y \in exch[c] : y.src = to => y \in Migrating(to)
      BY DEF Migrating, Moving
    <2> QED
      BY <1>2, <2>1, <2>2
  <1>7. /\ exch'["manifestlist"] = {add}
        /\ \A c \in Moving \ {"manifestlist"} : exch'[c] = {}
    BY <1>3, <1>6 DEF Moving, Command
  <1>8. /\ add.src = to /\ add.dst = Source /\ add.stage = "interest"
    BY DEF ManifestListOf
  <1> HIDE DEF add
  <1>9. \A c \in Command : \A z \in exch'[c] : Proper(c, z)'
    <2>1. \A c, z : Proper(c, z) => Proper(c, z)'
      BY <1>5, ProperStays
    <2>2. Proper("coordination", Answered(x))
      <3>1. Answered(x).dst = x.dst /\ Answered(x).from = x.from
        BY OrderContext, StageFields DEF Answered
      <3> QED
        BY <1>1, <3>1 DEF Proper, Moving
    <2>3. \A z \in exch'["coordination"] : Proper("coordination", z)
      BY <1>3, <2>2, OrderContext DEF AllProper, Command
    <2>4. \A z \in exch'["manifestlist"] : Proper("manifestlist", z)'
      BY <1>2, <1>5, <1>7, <1>8 DEF Proper, Moving, Source
    <2>5. \A c \in Command \ {"coordination", "manifestlist"} :
            \A z \in exch'[c] : Proper(c, z)
      BY <1>3, OrderContext DEF AllProper
    <2> QED
      BY <2>1, <2>3, <2>4, <2>5
  <1>10. \A n \in Members(file[Manager]) \ {Manager} : Told(n) => Told(n)'
    <2>1. exch'["ver"] = exch["ver"] /\ exch'["fetch"] = exch["fetch"]
      BY <1>3 DEF Command
    <2> QED
      BY <1>5, <2>1, ToldStays
  <1>11. ListAlone' /\ MoveOrder'
    BY <1>5, <1>7, <1>8 DEF ListAlone, MoveOrder, Moving
  <1>12. RangeKnown' /\ (StoreInv => NothingLost')
    BY <1>5 DEF Flow, FlowInv, EndsOrder, RangeKnown, StoreInv, CopyOrder, NothingLost
  <1>13. \A m \in Manifest : Chain(m)'
    BY <1>7, <1>8 DEF Chain
  <1>14. \A m \in Manifest : Placed(m) => Placed(m)'
    BY <1>4, <1>5, <1>13, PlacedStays
  <1>15. FlowInv'
    BY <1>4, <1>5, <1>9, <1>10, <1>11, <1>12, Onward
  <1>16. AllSound(exch)'
    <2>1. exch'["find"] = {} /\ \A z \in exch'["manifestlist"] : z.stage # "data"
      BY <1>7, <1>8 DEF Moving
    <2> QED
      BY <2>1 DEF AllSound, Sound
  <1> QED
    BY <1>11, <1>12, <1>14, <1>15, <1>16 DEF StoreInv, CopyOrder

\* The source answers with all that it stores.
LEMMA ListOrder ==
  ASSUME Flow, NEW x \in exch["manifestlist"], HandleManifestListCommand(x)
  PROVE  FlowInv' /\ (StoreInv => StoreInv')
  <1> DEFINE y == [x EXCEPT !.content = store[x.dst]]
  <1>1. exch' = Answer("manifestlist", x, y) /\ UNCHANGED nodeVars
        /\ x.stage \in {"interest", "late"}
    BY DEF HandleManifestListCommand, Arriving
  <1>2. /\ exch'["manifestlist"] = (exch["manifestlist"] \ {x})
             \cup (IF Awaited("manifestlist", x) THEN {Answered(y)} ELSE {})
        /\ \A b \in Command \ {"manifestlist"} : exch'[b] = exch[b]
    <2> HIDE DEF y
    <2> QED
      BY <1>1, OrderContext, AnswerExact DEF Command
  <1>3. /\ x.src = to /\ x.dst = Source
        /\ from[to] = Source /\ version[to] = version[Manager] /\ Directed
        /\ exch["add-node"] = {} /\ exch'["add-node"] = {}
    BY <1>2, Mover DEF Moving, Command
  <1>4. /\ to' = to /\ from' = from /\ file' = file /\ version' = version
        /\ store' = store /\ range' = range /\ mlist' = mlist
    BY <1>1 DEF nodeVars
  <1>5. /\ Answered(y).src = to /\ Answered(y).dst = Source
        /\ Answered(y).stage = "data" /\ Answered(y).content = store[Source]
    <2>1. x \in [src : Node, dst : Node, stage : Stage, content : SUBSET Manifest]
      BY OrderContext, Exchanges DEF AllFit, Fit, Command
    <2> QED
      BY <1>3, <2>1 DEF Answered
  <1>6. Awaited("manifestlist", x) <=> x.stage # "late"
    BY <1>1 DEF Awaited, AnswerLogged
  <1> HIDE DEF y
  <1>7. \A c \in Command : \A z \in exch'[c] : z \in exch[c] \/ Proper(c, z)
    <2>1. Proper("manifestlist", Answered(y))
      BY <1>3, <1>5 DEF Proper, Moving
    <2> QED
      BY <1>2, <2>1
  <1>8. \A n \in Members(file[Manager]) \ {Manager} : Told(n) => Told(n)'
    <2>1. exch'["ver"] = exch["ver"] /\ exch'["fetch"] = exch["fetch"]
      BY <1>2 DEF Command
    <2> QED
      BY <1>4, <2>1, ToldStays
  <1>9. ListAlone'
    <2>1. \A z \in exch'["manifestlist"] : z.stage # "late" =>
            /\ \A w \in exch'["manifestlist"] : w.stage # "late" => w = z
            /\ \A c \in Moving \ {"manifestlist"} : exch[c] = {}
      BY <1>2, <1>5, <1>6 DEF Flow, FlowInv, ListAlone
    <2>2. \A c \in Moving \ {"manifestlist"} : exch'[c] = exch[c]
      BY <1>2 DEF Moving, Command
    <2> QED
      BY <2>1, <2>2 DEF ListAlone
  <1>11. StoreInv => MoveOrder'
    <2>1. \A m : Coming(m) => Coming(m)'
      BY <1>2, <1>4 DEF Coming, Finding, Command
    <2>2. Selected(to, mlist[to])' = Selected(to, mlist[to])
      BY <1>4 DEF Selected
    <2>3. \A c \in Moving \ {"manifestlist"} : exch'[c] = exch[c]
      BY <1>2 DEF Moving, Command
    <2> QED
      BY <2>1, <2>2, <2>3 DEF StoreInv, MoveOrder, Moving
  <1>10. \A m \in Manifest : Chain(m) => Chain(m)'
    <2>1. \A b \in {"fetch", "coordination", "find"} : exch'[b] = exch[b]
      BY <1>2 DEF Command
    <2>2. (\E z \in exch["manifestlist"] : z.stage # "late")
            => \E z \in exch'["manifestlist"] : z.stage # "late"
      BY <1>2, <1>5, <1>6
    <2> QED
      BY <1>4, <2>1, <2>2 DEF Chain, Finding
  <1>12. FlowInv'
    BY <1>1, <1>3, <1>7, <1>8, <1>9, QuietNodes
  <1>13. StoreInv => AllSound(exch')
    <2>1. \A c \in Command : \A z \in exch'[c] : z \in exch[c] \/ Sound(c, z)
      BY <1>2, <1>5 DEF Sound
    <2> QED
      BY <2>1, SoundExchanges
  <1> QED
    BY <1>1, <1>3, <1>10, <1>11, <1>12, <1>13, QuietDisks

\* A quotient is at most the dividend.
LEMMA TimesAtLeastOne ==
  ASSUME NEW b \in Nat, NEW q \in Nat, b >= 1
  PROVE  q <= b * q
  OBVIOUS

\* A quotient times its divisor is no more than the dividend.
LEMMA DivisorTimesQuotient ==
  ASSUME NEW b \in Nat, NEW a \in Nat, b >= 1
  PROVE  a \div b \in Nat /\ b * (a \div b) <= a
  OBVIOUS

\* A quotient is no more than the dividend.
LEMMA QuotientBelow ==
  ASSUME NEW b \in Nat, NEW a \in Nat, b >= 1
  PROVE  a \div b \in Nat /\ a \div b <= a
  <1> DEFINE q == a \div b
  <1>1. q \in Nat /\ b * q <= a
    BY DivisorTimesQuotient
  <1> HIDE DEF q
  <1>2. q <= b * q /\ b * q \in Nat
    BY <1>1, TimesAtLeastOne
  <1>3. q \in Nat /\ q <= a
    BY <1>1, <1>2
  <1> QED
    BY <1>3 DEF q

\* A key of two digits that an entry has is selected by the entry's range; a key
\* that it selects is at least the entry's first one.
LEMMA InRangeBounds ==
  ASSUME NEW h \in Key, NEW s \in Nat, NEW e \in Nat
  PROVE  /\ Base <= h /\ s <= h /\ h <= e => InRange(h, [start |-> s, end |-> e])
         /\ InRange(h, [start |-> s, end |-> e]) => s <= h
  <1>0. h \in Nat /\ Base \in Nat /\ Base >= 1
    BY KeySpaceSize, BaseAssumption DEF Key
  <1>1. ASSUME Base <= h, s <= h, h <= e
        PROVE  \E key \in s .. e : PrefixMatch(key, h)
    <2>1. h \in s .. e /\ h \notin 0 .. (Base - 1)
      BY <1>0, <1>1
    <2> QED
      BY <2>1 DEF PrefixMatch
  <1>2. h \div Base \in Nat /\ h \div Base <= h
    BY <1>0, QuotientBelow
  <1>3. ASSUME NEW key \in s .. e, PrefixMatch(key, h)
        PROVE  s <= h
    <2>1. key = h \div Base \/ key = h
      BY <1>3 DEF PrefixMatch
    <2>2. key <= h
      BY <1>0, <1>2, <2>1
    <2> QED
      BY <1>0, <2>2
  <1> QED
    BY <1>1, <1>3 DEF InRange

\* What m_to's range selects, once it has the ring: all of its keys of two digits,
\* and none of the source's.
LEMMA Selects ==
  ASSUME Flow, Directed, version[to] = version[Manager], NEW m \in Manifest
  PROVE  LET o == GetManifestStorage(file[Manager], Hash[m])
         IN  /\ Hash[m] >= Base /\ o = to => InRange(Hash[m], range[to])
             /\ InRange(Hash[m], range[to]) => o # Source
  <1> DEFINE F == file[Manager]
             h == Hash[m]
  <1>1. to \in Node
    BY OrderContext DEF Directed
  <1>2. PICK i \in DOMAIN F :
          F[i].node = to /\ range[to] = [start |-> F[i].start, end |-> F[i].end]
    BY <1>1 DEF Flow, FlowInv, EndsOrder, RangeKnown
  <1>3. F \in File /\ Partitioned(F) /\ h \in Key /\ h \in Nat
    BY OrderContext DEF Key
  <1>4. PICK j \in DOMAIN F : h \in KeysOf(F[j]) /\ GetManifestStorage(F, h) = F[j].node
    BY <1>3, SomeEntry
  <1>5. \A k, l \in DOMAIN F : F[k].node = Source /\ F[l].node = to => F[k].end < F[l].start
    BY DEF Flow, FlowInv, EndsOrder, SourceBelow
  <1> HIDE DEF F, h
  <1>6. /\ F[i].start \in Nat /\ F[i].end \in Nat
        /\ F[j].start \in Nat /\ F[j].end \in Nat
    BY <1>2, <1>3, <1>4, NoneNegative
  <1>7. F[j].start <= h /\ h <= F[j].end
    BY <1>3, <1>4, <1>6 DEF KeysOf
  <1>8. ASSUME h >= Base, GetManifestStorage(F, h) = to
        PROVE  InRange(h, range[to])
    <2>1. j = i
      BY <1>2, <1>3, <1>4, <1>8 DEF Partitioned, OneEntry
    <2> QED
      BY <1>2, <1>3, <1>6, <1>7, <1>8, <2>1, InRangeBounds
  <1>9. ASSUME InRange(h, range[to]), GetManifestStorage(F, h) = Source
        PROVE  FALSE
    <2>1. F[i].start <= h
      BY <1>2, <1>3, <1>6, <1>9, InRangeBounds
    <2>2. F[j].end < F[i].start
      BY <1>2, <1>4, <1>5, <1>9
    <2> QED
      BY <1>3, <1>6, <1>7, <2>1, <2>2
  <1> QED
    BY <1>8, <1>9 DEF F, h

\* The list comes: m_to asks for all that will be deleted, and for all that belongs
\* to it.
LEMMA AskOrder ==
  ASSUME Flow, NEW x \in exch["manifestlist"], OnManifestListCommandResponse(x)
  PROVE  FlowInv' /\ (StoreInv => StoreInv')
  <1> DEFINE sel == Selected(to, x.content)
             fs == {Find(to, Source, m) : m \in sel}
             r == Replace("manifestlist", x, {})
  <1>1. /\ x.stage = "data"
        /\ x.src = to /\ x.dst = Source
        /\ from[to] = Source /\ version[to] = version[Manager] /\ Directed
        /\ to \in Node \ {Manager} /\ Source \in Node \ {to}
        /\ exch["add-node"] = {}
    <2>1. x.stage = "data"
      BY DEF OnManifestListCommandResponse, Returning
    <2> QED
      BY <2>1, Mover DEF Moving, Command
  <1>a. StoreInv => x.content = store[Source]
    BY <1>1 DEF StoreInv, AllSound, Sound, Command
  <1>b. x.content \in SUBSET Manifest
    <2>1. x \in [src : Node, dst : Node, stage : Stage, content : SUBSET Manifest]
      BY OrderContext, Exchanges DEF AllFit, Fit, Command
    <2> QED
      BY <2>1
  <1>2. /\ exch' = [r EXCEPT !["find"] = @ \cup fs,
                             !["complete"] = @ \cup {Complete(to)}]
        /\ mlist' = [mlist EXCEPT ![to] = x.content]
        /\ UNCHANGED <<config, version, file, range, from, to, store>>
    BY <1>1 DEF OnManifestListCommandResponse
  <1>3. /\ r = [c \in Command |-> r[c]]
        /\ r["manifestlist"] = exch["manifestlist"] \ {x}
        /\ \A c \in Command \ {"manifestlist"} : r[c] = exch[c]
    <2>1. /\ r = [c \in Command |-> r[c]]
          /\ r["manifestlist"] = (exch["manifestlist"] \ {x}) \cup {}
          /\ \A c \in Command \ {"manifestlist"} : r[c] = exch[c]
      BY OrderContext, ReplaceShape DEF Command
    <2> QED
      BY <2>1
  <1>4. \A c \in Moving \ {"manifestlist"} : exch[c] = {}
    BY <1>1 DEF Flow, FlowInv, ListAlone
  <1>5. \A z \in exch["manifestlist"] \ {x} : z.stage = "late"
    BY <1>1 DEF Flow, FlowInv, ListAlone
  <1>6. mlist'[to] = x.content
    BY <1>1, <1>2, OrderContext DEF NodeTypes
  <1>7. \A z \in fs : /\ z.src = to /\ z.dst = Source /\ z.stage = "interest"
                      /\ z.manifest \in x.content
    BY DEF Find, Selected
  <1>8. \A m \in sel : \E z \in fs : z.manifest = m
    <2> SUFFICES ASSUME NEW m \in sel
                 PROVE  \E z \in fs : z.manifest = m
      OBVIOUS
    <2>1. Find(to, Source, m) \in fs
      OBVIOUS
    <2>2. Find(to, Source, m).manifest = m
      BY DEF Find
    <2> HIDE DEF fs
    <2> QED
      BY <2>1, <2>2
  <1> HIDE DEF r, fs
  <1>9. /\ exch'["manifestlist"] = exch["manifestlist"] \ {x}
        /\ exch'["find"] = fs
        /\ exch'["complete"] = {Complete(to)}
        /\ \A c \in Command \ {"manifestlist", "find", "complete"} : exch'[c] = exch[c]
    <2>1. /\ exch'["find"] = r["find"] \cup fs
          /\ exch'["complete"] = r["complete"] \cup {Complete(to)}
          /\ \A c \in Command \ {"find", "complete"} : exch'[c] = r[c]
      BY <1>2, <1>3 DEF Command
    <2>2. r["find"] = {} /\ r["complete"] = {}
      BY <1>3, <1>4 DEF Moving, Command
    <2> QED
      BY <1>3, <2>1, <2>2 DEF Command
  <1>10. \A c \in Command : \A z \in exch'[c] : Proper(c, z)'
    <2>1. \A c, z : Proper(c, z) => Proper(c, z)'
      BY <1>2, ProperStays
    <2>2. \A z \in fs : Proper("find", z)
      BY <1>1, <1>7 DEF Proper, Moving
    <2>3. Proper("complete", Complete(to))
      BY <1>1 DEF Proper, Moving, Complete
    <2>4. \A c \in Command \ {"find", "complete"} : \A z \in exch'[c] : Proper(c, z)
      BY <1>9, OrderContext DEF AllProper
    <2> QED
      BY <1>9, <2>1, <2>2, <2>3, <2>4
  <1>11. \A n \in Members(file[Manager]) \ {Manager} : Told(n) => Told(n)'
    <2>1. exch'["ver"] = exch["ver"] /\ exch'["fetch"] = exch["fetch"]
      BY <1>9 DEF Command
    <2> QED
      BY <1>2, <2>1, ToldStays
  <1>12. \A m \in sel : Finding(m)'
    BY <1>8, <1>9 DEF Finding
  <1>13. ListAlone' /\ MoveOrder'
    <2>1. Selected(to, mlist[to])' = sel
      BY <1>2, <1>6 DEF Selected
    <2>2. exch'["only-delete-manifest"] = {}
      BY <1>4, <1>9 DEF Moving, Command
    <2> HIDE DEF sel
    <2> QED
      BY <1>5, <1>9, <1>12, <2>1, <2>2 DEF ListAlone, MoveOrder, Coming
  <1>14. RangeKnown' /\ (StoreInv => NothingLost')
    BY <1>2 DEF Flow, FlowInv, EndsOrder, RangeKnown, StoreInv, CopyOrder, NothingLost
  <1>15. StoreInv => \A m \in Manifest : Placed(m) => Placed(m)'
    <2> SUFFICES ASSUME StoreInv, NEW m \in Manifest, Placed(m)
                 PROVE  Placed(m)'
      OBVIOUS
    <2>1. /\ Hash[m] >= Base /\ GetManifestStorage(file[Manager], Hash[m]) = to
          /\ m \in store[Source]
          => Chain(m)'
      BY <1>1, <1>a, <1>12, Selects DEF Selected, Chain
    <2> QED
      BY <1>1, <1>2, <2>1, PlacedStays
  <1>16. exch'["add-node"] = {}
    BY <1>1, <1>9 DEF Command
  <1>17. FlowInv'
    BY <1>1, <1>2, <1>10, <1>11, <1>13, <1>14, <1>16, Onward
  <1>18. StoreInv => AllSound(exch)'
    <2> SUFFICES ASSUME StoreInv
                 PROVE  \A c \in Command : \A z \in exch'[c] : Sound(c, z)'
      BY DEF AllSound
    <2>1. \A c, z : Sound(c, z) => Sound(c, z)'
      BY <1>2, SoundStays
    <2>2. \A z \in fs : Sound("find", z)
      BY <1>a, <1>7 DEF Sound
    <2>3. Sound("complete", Complete(to))
      BY DEF Sound
    <2>4. \A c \in Command \ {"find", "complete"} : \A z \in exch'[c] : Sound(c, z)
      BY <1>9 DEF StoreInv, AllSound
    <2> QED
      BY <1>9, <2>1, <2>2, <2>3, <2>4
  <1> QED
    BY <1>13, <1>14, <1>15, <1>17, <1>18 DEF StoreInv, CopyOrder

\* The source has what it is asked for.
LEMMA FindOrder ==
  ASSUME Flow, NEW x \in exch["find"], HandleFindCommand(x)
  PROVE  FlowInv' /\ (StoreInv => StoreInv')
  <1> DEFINE y == [x EXCEPT !.found = x.manifest \in store[x.dst]]
  <1>1. exch' = Answer("find", x, y) /\ UNCHANGED nodeVars
        /\ x.stage \in {"interest", "late"}
    BY DEF HandleFindCommand, Arriving
  <1>2. StoreInv => Sound("find", x) /\ Awaited("find", x)
    BY <1>1 DEF StoreInv, AllSound, Sound, Command, Awaited, AnswerLogged
  <1>3. /\ exch'["find"] = (exch["find"] \ {x})
             \cup (IF Awaited("find", x) THEN {Answered(y)} ELSE {})
        /\ \A b \in Command \ {"find"} : exch'[b] = exch[b]
    <2> HIDE DEF y
    <2> QED
      BY <1>1, OrderContext, AnswerExact DEF Command
  <1>4. /\ x.src = to /\ x.dst = Source
        /\ from[to] = Source /\ version[to] = version[Manager] /\ Directed
        /\ exch["add-node"] = {} /\ exch'["add-node"] = {}
    BY <1>3, Mover DEF Moving, Command
  <1>5. /\ to' = to /\ from' = from /\ file' = file /\ version' = version
        /\ store' = store /\ range' = range /\ mlist' = mlist
    BY <1>1 DEF nodeVars
  <1>6. /\ Answered(y).src = to /\ Answered(y).dst = Source
        /\ Answered(y).stage = "data" /\ Answered(y).manifest = x.manifest
        /\ StoreInv => Answered(y).found = TRUE
    <2>1. x \in [src : Node, dst : Node, manifest : Manifest, stage : Stage,
                 found : BOOLEAN]
      BY OrderContext, Exchanges DEF AllFit, Fit, Command
    <2>2. StoreInv => (x.manifest \in store[x.dst]) = TRUE
      BY <1>2, <1>4 DEF Sound
    <2>3. PICK b \in BOOLEAN :
            y = [x EXCEPT !.found = b] /\ (StoreInv => b = TRUE)
      <3> DEFINE b == x.manifest \in store[x.dst]
      <3>1. b \in BOOLEAN /\ y = [x EXCEPT !.found = b] /\ (StoreInv => b = TRUE)
        BY <2>2
      <3> QED
        BY <3>1
    <2> HIDE DEF y
    <2> QED
      BY <1>4, <2>1, <2>3 DEF Answered
  <1> HIDE DEF y
  <1>7. \A c \in Command : \A z \in exch'[c] : z \in exch[c] \/ Proper(c, z)
    <2>1. Proper("find", Answered(y))
      BY <1>4, <1>6 DEF Proper, Moving
    <2> QED
      BY <1>3, <2>1
  <1>8. \A n \in Members(file[Manager]) \ {Manager} : Told(n) => Told(n)'
    <2>1. exch'["ver"] = exch["ver"] /\ exch'["fetch"] = exch["fetch"]
      BY <1>3 DEF Command
    <2> QED
      BY <1>5, <2>1, ToldStays
  <1>9. StoreInv => \A m : Finding(m) => Finding(m)'
    BY <1>2, <1>3, <1>6 DEF Finding
  <1>10. ListAlone' /\ (StoreInv => MoveOrder')
    <2>1. StoreInv => \A m : Coming(m) => Coming(m)'
      BY <1>5, <1>9 DEF Coming
    <2>2. Selected(to, mlist[to])' = Selected(to, mlist[to])
      BY <1>5 DEF Selected
    <2>3. \A z \in exch["manifestlist"] : z.stage = "late"
      BY DEF Flow, FlowInv, ListAlone, Moving
    <2>4. \A c \in Moving \ {"find"} : exch'[c] = exch[c]
      BY <1>3 DEF Moving, Command
    <2>5. exch'["manifestlist"] = exch["manifestlist"]
      BY <2>4 DEF Moving
    <2> QED
      BY <2>1, <2>2, <2>3, <2>4, <2>5 DEF ListAlone, StoreInv, MoveOrder, Moving
  <1>11. StoreInv => \A m \in Manifest : Chain(m) => Chain(m)'
    <2>1. \A b \in {"fetch", "coordination", "manifestlist"} : exch'[b] = exch[b]
      BY <1>3 DEF Command
    <2> QED
      BY <1>5, <1>9, <2>1 DEF Chain
  <1>12. FlowInv'
    BY <1>1, <1>4, <1>7, <1>8, <1>10, QuietNodes
  <1>13. StoreInv => AllSound(exch')
    <2> SUFFICES ASSUME StoreInv
                 PROVE  AllSound(exch')
      OBVIOUS
    <2>1. \A c \in Command : \A z \in exch'[c] : z \in exch[c] \/ Sound(c, z)
      BY <1>2, <1>3, <1>6 DEF Sound
    <2> QED
      BY <2>1, SoundExchanges
  <1> QED
    BY <1>1, <1>4, <1>10, <1>11, <1>12, <1>13, QuietDisks

\* A manifest comes to m_to.
LEMMA FoundOrder ==
  ASSUME Flow, NEW x \in exch["find"], x.found, OnManifestCommandResponse(x)
  PROVE  FlowInv' /\ (StoreInv => StoreInv')
  <1>1. x.stage = "data"
    BY DEF OnManifestCommandResponse, Returning
  <1>2. /\ x.src = to /\ x.dst = Source /\ to \in Node /\ Source \in Node \ {to}
        /\ Directed /\ exch["add-node"] = {}
    BY Mover DEF Moving, Command
  <1>3. /\ store' = [store EXCEPT ![to] = @ \cup {x.manifest}]
        /\ exch' = Replace("find", x, {})
        /\ UNCHANGED <<config, version, file, range, from, to, mlist>>
    BY <1>2 DEF OnManifestCommandResponse
  <1>4. /\ exch'["find"] = exch["find"] \ {x}
        /\ \A b \in Command \ {"find"} : exch'[b] = exch[b]
        /\ exch'["add-node"] = {}
    <2>1. /\ exch'["find"] = (exch["find"] \ {x}) \cup {}
          /\ \A b \in Command \ {"find"} : exch'[b] = exch[b]
      BY <1>3, OrderContext, ReplaceExact DEF Command
    <2> QED
      BY <1>2, <2>1 DEF Command
  <1>5. /\ store'[to] = store[to] \cup {x.manifest}
        /\ \A n \in Node : n # to => store'[n] = store[n]
    BY <1>2, <1>3, OrderContext DEF NodeTypes
  <1>6. \A n \in Node : \A m \in Manifest : m \in store[n] => m \in store'[n]
    BY <1>5
  <1>7. \A m : Finding(m) => Finding(m)' \/ m \in store'[to]
    BY <1>4, <1>5 DEF Finding
  <1>8. \A c \in Command : \A z \in exch'[c] : Proper(c, z)'
    <2>1. \A c \in Command : \A z \in exch'[c] : Proper(c, z)
      BY <1>4, OrderContext DEF AllProper
    <2> QED
      BY <1>3, <2>1, ProperStays
  <1>9. \A n \in Members(file[Manager]) \ {Manager} : Told(n) => Told(n)'
    <2>1. exch'["ver"] = exch["ver"] /\ exch'["fetch"] = exch["fetch"]
      BY <1>4 DEF Command
    <2> QED
      BY <1>3, <2>1, ToldStays
  <1>10. ListAlone' /\ (StoreInv => MoveOrder')
    <2>1. \A m : Coming(m) => Coming(m)'
      BY <1>3, <1>5, <1>7 DEF Coming
    <2>2. Selected(to, mlist[to])' = Selected(to, mlist[to])
      BY <1>3 DEF Selected
    <2>3. \A z \in exch["manifestlist"] : z.stage = "late"
      BY DEF Flow, FlowInv, ListAlone, Moving
    <2>4. \A c \in Moving \ {"find"} : exch'[c] = exch[c]
      BY <1>4 DEF Moving, Command
    <2>5. exch'["manifestlist"] = exch["manifestlist"]
      BY <2>4 DEF Moving
    <2> QED
      BY <2>1, <2>2, <2>3, <2>4, <2>5 DEF ListAlone, StoreInv, MoveOrder, Moving
  <1>11. RangeKnown'
    BY <1>3 DEF Flow, FlowInv, EndsOrder, RangeKnown
  <1>12. StoreInv => NothingLost'
    BY <1>6 DEF StoreInv, CopyOrder, NothingLost
  <1>13. \A m \in Manifest : Placed(m) => Placed(m)'
    <2>1. \A m \in Manifest : Chain(m) => m \in store'[to] \/ Chain(m)'
      <3>1. \A b \in {"fetch", "coordination", "manifestlist"} : exch'[b] = exch[b]
        BY <1>4 DEF Command
      <3> QED
        BY <1>3, <1>7, <3>1 DEF Chain
    <2> QED
      BY <1>2, <1>3, <1>6, <2>1, PlacedStays
  <1>14. FlowInv'
    BY <1>2, <1>3, <1>4, <1>8, <1>9, <1>10, <1>11, Onward
  <1>15. StoreInv => AllSound(exch)'
    <2>1. \A c \in Command : exch'[c] \subseteq exch[c]
      BY <1>4
    <2>2. store'[Source] = store[Source]
      BY <1>2, <1>5
    <2>3. \A c, z : Sound(c, z) => Sound(c, z)'
      BY <1>3, <2>2, SoundStays
    <2> QED
      BY <2>1, <2>3 DEF StoreInv, AllSound
  <1> QED
    BY <1>10, <1>12, <1>13, <1>14, <1>15 DEF StoreInv, CopyOrder

\* All that m_to has deleted is there or coming, and is not the source's to keep.
LEMMA CompleteOrder ==
  ASSUME Flow, NEW x \in exch["complete"], OnCompleteCommandResponse(x)
  PROVE  FlowInv' /\ (StoreInv => StoreInv')
  <1> DEFINE sel == Selected(to, mlist[to])
             ds == {DeleteManifest(to, Source, m) : m \in sel}
             r == Replace("complete", x, {})
  <1>1. /\ x.src = to /\ from[to] = Source /\ version[to] = version[Manager]
        /\ to \in Node \ {Manager} /\ Source \in Node \ {to} /\ Directed
        /\ exch["add-node"] = {}
    BY Mover DEF Moving, Command
  <1>2. /\ exch' = [r EXCEPT !["only-delete-manifest"] = @ \cup ds]
        /\ UNCHANGED nodeVars
    BY <1>1 DEF OnCompleteCommandResponse
  <1>3. /\ r = [c \in Command |-> r[c]]
        /\ r["complete"] = exch["complete"] \ {x}
        /\ \A c \in Command \ {"complete"} : r[c] = exch[c]
    <2>1. /\ r = [c \in Command |-> r[c]]
          /\ r["complete"] = (exch["complete"] \ {x}) \cup {}
          /\ \A c \in Command \ {"complete"} : r[c] = exch[c]
      BY OrderContext, ReplaceShape DEF Command
    <2> QED
      BY <2>1
  <1>4. /\ to' = to /\ from' = from /\ file' = file /\ version' = version
        /\ store' = store /\ range' = range /\ mlist' = mlist
    BY <1>2 DEF nodeVars
  <1>5. sel \subseteq Manifest
    BY <1>1, OrderContext DEF NodeTypes, Selected
  <1>6. /\ \A m \in sel : GetManifestStorage(file[Manager], Hash[m]) # Source
        /\ StoreInv => \A m \in sel : Coming(m)
    <2>1. StoreInv => \A m \in sel : Coming(m)
      BY DEF StoreInv, MoveOrder
    <2>2. \A m \in sel : InRange(Hash[m], range[to])
      BY DEF Selected
    <2> QED
      BY <1>1, <1>5, <2>1, <2>2, Selects
  <1>7. \A z \in ds : /\ z.src = to /\ z.dst = Source /\ z.stage = "interest"
                      /\ z.manifest \in sel
    BY DEF DeleteManifest
  <1> HIDE DEF r, ds, sel
  <1>8. /\ exch'["complete"] = exch["complete"] \ {x}
        /\ exch'["only-delete-manifest"] = exch["only-delete-manifest"] \cup ds
        /\ \A c \in Command \ {"complete", "only-delete-manifest"} : exch'[c] = exch[c]
        /\ exch'["add-node"] = {}
    <2>1. /\ exch'["only-delete-manifest"] = r["only-delete-manifest"] \cup ds
          /\ \A c \in Command \ {"only-delete-manifest"} : exch'[c] = r[c]
      BY <1>2, <1>3 DEF Command
    <2> QED
      BY <1>1, <1>3, <2>1 DEF Command
  <1>9. \A c \in Command : \A z \in exch'[c] : z \in exch[c] \/ Proper(c, z)
    <2>1. \A z \in ds : Proper("only-delete-manifest", z)
      BY <1>1, <1>6, <1>7 DEF Proper, Moving
    <2> QED
      BY <1>8, <2>1
  <1>10. \A n \in Members(file[Manager]) \ {Manager} : Told(n) => Told(n)'
    <2>1. exch'["ver"] = exch["ver"] /\ exch'["fetch"] = exch["fetch"]
      BY <1>8 DEF Command
    <2> QED
      BY <1>4, <2>1, ToldStays
  <1>11. ListAlone' /\ (StoreInv => MoveOrder')
    <2>1. \A m : Coming(m) => Coming(m)'
      BY <1>4, <1>8 DEF Coming, Finding, Command
    <2>2. Selected(to, mlist[to])' = Selected(to, mlist[to])
      BY <1>4 DEF Selected
    <2>3. \A z \in exch["manifestlist"] : z.stage = "late"
      BY DEF Flow, FlowInv, ListAlone, Moving
    <2>4. exch'["manifestlist"] = exch["manifestlist"]
      BY <1>8 DEF Command
    <2> QED
      BY <1>6, <1>7, <1>8, <2>1, <2>2, <2>3, <2>4 DEF ListAlone, StoreInv, MoveOrder
  <1>12. \A m \in Manifest : Chain(m) => Chain(m)'
    BY <1>4, <1>8 DEF Chain, Finding, Command
  <1>13. FlowInv'
    BY <1>1, <1>2, <1>8, <1>9, <1>10, <1>11, QuietNodes
  <1>14. StoreInv => AllSound(exch')
    <2>1. \A c \in Command : \A z \in exch'[c] : z \in exch[c] \/ Sound(c, z)
      BY <1>8 DEF Sound
    <2> QED
      BY <2>1, SoundExchanges
  <1> QED
    BY <1>1, <1>2, <1>11, <1>12, <1>13, <1>14, QuietDisks

\* A delete at the source, once m_to has the manifest.
LEMMA DeleteOrder ==
  ASSUME Flow, Orderly, NEW x \in exch["only-delete-manifest"],
         HandleOnlyDeleteManifestCommand(x)
  PROVE  FlowInv' /\ (StoreInv => StoreInv')
  <1>1. /\ x.src = to /\ x.dst = Source
        /\ from[to] = Source /\ version[to] = version[Manager]
        /\ to \in Node \ {Manager} /\ Source \in Node \ {to} /\ Directed
        /\ exch["add-node"] = {}
    BY Mover DEF Moving, Command
  <1>2. /\ \A y \in exch["find"] : ~(y.src = to /\ y.manifest = x.manifest)
        /\ store' = [store EXCEPT ![Source] = @ \ {x.manifest}]
        /\ exch' = Answer("only-delete-manifest", x, x)
        /\ UNCHANGED <<config, version, file, range, from, to, mlist>>
    BY <1>1 DEF HandleOnlyDeleteManifestCommand
  <1>3. /\ exch'["only-delete-manifest"] \subseteq
             (exch["only-delete-manifest"] \ {x}) \cup {Answered(x)}
        /\ \A b \in Command \ {"only-delete-manifest"} : exch'[b] = exch[b]
        /\ exch'["add-node"] = {}
    <2>1. /\ exch'["only-delete-manifest"] = (exch["only-delete-manifest"] \ {x})
               \cup (IF Awaited("only-delete-manifest", x) THEN {Answered(x)} ELSE {})
          /\ \A b \in Command \ {"only-delete-manifest"} : exch'[b] = exch[b]
      BY <1>2, OrderContext, AnswerExact DEF Command
    <2> QED
      BY <1>1, <2>1 DEF Command
  <1>4. /\ Answered(x).src = x.src /\ Answered(x).dst = x.dst
        /\ Answered(x).manifest = x.manifest
    BY OrderContext, StageFields DEF Answered
  <1>5. \A y \in exch["find"] : y.manifest # x.manifest
    <2>1. \A y \in exch["find"] : y.src = to
      BY Mover DEF Moving, Command
    <2> QED
      BY <1>2, <2>1
  <1>6. StoreInv => x.manifest \in store[to]
    BY <1>5 DEF StoreInv, MoveOrder, Coming, Finding
  <1>7. /\ store'[Source] = store[Source] \ {x.manifest}
        /\ \A n \in Node : n # Source => store'[n] = store[n]
        /\ store'[to] = store[to]
    BY <1>1, <1>2, OrderContext DEF NodeTypes
  <1>8. \A z \in exch["manifestlist"] : z.stage = "late"
    BY DEF Flow, FlowInv, ListAlone, Moving
  <1>9. \A c \in Command : \A z \in exch'[c] : Proper(c, z)'
    <2>1. Proper("only-delete-manifest", x)
      BY OrderContext DEF AllProper, Command
    <2>2. Proper("only-delete-manifest", Answered(x))
      BY <1>4, <2>1 DEF Proper, Moving
    <2>3. \A c \in Command : \A z \in exch'[c] : Proper(c, z)
      BY <1>3, <2>2, OrderContext DEF AllProper
    <2> QED
      BY <1>2, <2>3, ProperStays
  <1>10. \A n \in Members(file[Manager]) \ {Manager} : Told(n) => Told(n)'
    <2>1. exch'["ver"] = exch["ver"] /\ exch'["fetch"] = exch["fetch"]
      BY <1>3 DEF Command
    <2> QED
      BY <1>2, <2>1, ToldStays
  <1>11. ListAlone' /\ (StoreInv => MoveOrder')
    <2>1. \A m : Coming(m) => Coming(m)'
      BY <1>2, <1>3, <1>7 DEF Coming, Finding, Command
    <2>2. Selected(to, mlist[to])' = Selected(to, mlist[to])
      BY <1>2 DEF Selected
    <2>3. /\ exch'["manifestlist"] = exch["manifestlist"]
          /\ exch'["complete"] = exch["complete"]
      BY <1>3 DEF Command
    <2>4. StoreInv => \A z \in exch'["only-delete-manifest"] : Coming(z.manifest)
      BY <1>3, <1>4 DEF StoreInv, MoveOrder
    <2> QED
      BY <1>8, <2>1, <2>2, <2>3, <2>4 DEF ListAlone, StoreInv, MoveOrder
  <1>12. RangeKnown'
    BY <1>2 DEF Flow, FlowInv, EndsOrder, RangeKnown
  <1>13. StoreInv => NothingLost'
    <2> SUFFICES ASSUME StoreInv, NEW m \in Manifest
                 PROVE  \E n \in Node : m \in store'[n]
      BY DEF NothingLost
    <2>1. PICK n \in Node : m \in store[n]
      BY DEF StoreInv, CopyOrder, NothingLost
    <2> QED
      BY <1>1, <1>6, <1>7, <2>1
  <1>14. StoreInv => \A m \in Manifest : Placed(m) => Placed(m)'
    <2> SUFFICES ASSUME StoreInv, NEW m \in Manifest, Placed(m)
                 PROVE  Placed(m)'
      OBVIOUS
    <2> DEFINE o == GetManifestStorage(file[Manager], Hash[m])
    <2>1. m = x.manifest => o # Source
      BY OrderContext DEF AllProper, Proper, Command
    <2>2. o \in Node
      <3>1. Hash[m] \in Key
        BY OrderContext
      <3> QED
        BY <3>1, OrderContext, SomeEntry, NoneNegative
    <2>3. Chain(m) => Chain(m)'
      BY <1>2, <1>3 DEF Chain, Finding, Command
    <2>4. Hash[m] >= Base => m \in store[o] \/ (o = to /\ m \in store[Source] /\ Chain(m))
      BY DEF Placed
    <2>5. o' = o /\ to' = to /\ Source' = Source
      BY <1>2 DEF Source
    <2> HIDE DEF o
    <2>6. Hash[m] >= Base => m \in store'[o] \/ (o = to /\ m \in store'[Source] /\ Chain(m)')
      BY <1>1, <1>6, <1>7, <2>1, <2>2, <2>3, <2>4
    <2> QED
      BY <2>5, <2>6 DEF Placed, o
  <1>15. FlowInv'
    BY <1>1, <1>2, <1>3, <1>9, <1>10, <1>11, <1>12, Onward
  <1>16. StoreInv => AllSound(exch)'
    <2> SUFFICES ASSUME StoreInv, NEW c \in Command, NEW z \in exch'[c]
                 PROVE  Sound(c, z)'
      BY DEF AllSound
    <2>1. CASE c = "manifestlist"
      BY <1>3, <1>8, <2>1 DEF Sound, Command
    <2>2. CASE c = "find"
      <3>1. Sound(c, z) /\ z.manifest # x.manifest
        BY <1>3, <1>5, <2>2 DEF StoreInv, AllSound, Command
      <3> QED
        BY <1>2, <1>7, <2>2, <3>1 DEF Sound, Source
    <2>3. CASE c \notin {"manifestlist", "find"}
      BY <2>3 DEF Sound
    <2> QED
      BY <2>1, <2>2, <2>3
  <1> QED
    BY <1>11, <1>13, <1>14, <1>15, <1>16 DEF StoreInv, CopyOrder

-----------------------------------------------------------------------------
(* Ignored answers and timeouts.                                           *)

\* An ignored answer.
LEMMA IgnoreOrder ==
  ASSUME Flow, NEW c \in {"ver", "coordination", "only-delete-manifest"},
         NEW x \in exch[c], IgnoreResponse(c, x)
  PROVE  FlowInv' /\ (StoreInv => StoreInv')
  <1>1. /\ x.stage = "data" /\ exch' = Replace(c, x, {}) /\ UNCHANGED nodeVars
        /\ c \in Command \ {"add-node"}
    BY DEF IgnoreResponse, Returning, Command
  <1>2. /\ exch'[c] = exch[c] \ {x}
        /\ \A b \in Command \ {c} : exch'[b] = exch[b]
    <2>1. /\ exch'[c] = (exch[c] \ {x}) \cup {}
          /\ \A b \in Command \ {c} : exch'[b] = exch[b]
      BY <1>1, OrderContext, ReplaceExact
    <2> QED
      BY <2>1
  <1>3. Directed /\ exch["add-node"] = {} /\ exch'["add-node"] = {}
    BY <1>1, <1>2, UnderWay DEF Command
  <1>4. /\ to' = to /\ version' = version /\ store' = store /\ range' = range
        /\ mlist' = mlist
    BY <1>1 DEF nodeVars
  <1>5. \A d \in Command : \A z \in exch'[d] : z \in exch[d]
    BY <1>2
  <1>6. \A d \in Command : \A z \in exch[d] : z.stage # "data" => z \in exch'[d]
    BY <1>1, <1>2
  <1>7. \A d \in Command \ {"ver", "coordination", "only-delete-manifest"} :
          exch'[d] = exch[d]
    BY <1>2
  <1>8. \A n \in Members(file[Manager]) \ {Manager} : Told(n) => Told(n)'
    <2>1. exch'["fetch"] = exch["fetch"]
      BY <1>7 DEF Command
    <2>2. \A z \in exch["ver"] : z.stage = "interest" => z \in exch'["ver"]
      BY <1>6 DEF Command
    <2> QED
      BY <1>4, <2>1, <2>2 DEF Told, Learning
  <1>9. ListAlone' /\ (StoreInv => MoveOrder')
    <2>1. \A m : Coming(m) => Coming(m)'
      BY <1>4, <1>7 DEF Coming, Finding, Command
    <2>2. Selected(to, mlist[to])' = Selected(to, mlist[to])
      BY <1>4 DEF Selected
    <2>3. \A b \in {"manifestlist", "find", "complete"} : exch'[b] = exch[b]
      BY <1>7 DEF Command
    <2>4. exch'["only-delete-manifest"] \subseteq exch["only-delete-manifest"]
      BY <1>5 DEF Command
    <2>5. \A b \in Moving : exch[b] = {} => exch'[b] = {}
      BY <2>3, <2>4 DEF Moving
    <2> QED
      BY <2>1, <2>2, <2>3, <2>4, <2>5 DEF Flow, FlowInv, ListAlone, StoreInv, MoveOrder, Moving
  <1>10. \A m \in Manifest : Chain(m) => Chain(m)'
    <2>1. \A b \in {"fetch", "manifestlist", "find"} : exch'[b] = exch[b]
      BY <1>7 DEF Command
    <2>2. \A z \in exch["coordination"] : z.stage = "interest" => z \in exch'["coordination"]
      BY <1>6 DEF Command
    <2> QED
      BY <1>4, <2>1, <2>2 DEF Chain, Finding
  <1>11. FlowInv'
    BY <1>1, <1>3, <1>5, <1>8, <1>9, QuietNodes
  <1>12. StoreInv => AllSound(exch')
    BY <1>5, SoundExchanges
  <1> QED
    BY <1>1, <1>3, <1>9, <1>10, <1>11, <1>12, QuietDisks

\* The add of a node times out at the node, and is lost at the manager.
LEMMA AddTimeoutOrder ==
  ASSUME Flow, NEW x \in exch["add-node"], OnAddCommandTimeout(x)
  PROVE  FlowInv' /\ (StoreInv => StoreInv')
  <1>1. exch' = Replace("add-node", x, {}) /\ UNCHANGED nodeVars
    BY DEF OnAddCommandTimeout
  <1>2. exch["add-node"] = {x} /\ Still
    BY DEF Flow, FlowInv, RingOrder
  <1>3. /\ exch'["add-node"] = {}
        /\ \A b \in Command \ {"add-node"} : exch'[b] = exch[b]
    <2>1. /\ exch'["add-node"] = (exch["add-node"] \ {x}) \cup {}
          /\ \A b \in Command \ {"add-node"} : exch'[b] = exch[b]
      BY <1>1, OrderContext, ReplaceExact DEF Command
    <2> QED
      BY <1>2, <2>1
  <1>4. /\ to' = to /\ from' = from /\ file' = file /\ version' = version
        /\ store' = store /\ range' = range /\ mlist' = mlist
    BY <1>1 DEF nodeVars
  <1>5. Still'
    BY <1>2, <1>3 DEF Still
  <1>6. RingOrder'
    BY <1>3, <1>4 DEF Flow, FlowInv, RingOrder
  <1>7. AllProper(exch)'
    <2>1. \A c \in Command : exch'[c] = {}
      BY <1>3, <1>5 DEF Still
    <2> QED
      BY <2>1 DEF AllProper
  <1>8. \A b \in {"ver", "fetch", "coordination", "manifestlist", "find", "complete",
                  "only-delete-manifest"} : exch'[b] = exch[b]
    BY <1>3 DEF Command
  <1>9. AllTold'
    BY <1>4, <1>8 DEF Flow, FlowInv, EndsOrder, AllTold, Told, Learning
  <1>10. EndsOrder'
    <2>1. (Idle \/ Directed)'
      BY <1>4, <1>5 DEF Flow, FlowInv, EndsOrder, Idle, Directed, Source
    <2>2. RangeKnown' /\ SourceBelow'
      BY <1>4 DEF Flow, FlowInv, EndsOrder, RangeKnown, SourceBelow, Source
    <2> QED
      BY <1>9, <2>1, <2>2 DEF EndsOrder
  <1>11. ListAlone' /\ MoveOrder'
    <2>1. /\ exch'["manifestlist"] = {} /\ exch'["complete"] = {}
          /\ exch'["only-delete-manifest"] = {}
      BY <1>5 DEF Still, Command
    <2> QED
      BY <2>1 DEF ListAlone, MoveOrder
  <1>12. StoreInv => CopyOrder'
    <2>1. \A m : Chain(m)' <=> Chain(m)
      BY <1>4, <1>8 DEF Chain, Finding
    <2> QED
      BY <1>4, <2>1 DEF StoreInv, CopyOrder, NothingLost, Placed, Source
  <1>13. AllSound(exch)'
    <2>1. \A c \in Command : exch'[c] = {}
      BY <1>3, <1>5 DEF Still
    <2> QED
      BY <2>1 DEF AllSound
  <1> QED
    BY <1>6, <1>7, <1>10, <1>11, <1>12, <1>13 DEF FlowInv, StoreInv

\* An exchange whose requester has given up, and which is late.
Delayed(x) == [x EXCEPT !.stage = "late"]

\* An exchange that is late is as proper as it was.
LEMMA LateProper ==
  ASSUME AllFit(exch), NEW c \in Staged, NEW x \in exch[c], Proper(c, x)
  PROVE  /\ Proper(c, Delayed(x)) /\ Delayed(x).stage = "late"
         /\ c # "find" => Sound(c, Delayed(x))
  <1>1. CASE c = "ver"
    BY <1>1, StageFields DEF Proper, Sound, Delayed, Moving
  <1>2. CASE c = "fetch"
    BY <1>2, StageFields DEF Proper, Sound, Delayed, Moving
  <1>3. CASE c = "coordination"
    BY <1>3, StageFields DEF Proper, Sound, Delayed, Moving
  <1>4. CASE c = "manifestlist"
    BY <1>4, StageFields DEF Proper, Sound, Delayed, Moving
  <1>6. CASE c = "find"
    BY <1>6, StageFields DEF Proper, Delayed, Moving
  <1>5. CASE c = "only-delete-manifest"
    BY <1>5, StageFields DEF Proper, Sound, Delayed, Moving
  <1> QED
    BY <1>1, <1>2, <1>3, <1>4, <1>5, <1>6 DEF Staged, Command

\* What giving up does, in terms of the invariant.
LEMMA GiveUpOrder ==
  ASSUME Flow, NEW c \in Staged \ {"find"}, NEW x, NEW xs, GiveUp(c, x, xs)
  PROVE  /\ x \in exch[c] /\ Proper(c, x) /\ x.stage # "late"
         /\ Proper(c, Delayed(x)) /\ Delayed(x).stage = "late" /\ Sound(c, Delayed(x))
         /\ exch'[c] \subseteq (exch[c] \ {x}) \cup xs \cup {Delayed(x)}
         /\ (exch[c] \ {x}) \cup xs \subseteq exch'[c]
         /\ \A d \in Command \ {c} : exch'[d] = exch[d]
         /\ to' = to /\ from' = from /\ file' = file /\ version' = version
         /\ store' = store /\ range' = range /\ mlist' = mlist
         /\ Directed /\ to \in Node /\ exch["add-node"] = {} /\ exch'["add-node"] = {}
  <1>0. c \in Command \ {"add-node"} /\ c \in Command /\ ExchInv
    BY OrderContext DEF Staged
  <1>1. /\ x \in exch[c] /\ x.stage # "late"
        /\ \/ exch'[c] = (exch[c] \ {x}) \cup xs
           \/ exch'[c] = (exch[c] \ {x}) \cup (xs \cup {[x EXCEPT !.stage = "late"]})
        /\ \A d \in Command \ {c} : exch'[d] = exch[d]
        /\ UNCHANGED nodeVars
    BY <1>0, GiveUpExact
  <1>2. /\ exch'[c] \subseteq (exch[c] \ {x}) \cup xs \cup {Delayed(x)}
        /\ (exch[c] \ {x}) \cup xs \subseteq exch'[c]
    BY <1>1 DEF Delayed
  <1>3. Proper(c, x)
    BY <1>0, <1>1, OrderContext DEF AllProper
  <1>4. Proper(c, Delayed(x)) /\ Delayed(x).stage = "late" /\ Sound(c, Delayed(x))
    BY <1>1, <1>3, OrderContext, LateProper
  <1>5. Directed /\ to \in Node /\ exch["add-node"] = {}
    BY <1>0, <1>1, UnderWay
  <1>6. exch'["add-node"] = {}
    BY <1>0, <1>1, <1>5 DEF Command
  <1>7. /\ to' = to /\ from' = from /\ file' = file /\ version' = version
        /\ store' = store /\ range' = range /\ mlist' = mlist
    BY <1>1 DEF nodeVars
  <1> QED
    BY <1>1, <1>2, <1>3, <1>4, <1>5, <1>6, <1>7

\* The members are told again.
LEMMA VersionTimeoutOrder ==
  ASSUME Flow, NEW x \in exch["ver"], OnVersionCommandTimeout(x)
  PROVE  FlowInv' /\ (StoreInv => StoreInv')
  <1> DEFINE F == file[Manager]
             xs == VersionCommands(F, version[Manager])
  <1>1. GiveUp("ver", x, xs) /\ UNCHANGED nodeVars
    BY DEF OnVersionCommandTimeout, GiveUp
  <1>2. \A y \in xs : y.stage = "interest" /\ y.version = version[Manager]
    BY DEF VersionCommands, Ver
  <1>3. \A n \in Members(F) \ {Manager} : \E y \in xs : y.dst = n /\ y.stage = "interest"
    <2> SUFFICES ASSUME NEW n \in Members(F) \ {Manager}
                 PROVE  \E y \in xs : y.dst = n /\ y.stage = "interest"
      OBVIOUS
    <2>1. PICK i \in DOMAIN F : F[i].node = n
      BY DEF Members
    <2>2. i \in 2 .. Len(F)
      <3>1. DOMAIN F = 1 .. Len(F) /\ Len(F) \in Nat
        BY OrderContext DEF File
      <3>2. F[1].node = Manager
        BY DEF Flow, IInv, RingInv
      <3> QED
        BY <2>1, <3>1, <3>2
    <2>3. Ver(F[i].node, version[Manager]) \in xs
      BY <2>2 DEF VersionCommands
    <2>4. /\ Ver(F[i].node, version[Manager]).dst = n
          /\ Ver(F[i].node, version[Manager]).stage = "interest"
      BY <2>1 DEF Ver
    <2> HIDE DEF xs
    <2> QED
      BY <2>3, <2>4
  <1> HIDE DEF xs, F
  <1>4. /\ Proper("ver", Delayed(x))
        /\ exch'["ver"] \subseteq (exch["ver"] \ {x}) \cup xs \cup {Delayed(x)}
        /\ (exch["ver"] \ {x}) \cup xs \subseteq exch'["ver"]
        /\ \A d \in Command \ {"ver"} : exch'[d] = exch[d]
        /\ to' = to /\ from' = from /\ file' = file /\ version' = version
        /\ store' = store /\ range' = range /\ mlist' = mlist
        /\ Directed /\ exch["add-node"] = {} /\ exch'["add-node"] = {}
    BY <1>1, GiveUpOrder DEF Staged, Command
  <1>5. \A c \in Command : \A z \in exch'[c] : z \in exch[c] \/ Proper(c, z)
    <2>1. \A y \in xs : Proper("ver", y)
      BY <1>2 DEF Proper, Moving
    <2> QED
      BY <1>4, <2>1
  <1>6. \A n \in Members(file[Manager]) \ {Manager} : Told(n) => Told(n)'
    BY <1>3, <1>4 DEF Told, Learning, F
  <1>7. ListAlone' /\ (StoreInv => MoveOrder')
    BY <1>4, MoveStays DEF Moving, Command
  <1>8. \A m \in Manifest : Chain(m) => Chain(m)'
    BY <1>4 DEF Chain, Finding, Command
  <1>9. FlowInv'
    BY <1>1, <1>4, <1>5, <1>6, <1>7, QuietNodes
  <1>10. StoreInv => AllSound(exch')
    <2>1. \A c \in Command : \A z \in exch'[c] : z \in exch[c] \/ Sound(c, z)
      BY <1>4 DEF Sound
    <2> QED
      BY <2>1, SoundExchanges
  <1> QED
    BY <1>1, <1>4, <1>7, <1>8, <1>9, <1>10, QuietDisks

\* The ring is asked for again.
LEMMA FetchTimeoutOrder ==
  ASSUME Flow, NEW x \in exch["fetch"], OnFetchCommandTimeout(x)
  PROVE  FlowInv' /\ (StoreInv => StoreInv')
  <1> DEFINE y == Fetch(x.src, x.version)
  <1>1. GiveUp("fetch", x, {y}) /\ UNCHANGED nodeVars
    BY DEF OnFetchCommandTimeout, GiveUp
  <1>2. y.src = x.src /\ y.version = x.version /\ y.stage = "interest"
    BY DEF Fetch
  <1> HIDE DEF y
  <1>3. /\ Proper("fetch", x) /\ Proper("fetch", Delayed(x)) /\ Delayed(x).stage = "late"
        /\ exch'["fetch"] \subseteq (exch["fetch"] \ {x}) \cup {y} \cup {Delayed(x)}
        /\ (exch["fetch"] \ {x}) \cup {y} \subseteq exch'["fetch"]
        /\ \A d \in Command \ {"fetch"} : exch'[d] = exch[d]
        /\ to' = to /\ from' = from /\ file' = file /\ version' = version
        /\ store' = store /\ range' = range /\ mlist' = mlist
        /\ Directed /\ exch["add-node"] = {} /\ exch'["add-node"] = {}
    BY <1>1, GiveUpOrder DEF Staged, Command
  <1>4. \A c \in Command : \A z \in exch'[c] : z \in exch[c] \/ Proper(c, z)
    <2>1. Proper("fetch", y)
      BY <1>2, <1>3 DEF Proper, Moving
    <2> QED
      BY <1>3, <2>1
  <1>5. \A n \in Members(file[Manager]) \ {Manager} : Told(n) => Told(n)'
    <2>1. exch'["ver"] = exch["ver"]
      BY <1>3 DEF Command
    <2> QED
      BY <1>2, <1>3, <2>1 DEF Told, Learning
  <1>6. ListAlone' /\ (StoreInv => MoveOrder')
    BY <1>3, MoveStays DEF Moving, Command
  <1>7. \A m \in Manifest : Chain(m) => Chain(m)'
    <2>1. \A b \in {"coordination", "manifestlist", "find"} : exch'[b] = exch[b]
      BY <1>3 DEF Command
    <2>2. (\A z \in exch["fetch"] : z.src = to => z.stage # "data")
            => \A z \in exch'["fetch"] : z.src = to => z.stage # "data"
      BY <1>2, <1>3
    <2> QED
      BY <1>3, <2>1, <2>2 DEF Chain, Finding
  <1>8. FlowInv'
    BY <1>1, <1>3, <1>4, <1>5, <1>6, QuietNodes
  <1>9. StoreInv => AllSound(exch')
    <2>1. \A c \in Command : \A z \in exch'[c] : z \in exch[c] \/ Sound(c, z)
      BY <1>3 DEF Sound
    <2> QED
      BY <2>1, SoundExchanges
  <1> QED
    BY <1>1, <1>3, <1>6, <1>7, <1>8, <1>9, QuietDisks

\* m_to is coordinated again.
LEMMA CoordinationTimeoutOrder ==
  ASSUME Flow, NEW x \in exch["coordination"], OnCoordinationCommandTimeout(x)
  PROVE  FlowInv' /\ (StoreInv => StoreInv')
  <1> DEFINE y == Coordination(to, from[Manager])
  <1>1. GiveUp("coordination", x, {y}) /\ UNCHANGED nodeVars
    BY DEF OnCoordinationCommandTimeout, GiveUp
  <1>2. y.dst = to /\ y.from = Source /\ y.stage = "interest"
    BY DEF Coordination, Source
  <1> HIDE DEF y
  <1>3. /\ Proper("coordination", Delayed(x))
        /\ exch'["coordination"] \subseteq (exch["coordination"] \ {x}) \cup {y} \cup {Delayed(x)}
        /\ (exch["coordination"] \ {x}) \cup {y} \subseteq exch'["coordination"]
        /\ \A d \in Command \ {"coordination"} : exch'[d] = exch[d]
        /\ to' = to /\ from' = from /\ file' = file /\ version' = version
        /\ store' = store /\ range' = range /\ mlist' = mlist
        /\ Directed /\ exch["add-node"] = {} /\ exch'["add-node"] = {}
    BY <1>1, GiveUpOrder DEF Staged, Command
  <1>4. \A c \in Command : \A z \in exch'[c] : z \in exch[c] \/ Proper(c, z)
    <2>1. Proper("coordination", y)
      BY <1>2, <1>3 DEF Proper, Moving
    <2> QED
      BY <1>3, <2>1
  <1>5. \A n \in Members(file[Manager]) \ {Manager} : Told(n) => Told(n)'
    <2>1. exch'["ver"] = exch["ver"] /\ exch'["fetch"] = exch["fetch"]
      BY <1>3 DEF Command
    <2> QED
      BY <1>3, <2>1, ToldStays
  <1>6. ListAlone' /\ (StoreInv => MoveOrder')
    BY <1>3, MoveStays DEF Moving, Command
  <1>7. \A m \in Manifest : Chain(m)'
    BY <1>2, <1>3 DEF Chain
  <1>8. FlowInv'
    BY <1>1, <1>3, <1>4, <1>5, <1>6, QuietNodes
  <1>9. StoreInv => AllSound(exch')
    <2>1. \A c \in Command : \A z \in exch'[c] : z \in exch[c] \/ Sound(c, z)
      BY <1>3 DEF Sound
    <2> QED
      BY <2>1, SoundExchanges
  <1> QED
    BY <1>1, <1>3, <1>6, <1>7, <1>8, <1>9, QuietDisks

\* The list is asked for again, instead of the one that was awaited.
LEMMA ListTimeoutOrder ==
  ASSUME Flow, NEW x \in exch["manifestlist"], OnManifestListCommandTimeout(x)
  PROVE  FlowInv' /\ (StoreInv => StoreInv')
  <1> DEFINE y == ManifestListOf(x.src, from[x.src])
  <1>1. GiveUp("manifestlist", x, {y}) /\ UNCHANGED nodeVars
    BY DEF OnManifestListCommandTimeout, GiveUp
  <1>2. /\ x.src = to /\ from[to] = Source /\ version[to] = version[Manager]
    BY Mover DEF Moving, Command
  <1>3. y.src = to /\ y.dst = Source /\ y.stage = "interest"
    BY <1>2 DEF ManifestListOf
  <1> HIDE DEF y
  <1>4. /\ Proper("manifestlist", Delayed(x)) /\ Delayed(x).stage = "late" /\ x.stage # "late"
        /\ exch'["manifestlist"] \subseteq (exch["manifestlist"] \ {x}) \cup {y} \cup {Delayed(x)}
        /\ (exch["manifestlist"] \ {x}) \cup {y} \subseteq exch'["manifestlist"]
        /\ \A d \in Command \ {"manifestlist"} : exch'[d] = exch[d]
        /\ to' = to /\ from' = from /\ file' = file /\ version' = version
        /\ store' = store /\ range' = range /\ mlist' = mlist
        /\ Directed /\ exch["add-node"] = {} /\ exch'["add-node"] = {}
    BY <1>1, GiveUpOrder DEF Staged, Command
  <1>5. \A c \in Command : \A z \in exch'[c] : z \in exch[c] \/ Proper(c, z)
    <2>1. Proper("manifestlist", y)
      BY <1>2, <1>3 DEF Proper, Moving
    <2> QED
      BY <1>4, <2>1
  <1>6. \A n \in Members(file[Manager]) \ {Manager} : Told(n) => Told(n)'
    <2>1. exch'["ver"] = exch["ver"] /\ exch'["fetch"] = exch["fetch"]
      BY <1>4 DEF Command
    <2> QED
      BY <1>4, <2>1, ToldStays
  <1>7. ListAlone' /\ MoveOrder'
    <2>1. /\ \A w \in exch["manifestlist"] : w.stage # "late" => w = x
          /\ \A c \in Moving \ {"manifestlist"} : exch[c] = {}
      BY <1>4 DEF Flow, FlowInv, ListAlone
    <2>2. \A w \in exch'["manifestlist"] : w.stage # "late" => w = y
      BY <1>4, <2>1
    <2>3. \A c \in Moving \ {"manifestlist"} : exch'[c] = {}
      BY <1>4, <2>1 DEF Moving, Command
    <2> QED
      BY <2>2, <2>3 DEF ListAlone, MoveOrder, Moving
  <1>8. \A m \in Manifest : Chain(m)'
    BY <1>3, <1>4 DEF Chain
  <1>9. FlowInv'
    BY <1>1, <1>4, <1>5, <1>6, <1>7, QuietNodes
  <1>10. StoreInv => AllSound(exch')
    <2>1. \A c \in Command : \A z \in exch'[c] : z \in exch[c] \/ Sound(c, z)
      BY <1>3, <1>4 DEF Sound
    <2> QED
      BY <2>1, SoundExchanges
  <1> QED
    BY <1>1, <1>4, <1>7, <1>8, <1>9, <1>10, QuietDisks

\* Giving up a completion, or a delete, leaves more to the source.
LEMMA LastTimeoutsOrder ==
  ASSUME Flow,
         \/ \E x \in exch["complete"] : OnCompleteCommandTimeout(x)
         \/ \E x \in exch["only-delete-manifest"] : OnDeleteManifestCommandTimeout(x)
  PROVE  FlowInv' /\ (StoreInv => StoreInv')
  <1> DEFINE Left ==
          /\ to' = to /\ from' = from /\ file' = file /\ version' = version
          /\ store' = store /\ range' = range /\ mlist' = mlist
          /\ UNCHANGED nodeVars
          /\ Directed /\ exch["add-node"] = {} /\ exch'["add-node"] = {}
          /\ exch'["complete"] \subseteq exch["complete"]
          /\ \A d \in Command \ {"complete", "only-delete-manifest"} : exch'[d] = exch[d]
          /\ \A z \in exch'["only-delete-manifest"] :
               \/ z \in exch["only-delete-manifest"]
               \/ /\ Proper("only-delete-manifest", z)
                  /\ \E w \in exch["only-delete-manifest"] : w.manifest = z.manifest
  <1>1. Left
    <2>1. ASSUME NEW x \in exch["complete"], OnCompleteCommandTimeout(x)
          PROVE  Left
      <3>1. exch' = Replace("complete", x, {}) /\ UNCHANGED nodeVars
        BY <2>1 DEF OnCompleteCommandTimeout
      <3>2. /\ exch'["complete"] = (exch["complete"] \ {x}) \cup {}
            /\ \A d \in Command \ {"complete"} : exch'[d] = exch[d]
        BY <3>1, OrderContext, ReplaceExact DEF Command
      <3>3. Directed /\ exch["add-node"] = {}
        BY <2>1, UnderWay DEF Command
      <3> QED
        BY <3>1, <3>2, <3>3 DEF nodeVars, Command
    <2>2. ASSUME NEW x \in exch["only-delete-manifest"], OnDeleteManifestCommandTimeout(x)
          PROVE  Left
      <3>1. GiveUp("only-delete-manifest", x, {}) /\ UNCHANGED nodeVars
        BY <2>2 DEF OnDeleteManifestCommandTimeout, GiveUp
      <3>2. /\ Proper("only-delete-manifest", Delayed(x))
            /\ exch'["only-delete-manifest"] \subseteq
                 (exch["only-delete-manifest"] \ {x}) \cup {} \cup {Delayed(x)}
            /\ \A d \in Command \ {"only-delete-manifest"} : exch'[d] = exch[d]
            /\ to' = to /\ from' = from /\ file' = file /\ version' = version
            /\ store' = store /\ range' = range /\ mlist' = mlist
            /\ Directed /\ exch["add-node"] = {} /\ exch'["add-node"] = {}
        BY <3>1, GiveUpOrder DEF Staged, Command
      <3>3. Delayed(x).manifest = x.manifest
        BY OrderContext, StageFields DEF Delayed
      <3> QED
        BY <3>1, <3>2, <3>3 DEF Command
    <2> QED
      BY <2>1, <2>2
  <1>2. \A c \in Command : \A z \in exch'[c] : z \in exch[c] \/ Proper(c, z)
    BY <1>1
  <1>3. \A n \in Members(file[Manager]) \ {Manager} : Told(n) => Told(n)'
    <2>1. exch'["ver"] = exch["ver"] /\ exch'["fetch"] = exch["fetch"]
      BY <1>1 DEF Command
    <2> QED
      BY <1>1, <2>1, ToldStays
  <1>4. exch'["manifestlist"] = exch["manifestlist"] /\ exch'["find"] = exch["find"]
        /\ exch'["fetch"] = exch["fetch"] /\ exch'["coordination"] = exch["coordination"]
    BY <1>1 DEF Command
  <1>5. ListAlone' /\ (StoreInv => MoveOrder')
    <2>1. \A m : Coming(m) => Coming(m)'
      BY <1>1, <1>4 DEF Coming, Finding
    <2>2. Selected(to, mlist[to])' = Selected(to, mlist[to])
      BY <1>1 DEF Selected
    <2>3. StoreInv => \A z \in exch'["only-delete-manifest"] : Coming(z.manifest)
      BY <1>1 DEF StoreInv, MoveOrder
    <2>4. exch["only-delete-manifest"] = {} => exch'["only-delete-manifest"] = {}
      BY <1>1
    <2> QED
      BY <1>1, <1>4, <2>1, <2>2, <2>3, <2>4
      DEF Flow, FlowInv, ListAlone, StoreInv, MoveOrder, Moving
  <1>6. \A m \in Manifest : Chain(m) => Chain(m)'
    BY <1>1, <1>4 DEF Chain, Finding
  <1>7. FlowInv'
    BY <1>1, <1>2, <1>3, <1>5, QuietNodes
  <1>8. StoreInv => AllSound(exch')
    <2>1. \A c \in Command : \A z \in exch'[c] : z \in exch[c] \/ Sound(c, z)
      BY <1>1 DEF Sound
    <2> QED
      BY <2>1, SoundExchanges
  <1> QED
    BY <1>1, <1>5, <1>6, <1>7, <1>8, QuietDisks

-----------------------------------------------------------------------------
(* The operator's commands.                                                *)

\* When nothing but an add is under way, the members have the ring, and the
\* manifests of two digits are where a lookup looks for them.
LEMMA Settles ==
  ASSUME Flow, Still
  PROVE  /\ \A n \in Members(file[Manager]) : version[n] = version[Manager]
         /\ StoreInv => \A m \in Manifest : Hash[m] >= Base =>
              m \in store[GetManifestStorage(file[Manager], Hash[m])]
  <1>1. /\ exch["ver"] = {} /\ exch["fetch"] = {} /\ exch["coordination"] = {}
        /\ exch["manifestlist"] = {} /\ exch["find"] = {}
    BY DEF Still, Command
  <1>2. \A n \in Members(file[Manager]) : version[n] = version[Manager]
    BY <1>1 DEF Flow, FlowInv, EndsOrder, AllTold, Told, Learning
  <1>3. ASSUME StoreInv, NEW m \in Manifest, Hash[m] >= Base
        PROVE  m \in store[GetManifestStorage(file[Manager], Hash[m])]
    <2>1. Hash[m] \in Key
      BY OrderContext
    <2>2. GetManifestStorage(file[Manager], Hash[m]) \in Members(file[Manager])
      BY <2>1, OrderContext, SomeEntry DEF Members
    <2>3. GetManifestStorage(file[Manager], Hash[m]) = to => ~Chain(m)
      BY <1>1, <1>2, <2>2 DEF Chain, Finding
    <2>4. Placed(m)
      BY <1>3 DEF StoreInv, CopyOrder
    <2> QED
      BY <1>3, <2>3, <2>4 DEF Placed
  <1> QED
    BY <1>2, <1>3

\* The operator's rule for an add, in terms of the manager's file, before and
\* after a step.
LEMMA SafeAddMeans ==
  ASSUME NEW f, NEW n
  PROVE  /\ Ring!SafeAdd(f, n) <=>
              /\ f \in Members(file[Manager]) /\ n \notin Members(file[Manager])
              /\ file[Manager][IndexOf(file[Manager], f)].start
                   < file[Manager][IndexOf(file[Manager], f)].end
         /\ file'[Manager] = file[Manager] => (Ring!SafeAdd(f, n) => Ring!SafeAdd(f, n)')
  <1>1. Ring!SafeAdd(f, n) <=>
          /\ f \in Members(file[Manager]) /\ n \notin Members(file[Manager])
          /\ file[Manager][IndexOf(file[Manager], f)].start
               < file[Manager][IndexOf(file[Manager], f)].end
    BY DEF Ring!SafeAdd, Ring!Members, Ring!IndexOf, Members, IndexOf
  <1>2. ASSUME file'[Manager] = file[Manager], Ring!SafeAdd(f, n)
        PROVE  Ring!SafeAdd(f, n)'
    BY <1>2 DEF Ring!SafeAdd, Ring!Members, Ring!IndexOf
  <1> QED
    BY <1>1, <1>2

\* The same for a delete.
LEMMA SafeDeleteMeans ==
  ASSUME NEW f, NEW t
  PROVE  Ring!SafeDelete(f, t) <=>
           /\ f # t
           /\ f \in Members(file[Manager]) /\ t \in Members(file[Manager])
           /\ LET d == file[Manager][IndexOf(file[Manager], f)]
                  e == file[Manager][IndexOf(file[Manager], t)]
              IN  d.end + 1 = e.start \/ e.end + 1 = d.start
  BY DEF Ring!SafeDelete, Ring!Members, Ring!IndexOf, Members, IndexOf

\* A node starts when nothing is under way, and asks to be added.
LEMMA StartOrder ==
  ASSUME Flow, Orderly, NEW n \in Node, NEW f \in Node, Start(n, f)
  PROVE  FlowInv' /\ (StoreInv => StoreInv')
  <1> DEFINE r == [c \in Command |-> Abandoned(c, n)]
  <1>a. PICK a : a = Add(n, f, budget'.restarts)
    OBVIOUS
  <1>1. /\ n # Manager /\ Quiet /\ Ring!SafeAdd(f, n) /\ Boot(n, f)
    BY DEF Start
  <1>2. /\ version' = [version EXCEPT ![n] = Unset]
        /\ file' = [file EXCEPT ![n] = <<>>]
        /\ \E g \in Garbage : range' = [range EXCEPT ![n] = g]
        /\ from' = [from EXCEPT ![n] = f]
        /\ exch' = [r EXCEPT !["add-node"] = @ \cup {a}]
        /\ UNCHANGED <<to, store, published>>
    BY <1>1, <1>a DEF Boot
  <1>3. \A c \in Command : r[c] = {}
    <2>1. \A c \in Command : exch[c] = {}
      BY <1>1 DEF Quiet
    <2> SUFFICES ASSUME NEW c \in Command
                 PROVE  Abandoned(c, n) = {}
      OBVIOUS
    <2>2. exch[c] = {}
      BY <2>1
    <2> QED
      BY <2>2 DEF Abandoned
  <1>4. a.src = n /\ a.from = f
    BY <1>a DEF Add
  <1>5. /\ exch'["add-node"] = {a}
        /\ \A c \in Command \ {"add-node"} : exch'[c] = {}
    <2>1. /\ exch'["add-node"] = r["add-node"] \cup {a}
          /\ \A c \in Command \ {"add-node"} : exch'[c] = r[c]
      BY <1>2 DEF Command
    <2> HIDE DEF r
    <2> QED
      BY <1>3, <2>1 DEF Command
  <1>6. Still /\ Still'
    BY <1>1, <1>5 DEF Quiet, Still
  <1>7. n \notin Members(file[Manager])
    BY <1>1, SafeAddMeans
  <1>8. n # to
    <2>1. Idle \/ Directed
      BY DEF Flow, FlowInv, EndsOrder
    <2> QED
      BY <1>7, <2>1, NoNodeAssumption DEF Idle, Directed
  <1>9. /\ version'[n] = Unset
        /\ \A k \in Node : k # n => version'[k] = version[k]
        /\ file'[Manager] = file[Manager] /\ from'[Manager] = from[Manager]
        /\ version'[Manager] = version[Manager]
        /\ to' = to /\ store' = store
    BY <1>1, <1>2, OrderContext DEF NodeTypes
  <1>10. to \in Node => range'[to] = range[to] /\ version'[to] = version[to]
    BY <1>2, <1>8, <1>9, OrderContext DEF NodeTypes
  <1>11. RingOrder'
    <2>1. Partitioned(file'[Manager])
      BY <1>9 DEF Flow, FlowInv, RingOrder
    <2>2. Ring!SafeAdd(f, n)'
      BY <1>1, <1>9, SafeAddMeans
    <2>3. Ring!SafeAdd(a.from, a.src)'
      BY <1>4, <2>2
    <2> QED
      BY <1>4, <1>5, <1>6, <1>9, <2>1, <2>3 DEF RingOrder
  <1>12. AllProper(exch)'
    <2>1. \A z : Proper("add-node", z)'
      BY DEF Proper, Moving
    <2> QED
      BY <1>5, <2>1 DEF AllProper
  <1>13. AllTold'
    <2>1. \A k \in Members(file[Manager]) : k \in Node /\ version'[k] = version[k]
      BY <1>7, <1>9, OrderContext
    <2> QED
      BY <1>6, <1>9, <2>1, Settles DEF AllTold, Told
  <1>14. EndsOrder'
    <2>1. (Idle \/ Directed)'
      BY <1>6, <1>9 DEF Flow, FlowInv, EndsOrder, Idle, Directed, Source
    <2>2. RangeKnown' /\ SourceBelow'
      BY <1>9, <1>10 DEF Flow, FlowInv, EndsOrder, RangeKnown, SourceBelow, Source
    <2> QED
      BY <1>13, <2>1, <2>2 DEF EndsOrder
  <1>15. ListAlone' /\ MoveOrder'
    BY <1>5 DEF ListAlone, MoveOrder, Command
  <1>16. StoreInv => CopyOrder'
    BY <1>6, <1>9, Settles DEF StoreInv, CopyOrder, NothingLost, Placed
  <1>17. AllSound(exch)'
    <2>1. \A z : Sound("add-node", z)'
      BY DEF Sound
    <2> QED
      BY <1>5, <2>1 DEF AllSound
  <1> QED
    BY <1>11, <1>12, <1>14, <1>15, <1>16, <1>17 DEF FlowInv, StoreInv

\* In the file new, keys of f have gone to t, and no other key to anyone.
Handed(new, f, t) ==
  \A k \in Key :
    \/ GetManifestStorage(new, k) = GetManifestStorage(file[Manager], k)
    \/ /\ GetManifestStorage(new, k) = t
       /\ GetManifestStorage(file[Manager], k) = f

\* The keys of f lie below those of t.
Below(new, f, t) ==
  \A i, j \in DOMAIN new :
    new[i].node = f /\ new[j].node = t => new[i].end < new[j].start

\* What an edit of the ring leaves: the node that the keys have gone to is told of a
\* version that it has not, and nothing else is under way.
Edited ==
  /\ Still /\ Handed(file'[Manager], from'[Manager], to')
  /\ store' = store
  /\ \A c \in Command \ {"ver"} : exch'[c] = {}
  /\ \E y \in exch'["ver"] :
       y.stage = "interest" /\ y.dst = to' /\ version'[y.dst] # y.version

\* The manager publishes a ring that gives some keys of f to t, and no other to
\* anyone, when nothing but the add is under way.
LEMMA PublishOrder ==
  ASSUME Flow, Still, IInv', NEW f \in Node, NEW t \in Node \ {Manager}, f # t,
         NEW new \in File, Partitioned(new), t \in Members(new),
         NEW rest, Publish(new, rest), SetFromTo(f, t), UNCHANGED <<range, store>>,
         rest = [c \in Command |-> {}],
         version[t] # version[Manager] + 1, Handed(new, f, t), Below(new, f, t)
  PROVE  FlowInv' /\ (StoreInv => StoreInv') /\ Edited
  <1> DEFINE v == version[Manager] + 1
             vs == VersionCommands(new, v)
  <1>1. /\ version' = [version EXCEPT ![Manager] = v]
        /\ file' = [file EXCEPT ![Manager] = new]
        /\ exch' = [rest EXCEPT !["ver"] = @ \cup vs]
        /\ from' = [from EXCEPT ![Manager] = f]
        /\ to' = t
    BY DEF Publish, SetFromTo
  <1>2. /\ version'[Manager] = v /\ file'[Manager] = new /\ Source' = f
        /\ version'[t] = version[t]
        /\ range' = range /\ store' = store /\ to' = t
    BY <1>1, OrderContext DEF NodeTypes, Source
  <1>3. \A y \in vs : y.stage = "interest" /\ y.version = v
    BY DEF VersionCommands, Ver
  <1>4. \A n \in Members(new) \ {Manager} : \E y \in vs : y.dst = n /\ y.stage = "interest"
    <2> SUFFICES ASSUME NEW n \in Members(new) \ {Manager}
                 PROVE  \E y \in vs : y.dst = n /\ y.stage = "interest"
      OBVIOUS
    <2>1. PICK i \in DOMAIN new : new[i].node = n
      BY DEF Members
    <2>2. i \in 2 .. Len(new)
      <3>1. DOMAIN new = 1 .. Len(new) /\ Len(new) \in Nat
        BY DEF File
      <3>2. new[1].node = Manager
        BY <1>2 DEF IInv, RingInv
      <3> QED
        BY <2>1, <3>1, <3>2
    <2>3. Ver(new[i].node, v) \in vs
      BY <2>2 DEF VersionCommands
    <2>4. Ver(new[i].node, v).dst = n /\ Ver(new[i].node, v).stage = "interest"
      BY <2>1 DEF Ver
    <2> HIDE DEF vs, v
    <2> QED
      BY <2>3, <2>4
  <1> HIDE DEF vs, v
  <1>5. /\ exch'["ver"] = vs
        /\ \A c \in Command \ {"ver"} : exch'[c] = {}
    BY <1>1 DEF Command
  <1>6. RingOrder'
    BY <1>2, <1>5 DEF RingOrder, Command
  <1>7. AllProper(exch)'
    <2>1. \A y \in vs : Proper("ver", y)'
      BY <1>2, <1>3 DEF Proper, Moving
    <2> QED
      BY <1>5, <2>1 DEF AllProper
  <1>8. AllTold'
    BY <1>2, <1>4, <1>5 DEF AllTold, Told, Learning
  <1>9. Directed'
    BY <1>2 DEF Directed
  <1>10. RangeKnown'
    BY <1>2 DEF RangeKnown, v
  <1>11. SourceBelow'
    BY <1>2 DEF SourceBelow, Below
  <1>12. ListAlone' /\ MoveOrder'
    BY <1>5 DEF ListAlone, MoveOrder, Command
  <1>13. StoreInv => CopyOrder'
    <2> SUFFICES ASSUME StoreInv
                 PROVE  CopyOrder'
      OBVIOUS
    <2>1. NothingLost'
      BY <1>2 DEF StoreInv, CopyOrder, NothingLost
    <2>2. \A m : Chain(m)'
      <3>1. exch'["fetch"] = {}
        BY <1>5 DEF Command
      <3> QED
        BY <1>2, <3>1 DEF Chain, v
    <2>3. ASSUME NEW m \in Manifest, Hash[m] >= Base
          PROVE  LET o == GetManifestStorage(new, Hash[m])
                 IN  m \in store[o] \/ (o = t /\ m \in store[f])
      <3>1. Hash[m] \in Key
        BY OrderContext
      <3>2. m \in store[GetManifestStorage(file[Manager], Hash[m])]
        BY <2>3, Settles
      <3> QED
        BY <3>1, <3>2 DEF Handed
    <2> QED
      BY <1>2, <2>1, <2>2, <2>3 DEF CopyOrder, Placed
  <1>14. AllSound(exch)'
    <2>1. \A y : Sound("ver", y)'
      BY DEF Sound
    <2> QED
      BY <1>5, <2>1 DEF AllSound
  <1>15. Edited
    <2>1. PICK y \in vs : y.dst = t /\ y.stage = "interest"
      BY <1>4
    <2>2. version'[t] # v
      BY <1>2 DEF v
    <2>3. from'[Manager] = f
      BY <1>2 DEF Source
    <2> QED
      BY <1>2, <1>3, <1>5, <2>1, <2>2, <2>3 DEF Edited
  <1> QED
    BY <1>6, <1>7, <1>8, <1>9, <1>10, <1>11, <1>12, <1>13, <1>14, <1>15
       DEF FlowInv, StoreInv, EndsOrder

\* The manager splits the range of from for the node that has started.
LEMMA AddOrder ==
  ASSUME Flow, IInv', NEW x \in exch["add-node"], HandleAddCommand(x)
  PROVE  FlowInv' /\ (StoreInv => StoreInv') /\ Edited
  <1> DEFINE F == file[Manager]
             f == x.from
             t == x.src
             new == AddNode(F, f, t)
             rest == Replace("add-node", x, {})
  <1>1. /\ exch["add-node"] = {x} /\ Still /\ Ring!SafeAdd(f, t) /\ version[t] = Unset
    BY DEF Flow, FlowInv, RingOrder
  <1>2. /\ f \in Members(F) /\ t \notin Members(F)
        /\ F[IndexOf(F, f)].start < F[IndexOf(F, f)].end
    BY <1>1, SafeAddMeans
  <1>3. F \in File /\ Partitioned(F) /\ f \in Node
    BY <1>2, OrderContext
  <1>4. t \in Node \ {Manager}
    BY DEF Flow, IInv, ExchInv, AddOK
  <1>5. Publish(new, rest) /\ SetFromTo(f, t) /\ UNCHANGED <<range, store>>
    BY <1>2 DEF HandleAddCommand
  <1>6. rest = [c \in Command |-> {}]
    <2>1. /\ rest = [c \in Command |-> rest[c]]
          /\ rest["add-node"] = (exch["add-node"] \ {x}) \cup {}
          /\ \A c \in Command \ {"add-node"} : rest[c] = exch[c]
      BY OrderContext, ReplaceShape DEF Command
    <2> HIDE DEF rest
    <2> QED
      BY <1>1, <2>1 DEF Still
  <1>7. PICK i \in DOMAIN F, cut \in Int :
          /\ F[i].node = f /\ F[i].start < cut /\ cut <= F[i].end
          /\ new = Split(F, i, cut, t)
    BY <1>2, <1>3, <1>4, AddIsSplit
  <1> HIDE DEF rest, new, f, t, F
  <1>8. /\ new \in File
        /\ DOMAIN F = 1 .. Len(F)
        /\ DOMAIN new = 1 .. (Len(F) + 1)
        /\ new[Len(F) + 1] = [node |-> t, start |-> cut, end |-> F[i].end]
        /\ new[i] = [node |-> F[i].node, start |-> F[i].start, end |-> cut - 1]
        /\ \A j \in DOMAIN F : j # i => new[j] = F[j]
    BY <1>3, <1>4, <1>7, SplitEntries DEF SplitIn
  <1>9. Partitioned(new)
    BY <1>2, <1>3, <1>4, <1>7, SplitPartition
  <1>10. Len(F) \in Nat
    BY <1>3 DEF File
  <1>11. t \in Members(new)
    BY <1>8, <1>10 DEF Members
  <1>12. version[t] # version[Manager] + 1
    BY <1>1, OrderContext DEF Unset
  <1>13. Handed(new, f, t)
    <2> SUFFICES ASSUME NEW k \in Key
                 PROVE  \/ GetManifestStorage(new, k) = GetManifestStorage(F, k)
                        \/ /\ GetManifestStorage(new, k) = t
                           /\ GetManifestStorage(F, k) = f
      BY DEF Handed, F
    <2>1. GetManifestStorage(new, k) =
            IF k \in KeysOf(F[i]) /\ cut <= k THEN t ELSE GetManifestStorage(F, k)
      BY <1>2, <1>3, <1>4, <1>7, SplitOwners
    <2>2. k \in KeysOf(F[i]) => GetManifestStorage(F, k) = f
      BY <1>3, <1>7, OwnerIsEntry
    <2> QED
      BY <2>1, <2>2
  <1>14. Below(new, f, t)
    <2> SUFFICES ASSUME NEW k \in DOMAIN new, NEW j \in DOMAIN new,
                        new[k].node = f, new[j].node = t
                 PROVE  new[k].end < new[j].start
      BY DEF Below
    <2>1. f # t
      BY <1>2
    <2>2. \A l \in DOMAIN F : F[l].node # t
      BY <1>2 DEF Members
    <2>3. \A l \in DOMAIN F : F[l].node = f => l = i
      BY <1>3, <1>7 DEF Partitioned, OneEntry
    <2>4. k \in DOMAIN F
      BY <1>8, <1>10, <2>1
    <2>5. k = i
      BY <1>8, <2>3, <2>4
    <2>6. j = Len(F) + 1
      <3>1. j \in DOMAIN F => new[j].node = F[j].node
        BY <1>8
      <3> QED
        BY <1>8, <1>10, <2>2, <3>1
    <2>7. new[k].end = cut - 1 /\ new[j].start = cut
      BY <1>8, <2>5, <2>6
    <2> QED
      BY <1>7, <2>7
  <1>15. f # t
    BY <1>2
  <1> QED
    BY <1>1, <1>3, <1>4, <1>5, <1>6, <1>8, <1>9, <1>11, <1>12, <1>13, <1>14, <1>15,
       PublishOrder DEF F

\* The manager merges f into its neighbour t.
LEMMA RemoveOrder ==
  ASSUME Flow, IInv', Orderly, NEW f \in Node, NEW t \in Node, HandleDeleteCommand(f, t)
  PROVE  FlowInv' /\ (StoreInv => StoreInv') /\ Edited
  <1> DEFINE F == file[Manager]
             new == DelNode(F, f, t, [start |-> 0, end |-> 0])
  <1>1. /\ Quiet /\ t # Manager /\ Ring!SafeDelete(f, t)
        /\ Publish(new, exch) /\ SetFromTo(f, t) /\ UNCHANGED <<range, store>>
    BY DEF HandleDeleteCommand
  <1>2. /\ f # t /\ f \in Members(F) /\ t \in Members(F)
        /\ LET d == F[IndexOf(F, f)]
               e == F[IndexOf(F, t)]
           IN  d.end + 1 = e.start \/ e.end + 1 = d.start
    BY <1>1, SafeDeleteMeans
  <1>3. F \in File /\ Partitioned(F)
    BY OrderContext
  <1>4. Still /\ exch = [c \in Command |-> {}]
    BY <1>1 DEF Quiet, Still, Flow, IInv, ExchInv
  <1>5. PICK i \in DOMAIN F, j \in DOMAIN F :
          /\ F[i].node = f /\ F[j].node = t /\ Neighbours(F, i, j)
          /\ new = Widen(Erase(F, i), t, F[i])
    BY <1>2, <1>3, DeleteIsMerge
  <1> HIDE DEF new, F
  <1>6. new = Widen(Erase(F, i), F[j].node, F[i])
    BY <1>5
  <1>7. /\ new \in File
        /\ DOMAIN F = 1 .. Len(F) /\ Len(F) \in Nat
        /\ DOMAIN new = 1 .. (Len(F) - 1)
        /\ \A k \in DOMAIN new :
             /\ Before(i, k) \in DOMAIN F
             /\ new[k].node = F[Before(i, k)].node
    <2>1. /\ new \in File
          /\ DOMAIN F = 1 .. Len(F) /\ Len(F) \in Nat
          /\ DOMAIN new = 1 .. (Len(F) - 1)
          /\ \A k \in DOMAIN new :
               /\ Before(i, k) \in DOMAIN F
               /\ Before(i, k) # j => new[k] = F[Before(i, k)]
               /\ Before(i, k) = j => new[k].node = F[j].node
      BY <1>3, <1>5, <1>6, MergeEntries
    <2> QED
      BY <2>1
  <1>8. Partitioned(new)
    BY <1>3, <1>5, <1>6, MergePartition
  <1>9. t \in Members(new)
    <2>1. i # j /\ i \in 1 .. Len(F) /\ j \in 1 .. Len(F)
      BY <1>2, <1>5, <1>7
    <2>2. \E k \in DOMAIN new : Before(i, k) = j
      <3>1. CASE j < i
        BY <1>7, <2>1, <3>1 DEF Before
      <3>2. CASE j > i
        <4>1. j - 1 \in DOMAIN new /\ Before(i, j - 1) = j
          BY <1>7, <2>1, <3>2 DEF Before
        <4> QED
          BY <4>1
      <3> QED
        BY <2>1, <3>1, <3>2
    <2> QED
      BY <1>5, <1>7, <2>2 DEF Members
  <1>10. Below(new, f, t)
    <2> SUFFICES ASSUME NEW k \in DOMAIN new
                 PROVE  new[k].node # f
      BY DEF Below
    <2>1. Before(i, k) # i
      BY <1>7 DEF Before
    <2> QED
      BY <1>3, <1>5, <1>7, <2>1 DEF Partitioned, OneEntry
  <1>11. version[t] # version[Manager] + 1
    <2>1. version[t] = version[Manager] /\ version[Manager] \in Nat
      BY <1>2, <1>4, Settles, OrderContext DEF F
    <2> QED
      BY <2>1
  <1>12. Handed(new, f, t)
    <2> SUFFICES ASSUME NEW k \in Key
                 PROVE  \/ GetManifestStorage(new, k) = GetManifestStorage(F, k)
                        \/ /\ GetManifestStorage(new, k) = t
                           /\ GetManifestStorage(F, k) = f
      BY DEF Handed, F
    <2>1. GetManifestStorage(new, k) =
            IF k \in KeysOf(F[i]) THEN F[j].node ELSE GetManifestStorage(F, k)
      BY <1>3, <1>5, <1>6, MergeOwners
    <2>2. k \in KeysOf(F[i]) => GetManifestStorage(F, k) = f
      BY <1>3, <1>5, OwnerIsEntry
    <2> QED
      BY <1>5, <2>1, <2>2
  <1> QED
    BY <1>1, <1>2, <1>4, <1>7, <1>8, <1>9, <1>10, <1>11, <1>12, PublishOrder DEF F

-----------------------------------------------------------------------------
(* The theorems about the orderly cluster.                                 *)

\* At first the manager has all keys, and nothing is under way.
LEMMA InitFlow ==
  ASSUME NEW ms, InitStored(ms)
  PROVE  FlowInv
  <1>0. /\ from = [n \in Node |-> NoNode] /\ to = NoNode
        /\ \A c \in Command : exch[c] = {}
        /\ file[Manager] = InitKeySpaceFile
    BY ManagerAssumption DEF InitStored
  <1>1. /\ InitKeySpaceFile \in File /\ Partitioned(InitKeySpaceFile)
        /\ DOMAIN InitKeySpaceFile = {1} /\ InitKeySpaceFile[1].node = Manager
    BY FirstPartition DEF InitKeySpaceFile
  <1>2. RingOrder
    BY <1>0, <1>1 DEF RingOrder, Command
  <1>3. AllProper(exch)
    BY <1>0 DEF AllProper
  <1>4. EndsOrder
    <2>1. AllTold
      BY <1>0, <1>1 DEF AllTold, Members
    <2>2. Idle
      BY <1>0 DEF Idle, Still
    <2>3. RangeKnown
      BY <1>0, NoNodeAssumption DEF RangeKnown
    <2>4. SourceBelow
      BY <1>0, <1>1, NoNodeAssumption, ManagerAssumption DEF SourceBelow, Source
    <2> QED
      BY <2>1, <2>2, <2>3, <2>4 DEF EndsOrder
  <1>5. ListAlone
    BY <1>0 DEF ListAlone, Command
  <1> QED
    BY <1>2, <1>3, <1>4, <1>5 DEF FlowInv

\* The first ring gives every key to the manager.
LEMMA FirstOwner ==
  ASSUME NEW k \in Key
  PROVE  GetManifestStorage(InitKeySpaceFile, k) = Manager
  <1>1. /\ InitKeySpaceFile \in File /\ Partitioned(InitKeySpaceFile)
        /\ DOMAIN InitKeySpaceFile = {1} /\ InitKeySpaceFile[1].node = Manager
        /\ KeysOf(InitKeySpaceFile[1]) = Key
    BY FirstPartition DEF InitKeySpaceFile, KeysOf, Key
  <1> QED
    BY <1>1, OwnerIsEntry

\* At first the manager has all manifests.
LEMMA InitOrder == Init => FlowInv /\ StoreInv
  <1> SUFFICES ASSUME Init
               PROVE  FlowInv /\ StoreInv
    OBVIOUS
  <1>0. /\ store = [n \in Node |-> IF n = Manager THEN Manifest ELSE {}]
        /\ \A c \in Command : exch[c] = {}
        /\ file[Manager] = InitKeySpaceFile
    BY ManagerAssumption DEF Init, InitStored
  <1>1. FlowInv
    BY InitFlow DEF Init
  <1>2. MoveOrder /\ AllSound(exch)
    BY <1>0 DEF MoveOrder, AllSound, Command
  <1>3. CopyOrder
    <2>1. NothingLost
      BY <1>0, ManagerAssumption DEF NothingLost
    <2>2. \A m \in Manifest : m \in store[GetManifestStorage(file[Manager], Hash[m])]
      BY <1>0, FirstOwner, HashAssumption, ManagerAssumption
    <2> QED
      BY <2>1, <2>2 DEF CopyOrder, Placed
  <1> QED
    BY <1>1, <1>2, <1>3 DEF StoreInv

\* A step that the ring and the exchanges do not notice.
LEMMA FlowStays ==
  ASSUME FlowInv, UNCHANGED <<version, file, range, from, to, exch>>
  PROVE  FlowInv'
  <1>1. RingOrder'
    <2>1. \A f, n : Ring!SafeAdd(f, n) => Ring!SafeAdd(f, n)'
      BY SafeAddMeans
    <2> QED
      BY <2>1 DEF FlowInv, RingOrder, Still
  <1>2. AllProper(exch)'
    BY ProperStays DEF FlowInv, AllProper, Source
  <1>3. EndsOrder'
    BY DEF FlowInv, EndsOrder, AllTold, Told, Learning, Idle, Still, Directed,
           Source, RangeKnown, SourceBelow
  <1>4. ListAlone'
    BY DEF FlowInv, ListAlone
  <1> QED
    BY <1>1, <1>2, <1>3, <1>4 DEF FlowInv

\* A step that changes nothing.
LEMMA StutterOrder ==
  ASSUME FlowInv, UNCHANGED vars
  PROVE  FlowInv' /\ (StoreInv => StoreInv')
  <1>1. UNCHANGED <<version, file, range, from, to, mlist, store, exch>>
    BY DEF vars, nodeVars
  <1>2. FlowInv'
    BY <1>1, FlowStays
  <1>3. StoreInv => AllSound(exch)'
    BY <1>1, SoundStays DEF StoreInv, AllSound
  <1>4. StoreInv => MoveOrder'
    BY <1>1 DEF StoreInv, MoveOrder, Selected, Coming, Finding
  <1>5. StoreInv => CopyOrder'
    BY <1>1 DEF StoreInv, CopyOrder, NothingLost, Placed, Source, Chain, Finding
  <1> QED
    BY <1>2, <1>3, <1>4, <1>5 DEF StoreInv

\* What the operator does and what is delivered keep the invariant of the exchanges,
\* as long as the answer to every find has the manifest.
LEMMA FlowNext ==
  ASSUME Orderly, Flow, IInv', Operate \/ Deliver,
         \A x \in exch["find"] : OnManifestCommandResponse(x) => x.found
  PROVE  FlowInv' /\ (StoreInv => StoreInv')
  <1>1. CASE Operate
    BY <1>1, StartOrder, RemoveOrder DEF Operate
  <1>2. CASE Deliver
    <2>1. "ver" \in {"ver", "coordination", "only-delete-manifest"}
          /\ "coordination" \in {"ver", "coordination", "only-delete-manifest"}
          /\ "only-delete-manifest" \in {"ver", "coordination", "only-delete-manifest"}
      OBVIOUS
    <2> QED
      BY <1>2, <2>1, AddOrder, VersionOrder, FetchOrder, RingOrderStep,
         CoordinationOrder, ListOrder, AskOrder, FindOrder, FoundOrder, CompleteOrder,
         DeleteOrder, IgnoreOrder DEF Deliver
  <1> QED
    BY <1>1, <1>2

\* Every step of an orderly cluster keeps the invariant.
LEMMA NextOrder ==
  ASSUME Orderly, Inv, IInv', [Next]_vars
  PROVE  FlowInv' /\ StoreInv'
  <1>0. Flow /\ StoreInv
    BY DEF Inv
  <1>1. CASE Operate \/ Deliver
    <2>1. \A x \in exch["find"] : OnManifestCommandResponse(x) => x.found
      BY <1>0 DEF StoreInv, AllSound, Sound, Command, OnManifestCommandResponse, Returning
    <2> QED
      BY <1>0, <1>1, <2>1, FlowNext
  <1>2. CASE Timeout
    <2>1. \A x \in exch["find"] : ~OnManifestCommandTimeout(x)
      BY DEF OnManifestCommandTimeout
    <2> QED
      BY <1>0, <1>2, <2>1, AddTimeoutOrder, VersionTimeoutOrder, FetchTimeoutOrder,
         CoordinationTimeoutOrder, ListTimeoutOrder, LastTimeoutsOrder DEF Timeout
  <1>3. CASE UNCHANGED vars
    BY <1>0, <1>3, StutterOrder DEF Flow
  <1> QED
    BY <1>1, <1>2, <1>3 DEF Next, Restart

\* The invariant of the orderly cluster holds in every state.
LEMMA OrderAlways ==
  ASSUME Orderly
  PROVE  Spec => []Inv
  <1>1. Init => Inv
    BY InitInv, InitTypes, InitOrder DEF Inv, Flow
  <1>2. Inv /\ [Next]_vars => Inv'
    BY NextInv, NextTypes, NextOrder DEF Inv, Flow
  <1> QED
    BY <1>1, <1>2, PTL DEF Spec

\* In an orderly cluster the manager's ring is edited by the operator's rules,
\* whatever times out or is late: the add of a node that has started is still a split of
\* a member with two keys or more for a node that is none when it arrives.
THEOREM FollowsTheRulesAlways ==
  ASSUME Orderly
  PROVE  Spec => FollowsTheRules
  <1>1. Inv /\ [Next]_vars => [Ring!Next]_(Ring!vars)
    <2> SUFFICES ASSUME Inv, [Next]_vars
                 PROVE  [Ring!Next]_(Ring!vars)
      OBVIOUS
    <2>1. ASSUME NEW x \in exch["add-node"], HandleAddCommand(x)
          PROVE  [Ring!Next]_(Ring!vars)
      <3>1. \/ /\ x.from \in Node /\ x.src \in Node
               /\ Ring!HandleAddCommand(x.from, x.src)
            \/ UNCHANGED Ring!vars
        BY <2>1, AddEdits DEF Inv, Flow
      <3>2. Ring!SafeAdd(x.from, x.src)
        BY DEF Inv, Flow, FlowInv, RingOrder
      <3> QED
        BY <3>1, <3>2 DEF Ring!Next
    <2>2. ASSUME NEW f \in Node, NEW t \in Node, HandleDeleteCommand(f, t)
          PROVE  Ring!Next
      <3>1. Ring!SafeDelete(f, t) /\ \A g : Ring!HandleDeleteCommand(f, t, g)
        BY <2>2, DeleteEdits DEF Inv, Flow
      <3> QED
        BY <3>1 DEF Ring!Next
    <2>3. CASE /\ \A x \in exch["add-node"] : ~HandleAddCommand(x)
               /\ \A f, t \in Node : ~HandleDeleteCommand(f, t)
      <3>1. version'[Manager] = version[Manager] /\ file'[Manager] = file[Manager]
        BY <2>3, OthersLeaveRing DEF Inv, Flow
      <3> QED
        BY <3>1 DEF Ring!vars
    <2> QED
      BY <2>1, <2>2, <2>3
  <1> QED
    BY <1>1, RingStarts, OrderAlways, PTL DEF Spec, FollowsTheRules, Ring!Spec

\* In an orderly cluster, where finds are answered before they time out and no
\* delete overtakes a find, no manifest is ever without a copy, whatever else times
\* out or is repeated, and however many nodes have joined and left: the delete that
\* onCompleteCommandResponse sends erases only what m_to has stored.
THEOREM NothingLostAlways ==
  ASSUME Orderly
  PROVE  Spec => []NothingLost
  <1>1. Inv => NothingLost
    BY DEF Inv, StoreInv, CopyOrder
  <1> QED
    BY <1>1, OrderAlways, PTL

\* When an orderly cluster is at rest, the manifests of two digits are where a
\* lookup with the manager's file looks for them: a fetch, a coordination and a list
\* that time out are repeated until m_to has asked for all that is its own.
THEOREM SettledAlways ==
  ASSUME Orderly
  PROVE  Spec => []Settled
  <1>1. Inv => Settled
    BY Settles DEF Settled, Quiet, Still, Inv
  <1> QED
    BY <1>1, OrderAlways, PTL

\* When an orderly cluster is at rest, all members have the manager's ring, under
\* its version: announcements and fetches that time out are repeated.
THEOREM RingSpreadAlways ==
  ASSUME Orderly
  PROVE  Spec => []RingSpread
  <1>1. Inv => RingSpread
    <2> SUFFICES ASSUME Inv, Quiet, NEW n \in Members(file[Manager])
                 PROVE  version[n] = version[Manager] /\ file[n] = file[Manager]
      BY DEF RingSpread
    <2>1. version[n] = version[Manager]
      BY Settles DEF Quiet, Still, Inv
    <2>2. n \in Node /\ Manager \in Node /\ version[Manager] # Unset
      BY OrderContext DEF Unset, Inv
    <2>3. VersionNamesRing
      BY DEF Inv, Flow, IInv, NodeInv
    <2> QED
      BY <2>1, <2>2, <2>3 DEF VersionNamesRing
  <1> QED
    BY <1>1, OrderAlways, PTL

=============================================================================
