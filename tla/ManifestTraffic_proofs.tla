----------------------- MODULE ManifestTraffic_proofs -----------------------
(***************************************************************************)
(* Proofs about the manifests that clients put and delete while the ring   *)
(* changes, for every set of nodes and of manifests, every number of edits,*)
(* requests and lost Interests.  The cluster is orderly, and a process that*)
(* has ended is not started again in the midst of a migration.             *)
(***************************************************************************)
EXTENDS ManifestTraffic, KeySpaceMigration_proofs

-----------------------------------------------------------------------------
(* What may still become of a manifest.                                    *)

\* Where a lookup with the manager's file looks for m.
Home(m) == OwnerAt(Manager, m)

\* The list of the source will be asked for.
ToAsk ==
  \/ \E x \in exch["manifestlist"] : x.stage = "interest"
  \/ \E x \in exch["coordination"] : x.stage = "interest"
  \/ \E x \in exch["fetch"] : x.stage # "data"
  \/ \E x \in exch["ver"] : /\ x.stage = "interest"
                            /\ version[x.dst] # x.version
                            /\ \A y \in exch["fetch"] : y.src # x.dst

\* A list on its way to m_to has m.
Read(m) == \E x \in exch["manifestlist"] : x.stage = "data" /\ m \in x.content

\* m is looked for at the source, was found there, was not found there.
Sought(m) == \E x \in exch["find"] : x.manifest = m /\ x.stage = "interest"

Brought(m) == \E x \in exch["find"] : x.manifest = m /\ x.stage = "data" /\ x.found

Missed(m) == \E x \in exch["find"] : x.manifest = m /\ x.stage = "data" /\ ~x.found

\* The source will be told to delete m; it is being told.
Due(m) == exch["complete"] # {} /\ m \in Selected(to, mlist[to])

Doomed(m) ==
  \E x \in exch["only-delete-manifest"] : x.manifest = m /\ x.stage # "data"

\* A find brings m to m_to, if nobody deletes it before.
Bring(m) == (Sought(m) /\ m \in store[Source]) \/ Brought(m)

Unless(m, causes) == spoiled[m] \cap causes # {}

-----------------------------------------------------------------------------
(* The inductive invariant.                                                *)

\* A manifest is missed only after its deletion has overlapped the migration:
\* what is listed is stored, and stays until it has been found.
CrashPart(m) ==
  /\ "crash" \in spoiled[m] => "overlap" \in spoiled[m]
  /\ Missed(m) => "overlap" \in spoiled[m]
  /\ Read(m) \/ Sought(m) => m \in store[Source] \/ "overlap" \in spoiled[m]

\* A stored manifest is on some disk, and on another one than the source's, or
\* about to be, when the source is told to delete it.
KeptPart(m) ==
  latest[m] = "stored" /\ ~Unless(m, {"listed", "stranded"}) =>
    /\ \E n \in Node : m \in store[n]
    /\ Due(m) \/ Doomed(m) =>
         (\E n \in Node \ {Source} : m \in store[n]) \/ Bring(m)

\* A stored manifest is at its home, or it is m_to's and comes there; it is there, or
\* is being brought, when the source is told to delete it.
HomePart(m) ==
  latest[m] = "stored" /\ Hash[m] >= Base /\ ~Unless(m, {"late", "listed", "stranded"}) =>
    /\ \/ m \in store[Home(m)]
       \/ /\ Home(m) = to
          /\ (m \in store[Source] /\ (ToAsk \/ Read(m) \/ Sought(m))) \/ Brought(m)
    /\ Home(m) = to /\ (Due(m) \/ Doomed(m)) => m \in store[to] \/ Bring(m)

\* An erased manifest is nowhere and nobody brings it.  A stored one is at its home,
\* and at the source only as long as m_to's migration has not got to deleting it
\* there.  What is listed is m_to's or the source's, what is asked for m_to's.
GonePart(m) ==
  Hash[m] >= Base /\ ~Unless(m, {"overlap", "leftover", "late", "stranded"}) =>
    /\ latest[m] = "erased" => ~Brought(m) /\ \A n \in Node : m \notin store[n]
    /\ latest[m] = "stored" =>
         \A n \in Node : m \in store[n] =>
           \/ n = Home(m)
           \/ n = Source /\ Home(m) = to /\ (ToAsk \/ Read(m) \/ Due(m) \/ Doomed(m))
    /\ Read(m) => Home(m) \in {to, Source}
    /\ Sought(m) \/ Brought(m) => Home(m) = to

\* The owner that a put has looked up is that of the ring it has looked in, and a
\* deletion that waits for the data has seen the manifest on the disk.
PutFits(m, p) ==
  p # NoRequest =>
    /\ p \in Put
    /\ version[p.node] # Unset
    /\ p.ring <= version[Manager]
    /\ p.dst = GetManifestStorage(published[p.ring], Hash[m])

DelFits(m, d) ==
  d # NoRequest =>
    /\ d \in Del
    /\ d.stage = "delete-data" =>
         d.dst \in Node /\ (m \in store[d.dst] \/ "overlap" \in spoiled[m])

PutPart(m) == PutFits(m, put[m])

DelPart(m) == DelFits(m, del[m])

Fate(m) == CrashPart(m) /\ KeptPart(m) /\ HomePart(m) /\ GonePart(m)

TrafficTypes ==
  /\ put = [m \in Manifest |-> put[m]]
  /\ del = [m \in Manifest |-> del[m]]
  /\ left \in [requests : 0 .. MaxRequests, losses : 0 .. MaxLosses]
  /\ latest \in [Manifest -> {"stored", "erased"}]
  /\ spoiled \in [Manifest -> SUBSET Cause]

Fates == \A m \in Manifest : Fate(m) /\ PutPart(m) /\ DelPart(m)

TrafficInv == Flow /\ TrafficTypes /\ Fates

-----------------------------------------------------------------------------
(* Lemmas.                                                                 *)

\* A step that leaves the ring, the ends of the migration and the name's last
\* request as they are.
Steady(m) ==
  /\ file'[Manager] = file[Manager] /\ to' = to /\ from'[Manager] = from[Manager]
  /\ latest'[m] = latest[m] /\ spoiled[m] \subseteq spoiled'[m]
  /\ "crash" \in spoiled'[m] => "crash" \in spoiled[m] \/ Missed(m)

\* What a steady step leaves as it was.
LEMMA SteadyMeans ==
  ASSUME NEW m, Steady(m)
  PROVE  /\ Home(m)' = Home(m) /\ Source' = Source /\ to' = to
         /\ latest'[m] = latest[m]
         /\ \A S : Unless(m, S) => Unless(m, S)'
         /\ "overlap" \in spoiled[m] => "overlap" \in spoiled'[m]
         /\ "crash" \in spoiled'[m] => "crash" \in spoiled[m] \/ Missed(m)
  BY DEF Steady, Home, OwnerAt, Source, Unless

\* A manifest that the migration knows of has a migration, with two ends.
LEMMA Ends ==
  ASSUME Flow, NEW m \in Manifest
  PROVE  /\ Home(m) \in Node /\ Home(m) \in Members(file[Manager])
         /\ \/ Read(m) \/ Sought(m) \/ Brought(m) \/ Missed(m) \/ Due(m) \/ Doomed(m)
            \/ Home(m) = to
            => /\ Directed /\ to \in Node \ {Manager} /\ Source \in Node \ {to}
  <1>1. Home(m) \in Node /\ Home(m) \in Members(file[Manager])
    <2>1. Hash[m] \in Key /\ file[Manager] \in File /\ Partitioned(file[Manager])
      BY OrderContext
    <2>2. Home(m) \in Members(file[Manager])
      BY <2>1, SomeEntry DEF Members, Home, OwnerAt
    <2> QED
      BY <2>2, OrderContext
  <1>2. ASSUME NEW c \in {"manifestlist", "find", "complete", "only-delete-manifest"},
               exch[c] # {}
        PROVE  Directed /\ to \in Node \ {Manager} /\ Source \in Node \ {to}
    BY <1>2, UnderWay DEF Command
  <1>3. CASE Home(m) = to
    <2>1. Directed
      BY <1>1, <1>3, NoNodeAssumption DEF Flow, FlowInv, EndsOrder, Idle
    <2> QED
      BY <1>1, <1>3, <2>1 DEF Directed
  <1> QED
    BY <1>1, <1>2, <1>3 DEF Read, Sought, Brought, Missed, Due, Doomed

\* A step that touches neither the disks' copies of m nor the finds, and no list of
\* it, keeps what may become of m, if what waits for the source's list goes on, and what
\* is to be deleted does, unless it was lost.
LEMMA QuietFate ==
  ASSUME Flow, NEW m \in Manifest, Fate(m), Steady(m),
         \A n \in Node : m \in store'[n] <=> m \in store[n],
         exch'["find"] = exch["find"],
         Read(m)' <=> Read(m), ToAsk => ToAsk',
         Due(m)' \/ Doomed(m)' => Due(m) \/ Doomed(m),
         Due(m) \/ Doomed(m) => Due(m)' \/ Doomed(m)' \/ "leftover" \in spoiled'[m]
  PROVE  Fate(m)'
  <1>1. /\ Home(m)' = Home(m) /\ Source' = Source /\ to' = to
        /\ latest'[m] = latest[m]
        /\ \A S : Unless(m, S) => Unless(m, S)'
        /\ "overlap" \in spoiled[m] => "overlap" \in spoiled'[m]
        /\ "crash" \in spoiled'[m] => "crash" \in spoiled[m] \/ Missed(m)
    BY SteadyMeans
  <1>2. /\ Sought(m)' <=> Sought(m)
        /\ Brought(m)' <=> Brought(m)
        /\ Missed(m)' <=> Missed(m)
    BY DEF Sought, Brought, Missed
  <1>3. /\ Home(m) \in Node
        /\ \/ Read(m) \/ Sought(m) \/ Brought(m) \/ Missed(m) \/ Due(m) \/ Doomed(m)
           \/ Home(m) = to
           => to \in Node /\ Source \in Node
    BY Ends
  <1>4. CrashPart(m)'
    BY <1>1, <1>2, <1>3 DEF Fate, CrashPart
  <1>5. KeptPart(m)'
    BY <1>1, <1>2, <1>3 DEF Fate, KeptPart, Bring
  <1>6. HomePart(m)'
    BY <1>1, <1>2, <1>3 DEF Fate, HomePart, Bring
  <1>7. GonePart(m)'
    <2>1. "leftover" \in spoiled'[m] =>
            Unless(m, {"overlap", "leftover", "late", "stranded"})'
      BY DEF Unless
    <2> QED
      BY <1>1, <1>2, <1>3, <2>1 DEF Fate, GonePart
  <1> QED
    BY <1>4, <1>5, <1>6, <1>7 DEF Fate

-----------------------------------------------------------------------------
(* The ring travels.                                                       *)

\* What a step of the ring does to the history: a deletion under way overlaps it.
RingEffect ==
  \A m \in Manifest :
    /\ latest'[m] = latest[m]
    /\ spoiled[m] \subseteq spoiled'[m] /\ spoiled'[m] \subseteq spoiled[m] \cup {"overlap"}

\* A step of the ring that edits nothing is steady.
LEMMA SteadyRing ==
  ASSUME RingEffect, NEW m \in Manifest,
         file'[Manager] = file[Manager], to' = to, from'[Manager] = from[Manager]
  PROVE  Steady(m)
  BY DEF RingEffect, Steady

\* A node that is told of a version asks for the ring.
LEMMA VersionFate ==
  ASSUME Flow, RingEffect, NEW m \in Manifest, Fate(m),
         NEW x \in exch["ver"], HandleVersionCommand(x)
  PROVE  Fate(m)'
  <1> DEFINE xs == IF x.version # version[x.dst] THEN {Fetch(x.dst, x.version)} ELSE {}
  <1>1. exch' = AnswerAndSend("ver", x, x, "fetch", xs) /\ UNCHANGED nodeVars
    BY DEF HandleVersionCommand
  <1>2. /\ exch'["ver"] = (exch["ver"] \ {x})
             \cup (IF Awaited("ver", x) THEN {Answered(x)} ELSE {})
        /\ exch'["fetch"] = exch["fetch"] \cup xs
        /\ \A b \in Command \ {"ver", "fetch"} : exch'[b] = exch[b]
    <2> HIDE DEF xs
    <2> QED
      BY <1>1, OrderContext, AnswerAndSendExact DEF Command
  <1>3. /\ to' = to /\ from' = from /\ file' = file /\ version' = version
        /\ store' = store /\ range' = range /\ mlist' = mlist
    BY <1>1 DEF nodeVars
  <1>4. /\ exch'["find"] = exch["find"] /\ exch'["complete"] = exch["complete"]
        /\ exch'["manifestlist"] = exch["manifestlist"]
        /\ exch'["coordination"] = exch["coordination"]
        /\ exch'["only-delete-manifest"] = exch["only-delete-manifest"]
    BY <1>2 DEF Command
  <1>5. /\ Read(m)' <=> Read(m)
        /\ Due(m)' <=> Due(m)
        /\ Doomed(m)' <=> Doomed(m)
    BY <1>3, <1>4 DEF Read, Due, Doomed, Selected
  <1>6. ToAsk => ToAsk'
    <2>1. ASSUME NEW y \in xs
          PROVE  ToAsk'
      <3>1. y \in exch'["fetch"] /\ y.stage = "interest"
        BY <1>2, <2>1 DEF Fetch
      <3> QED
        BY <3>1 DEF ToAsk
    <2>2. CASE xs = {}
      <3>1. x.version = version[x.dst] /\ exch'["fetch"] = exch["fetch"]
        BY <1>2, <2>2
      <3>2. \A y \in exch["ver"] : y # x => y \in exch'["ver"]
        BY <1>2
      <3> QED
        BY <1>3, <1>4, <3>1, <3>2 DEF ToAsk
    <2> HIDE DEF xs
    <2> QED
      BY <2>1, <2>2
  <1> QED
    BY <1>3, <1>4, <1>5, <1>6, SteadyRing, QuietFate

\* The manager answers a fetch, and has m_to coordinated.
LEMMA FetchFate ==
  ASSUME Flow, RingEffect, NEW m \in Manifest, Fate(m),
         NEW x \in exch["fetch"], HandleFetchCommand(x)
  PROVE  Fate(m)'
  <1> DEFINE add == Coordination(to, from[Manager])
             y == [x EXCEPT !.content = IF x.version = version[Manager]
                                        THEN file[Manager] ELSE <<>>]
  <1>1. exch' = AnswerAndSend("fetch", x, y, "coordination", {add}) /\ UNCHANGED nodeVars
    BY DEF HandleFetchCommand
  <1>2. /\ exch'["coordination"] = exch["coordination"] \cup {add}
        /\ \A b \in Command \ {"fetch", "coordination"} : exch'[b] = exch[b]
    <2> HIDE DEF add, y
    <2>1. /\ exch'["fetch"] = (exch["fetch"] \ {x})
               \cup (IF Awaited("fetch", x) THEN {Answered(y)} ELSE {})
          /\ exch'["coordination"] = exch["coordination"] \cup {add}
          /\ \A b \in Command \ {"fetch", "coordination"} : exch'[b] = exch[b]
      BY <1>1, OrderContext, AnswerAndSendExact DEF Command
    <2> QED
      BY <2>1
  <1>3. /\ to' = to /\ from' = from /\ file' = file
        /\ store' = store /\ range' = range /\ mlist' = mlist
    BY <1>1 DEF nodeVars
  <1>4. /\ exch'["find"] = exch["find"] /\ exch'["complete"] = exch["complete"]
        /\ exch'["manifestlist"] = exch["manifestlist"]
        /\ exch'["only-delete-manifest"] = exch["only-delete-manifest"]
    BY <1>2 DEF Command
  <1>5. /\ Read(m)' <=> Read(m)
        /\ Due(m)' <=> Due(m)
        /\ Doomed(m)' <=> Doomed(m)
    BY <1>3, <1>4 DEF Read, Due, Doomed, Selected
  <1>6. ToAsk'
    <2>1. add \in exch'["coordination"] /\ add.stage = "interest"
      BY <1>2 DEF Coordination
    <2> QED
      BY <2>1 DEF ToAsk
  <1> QED
    BY <1>3, <1>4, <1>5, <1>6, SteadyRing, QuietFate

\* A member takes the ring.
LEMMA TakeFate ==
  ASSUME Flow, RingEffect, NEW m \in Manifest, Fate(m),
         NEW x \in exch["fetch"], OnFetchCommandResponse(x)
  PROVE  Fate(m)'
  <1>1. /\ x.stage = "data" /\ x.src \in Node
        /\ exch'["fetch"] = exch["fetch"] \ {x}
        /\ \A b \in Command \ {"fetch"} : exch'[b] = exch[b]
        /\ \A n \in Node : n # x.src => version'[n] = version[n]
        /\ file'[Manager] = file[Manager]
        /\ to' = to /\ from' = from /\ store' = store /\ mlist' = mlist
        /\ exch["complete"] # {} => range'[to] = range[to]
    BY RingTaken
  <1>2. /\ exch'["find"] = exch["find"] /\ exch'["complete"] = exch["complete"]
        /\ exch'["manifestlist"] = exch["manifestlist"]
        /\ exch'["only-delete-manifest"] = exch["only-delete-manifest"]
        /\ exch'["coordination"] = exch["coordination"]
        /\ exch'["ver"] = exch["ver"]
    BY <1>1 DEF Command
  <1>3. /\ Read(m)' <=> Read(m)
        /\ Due(m)' <=> Due(m)
        /\ Doomed(m)' <=> Doomed(m)
    BY <1>1, <1>2 DEF Read, Due, Doomed, Selected
  <1>4. ToAsk => ToAsk'
    <2>1. \A y \in exch["ver"] : y.dst \in Node
      BY OrderContext, Fields
    <2>2. ASSUME NEW y \in exch["ver"], y.stage = "interest", version[y.dst] # y.version,
                 \A z \in exch["fetch"] : z.src # y.dst
          PROVE  ToAsk'
      <3>1. y.dst # x.src /\ version'[y.dst] = version[y.dst]
        BY <1>1, <2>1, <2>2
      <3>2. \A z \in exch'["fetch"] : z.src # y.dst
        BY <1>1, <2>2
      <3> QED
        BY <1>2, <2>2, <3>1, <3>2 DEF ToAsk
    <2>3. \A z \in exch["fetch"] : z.stage # "data" => z \in exch'["fetch"]
      BY <1>1
    <2> QED
      BY <1>2, <2>2, <2>3 DEF ToAsk
  <1> QED
    BY <1>1, <1>2, <1>3, <1>4, SteadyRing, QuietFate

\* m_to asks for the source's list.
LEMMA CoordinationFate ==
  ASSUME Flow, RingEffect, NEW m \in Manifest, Fate(m),
         NEW x \in exch["coordination"], HandleCoordinationCommand(x)
  PROVE  Fate(m)'
  <1> DEFINE add == ManifestListOf(x.dst, x.from)
  <1>1. /\ exch' = AnswerAndSend("coordination", x, x, "manifestlist", {add})
        /\ from' = [from EXCEPT ![x.dst] = x.from]
        /\ UNCHANGED <<config, version, file, range, to, mlist, store, budget, history>>
    BY DEF HandleCoordinationCommand
  <1>2. x.dst = to /\ to # Manager
    <2>1. x.dst = to
      BY OrderContext DEF AllProper, Proper, Command
    <2>2. to # Manager
      BY UnderWay DEF Command
    <2> QED
      BY <2>1, <2>2
  <1>3. from'[Manager] = from[Manager]
    BY <1>1, <1>2, OrderContext DEF NodeTypes
  <1>4. /\ exch'["manifestlist"] = exch["manifestlist"] \cup {add}
        /\ \A b \in Command \ {"coordination", "manifestlist"} : exch'[b] = exch[b]
    <2> HIDE DEF add
    <2>1. /\ exch'["coordination"] = (exch["coordination"] \ {x})
               \cup (IF Awaited("coordination", x) THEN {Answered(x)} ELSE {})
          /\ exch'["manifestlist"] = exch["manifestlist"] \cup {add}
          /\ \A b \in Command \ {"coordination", "manifestlist"} : exch'[b] = exch[b]
      BY <1>1, OrderContext, AnswerAndSendExact DEF Command
    <2> QED
      BY <2>1
  <1>5. add.stage = "interest"
    BY DEF ManifestListOf
  <1> HIDE DEF add
  <1>6. /\ exch'["find"] = exch["find"] /\ exch'["complete"] = exch["complete"]
        /\ exch'["only-delete-manifest"] = exch["only-delete-manifest"]
    BY <1>4 DEF Command
  <1>7. /\ Read(m)' <=> Read(m)
        /\ Due(m)' <=> Due(m)
        /\ Doomed(m)' <=> Doomed(m)
    BY <1>1, <1>4, <1>5, <1>6 DEF Read, Due, Doomed, Selected
  <1>8. ToAsk'
    BY <1>4, <1>5 DEF ToAsk
  <1> QED
    BY <1>1, <1>3, <1>6, <1>7, <1>8, SteadyRing, QuietFate

\* An answer that is only logged.
LEMMA IgnoreFate ==
  ASSUME Flow, RingEffect, NEW m \in Manifest, Fate(m),
         NEW c \in {"ver", "coordination", "only-delete-manifest"},
         NEW x \in exch[c], IgnoreResponse(c, x)
  PROVE  Fate(m)'
  <1>1. x.stage = "data" /\ exch' = Replace(c, x, {}) /\ UNCHANGED nodeVars
    BY DEF IgnoreResponse, Returning
  <1>2. exch'[c] = exch[c] \ {x} /\ \A d \in Command \ {c} : exch'[d] = exch[d]
    BY <1>1, OrderContext, ReplaceExact DEF Command
  <1>3. /\ to' = to /\ from' = from /\ file' = file /\ version' = version
        /\ store' = store /\ range' = range /\ mlist' = mlist
    BY <1>1 DEF nodeVars
  <1>4. /\ exch'["find"] = exch["find"] /\ exch'["complete"] = exch["complete"]
        /\ exch'["manifestlist"] = exch["manifestlist"] /\ exch'["fetch"] = exch["fetch"]
        /\ \A d \in {"ver", "coordination", "only-delete-manifest"} :
             \A y : y.stage # "data" => (y \in exch'[d] <=> y \in exch[d])
    BY <1>1, <1>2 DEF Command
  <1>5. /\ Read(m)' <=> Read(m)
        /\ Due(m)' <=> Due(m)
    BY <1>3, <1>4 DEF Read, Due, Selected
  <1>6. Doomed(m)' <=> Doomed(m)
    BY <1>4 DEF Doomed
  <1>7. ToAsk => ToAsk'
    BY <1>3, <1>4 DEF ToAsk
  <1> QED
    BY <1>3, <1>4, <1>5, <1>6, <1>7, SteadyRing, QuietFate

-----------------------------------------------------------------------------
(* The manifests follow.                                                   *)

\* The source lists what it stores.
LEMMA ListFate ==
  ASSUME Flow, RingEffect, NEW m \in Manifest, Fate(m), latest[m] \in {"stored", "erased"},
         NEW x \in exch["manifestlist"], HandleManifestListCommand(x)
  PROVE  Fate(m)'
  <1> DEFINE y == [x EXCEPT !.content = store[x.dst]]
  <1>1. exch' = Answer("manifestlist", x, y) /\ UNCHANGED nodeVars
        /\ x.stage \in {"interest", "late"}
    BY DEF HandleManifestListCommand, Arriving
  <1>2. /\ to \in Node \ {Manager} /\ Source \in Node \ {to} /\ x.dst = Source
    BY Mover DEF Moving
  <1>3. y.stage = x.stage /\ y.content = store[Source]
        /\ Answered(y).stage = "data" /\ Answered(y).content = store[Source]
    <2>1. x \in [src : Node, dst : Node, stage : Stage, content : SUBSET Manifest]
      BY OrderContext, Exchanges DEF AllFit, Fit, Command
    <2> QED
      BY <1>2, <2>1 DEF Answered
  <1> HIDE DEF y
  <1>4. /\ exch'["manifestlist"] = (exch["manifestlist"] \ {x})
             \cup (IF Awaited("manifestlist", x) THEN {Answered(y)} ELSE {})
        /\ \A b \in Command \ {"manifestlist"} : exch'[b] = exch[b]
    BY <1>1, OrderContext, AnswerExact DEF Command
  <1>5. Awaited("manifestlist", x) <=> x.stage = "interest"
    BY DEF Awaited, AnswerLogged
  <1>6. /\ to' = to /\ from' = from /\ file' = file /\ version' = version
        /\ store' = store /\ range' = range /\ mlist' = mlist
    BY <1>1 DEF nodeVars
  <1>7. /\ exch'["find"] = exch["find"] /\ exch'["complete"] = exch["complete"]
        /\ exch'["only-delete-manifest"] = exch["only-delete-manifest"]
        /\ exch'["ver"] = exch["ver"] /\ exch'["fetch"] = exch["fetch"]
        /\ exch'["coordination"] = exch["coordination"]
    BY <1>4 DEF Command
  <1>8. /\ Due(m)' <=> Due(m)
        /\ Doomed(m)' <=> Doomed(m)
        /\ Sought(m)' <=> Sought(m)
        /\ Brought(m)' <=> Brought(m)
        /\ Missed(m)' <=> Missed(m)
    BY <1>6, <1>7 DEF Due, Doomed, Sought, Brought, Missed, Selected
  <1>9. Read(m)' <=> Read(m) \/ (x.stage = "interest" /\ m \in store[Source])
    BY <1>1, <1>3, <1>4, <1>5 DEF Read
  <1>10. ToAsk => ToAsk' \/ x.stage = "interest"
    <2>1. \A z \in exch["manifestlist"] : z # x => z \in exch'["manifestlist"]
      BY <1>4
    <2> QED
      BY <1>6, <1>7, <2>1 DEF ToAsk
  <1>11. Steady(m)
    BY <1>6, SteadyRing
  <1>12. /\ Home(m)' = Home(m) /\ Source' = Source
         /\ latest'[m] = latest[m]
         /\ \A S : Unless(m, S) => Unless(m, S)'
         /\ "overlap" \in spoiled[m] => "overlap" \in spoiled'[m]
         /\ "crash" \in spoiled'[m] => "crash" \in spoiled[m] \/ Missed(m)
    BY <1>11, SteadyMeans
  <1>13. CrashPart(m)'
    BY <1>6, <1>8, <1>9, <1>12 DEF Fate, CrashPart
  <1>14. KeptPart(m)'
    BY <1>6, <1>8, <1>12 DEF Fate, KeptPart, Bring
  <1>15. HomePart(m)'
    BY <1>6, <1>8, <1>9, <1>10, <1>12 DEF Fate, HomePart, Bring
  <1>16. GonePart(m)'
    BY <1>2, <1>6, <1>8, <1>9, <1>10, <1>12 DEF Fate, GonePart
  <1> QED
    BY <1>13, <1>14, <1>15, <1>16 DEF Fate

\* m_to asks for all that it will have deleted: what is its own, and nothing of the
\* source's.
LEMMA AskFate ==
  ASSUME Flow, RingEffect, NEW m \in Manifest, Fate(m),
         NEW x \in exch["manifestlist"], OnManifestListCommandResponse(x)
  PROVE  Fate(m)'
  <1> DEFINE sel == Selected(to, x.content)
             fs == {Find(to, Source, k) : k \in sel}
             cs == {Complete(to)}
  <1>1. /\ x.src = to /\ from[to] = Source /\ version[to] = version[Manager]
        /\ to \in Node \ {Manager} /\ Source \in Node \ {to} /\ Directed
    BY Mover DEF Moving
  <1>2. /\ x.stage = "data"
        /\ mlist' = [mlist EXCEPT ![to] = x.content]
        /\ exch' = [Replace("manifestlist", x, {}) EXCEPT
                      !["find"] = @ \cup fs, !["complete"] = @ \cup cs]
        /\ UNCHANGED <<config, version, file, range, from, to, store>>
    BY <1>1 DEF OnManifestListCommandResponse, Returning
  <1>3. /\ \A c \in Moving \ {"manifestlist"} : exch[c] = {}
        /\ \A z \in exch["manifestlist"] : z.stage # "late" => z = x
    BY <1>2 DEF Flow, FlowInv, ListAlone
  <1> HIDE DEF fs, cs
  <1>4. /\ exch'["manifestlist"] = exch["manifestlist"] \ {x}
        /\ exch'["find"] = fs /\ exch'["complete"] = cs
        /\ exch'["only-delete-manifest"] = {}
        /\ \A b \in Command \ Moving : exch'[b] = exch[b]
    <2> DEFINE r == Replace("manifestlist", x, {})
    <2>1. /\ r = [b \in Command |-> r[b]]
          /\ r["manifestlist"] = (exch["manifestlist"] \ {x}) \cup {}
          /\ \A b \in Command \ {"manifestlist"} : r[b] = exch[b]
      BY OrderContext, ReplaceShape DEF Command
    <2>2. exch' = [r EXCEPT !["find"] = @ \cup fs, !["complete"] = @ \cup cs]
      BY <1>2
    <2> HIDE DEF r
    <2>3. /\ exch'["find"] = r["find"] \cup fs /\ exch'["complete"] = r["complete"] \cup cs
          /\ \A b \in Command \ {"find", "complete"} : exch'[b] = r[b]
      BY <2>1, <2>2 DEF Command
    <2> QED
      BY <1>3, <2>1, <2>3 DEF Moving, Command
  <1>5. /\ to' = to /\ from' = from /\ file' = file /\ version' = version
        /\ store' = store /\ range' = range /\ mlist'[to] = x.content
    BY <1>1, <1>2, OrderContext DEF NodeTypes
  <1>6. /\ exch["find"] = {} /\ exch["complete"] = {} /\ exch["only-delete-manifest"] = {}
        /\ exch'["ver"] = exch["ver"] /\ exch'["fetch"] = exch["fetch"]
        /\ exch'["coordination"] = exch["coordination"]
    BY <1>3, <1>4 DEF Moving, Command
  <1>7. /\ ~Sought(m) /\ ~Brought(m) /\ ~Missed(m) /\ ~Due(m) /\ ~Doomed(m)
    BY <1>6 DEF Sought, Brought, Missed, Due, Doomed
  <1>8. /\ ~Read(m)'
        /\ Read(m) <=> m \in x.content
    BY <1>2, <1>3, <1>4 DEF Read
  <1>9. /\ Sought(m)' <=> m \in sel
        /\ ~Brought(m)' /\ ~Missed(m)' /\ ~Doomed(m)'
        /\ Due(m)' <=> m \in sel
    <2>1. \A z \in fs : z.stage = "interest" /\ \E k \in sel : z.manifest = k
      BY DEF fs, Find
    <2>2. \A k \in sel : \E z \in fs : z.manifest = k /\ z.stage = "interest"
      <3> SUFFICES ASSUME NEW k \in sel
                   PROVE  \E z \in fs : z.manifest = k /\ z.stage = "interest"
        OBVIOUS
      <3>1. Find(to, Source, k) \in fs
        BY DEF fs
      <3>2. Find(to, Source, k).manifest = k /\ Find(to, Source, k).stage = "interest"
        BY DEF Find
      <3> QED
        BY <3>1, <3>2
    <2>3. cs # {}
      BY DEF cs
    <2>4. Selected(to, mlist[to])' = sel
      BY <1>5 DEF Selected
    <2> HIDE DEF sel
    <2> QED
      BY <1>4, <2>1, <2>2, <2>3, <2>4 DEF Sought, Brought, Missed, Doomed, Due
  <1>10. m \in sel <=> Read(m) /\ InRange(Hash[m], range[to])
    BY <1>8 DEF Selected
  <1> HIDE DEF sel
  <1>11. /\ Hash[m] >= Base /\ Home(m) = to => InRange(Hash[m], range[to])
         /\ InRange(Hash[m], range[to]) => Home(m) # Source
    BY <1>1, Selects DEF Home, OwnerAt
  <1>12. ToAsk => ToAsk'
    <2>1. \A z \in exch["manifestlist"] : z.stage = "interest" => z \in exch'["manifestlist"]
      BY <1>2, <1>4
    <2> QED
      BY <1>5, <1>6, <2>1 DEF ToAsk
  <1>13. Steady(m)
    BY <1>5, SteadyRing
  <1>14. /\ Home(m)' = Home(m) /\ Source' = Source
         /\ latest'[m] = latest[m]
         /\ \A S : Unless(m, S) => Unless(m, S)'
         /\ "overlap" \in spoiled[m] => "overlap" \in spoiled'[m]
         /\ "crash" \in spoiled'[m] => "crash" \in spoiled[m] \/ Missed(m)
    BY <1>13, SteadyMeans
  <1>15. CrashPart(m)'
    BY <1>5, <1>7, <1>8, <1>9, <1>10, <1>14 DEF Fate, CrashPart
  <1>16. KeptPart(m)'
    BY <1>5, <1>7, <1>9, <1>14 DEF Fate, KeptPart, Bring
  <1>17. HomePart(m)'
    BY <1>5, <1>7, <1>9, <1>10, <1>11, <1>12, <1>14 DEF Fate, HomePart, Bring
  <1>18. GonePart(m)'
    BY <1>5, <1>7, <1>8, <1>9, <1>10, <1>11, <1>12, <1>14 DEF Fate, GonePart
  <1> QED
    BY <1>15, <1>16, <1>17, <1>18 DEF Fate

\* The source looks for a manifest.
LEMMA FindFate ==
  ASSUME Flow, RingEffect, NEW m \in Manifest, Fate(m),
         NEW x \in exch["find"], HandleFindCommand(x)
  PROVE  Fate(m)'
  <1> DEFINE y == [x EXCEPT !.found = x.manifest \in store[x.dst]]
             hit == x.stage = "interest" /\ x.manifest = m
  <1>1. exch' = Answer("find", x, y) /\ UNCHANGED nodeVars
        /\ x.stage \in {"interest", "late"}
    BY DEF HandleFindCommand, Arriving
  <1>2. /\ to \in Node \ {Manager} /\ Source \in Node \ {to} /\ x.dst = Source
    BY Mover DEF Moving
  <1>3. /\ Answered(y).stage = "data" /\ Answered(y).manifest = x.manifest
        /\ Answered(y).found <=> x.manifest \in store[Source]
    <2>1. x \in [src : Node, dst : Node, manifest : Manifest, stage : Stage,
                 found : BOOLEAN]
      BY OrderContext, Exchanges DEF AllFit, Fit, Command
    <2> QED
      BY <1>2, <2>1 DEF Answered
  <1> HIDE DEF y
  <1>4. /\ exch'["find"] = (exch["find"] \ {x})
             \cup (IF Awaited("find", x) THEN {Answered(y)} ELSE {})
        /\ \A b \in Command \ {"find"} : exch'[b] = exch[b]
    BY <1>1, OrderContext, AnswerExact DEF Command
  <1>5. Awaited("find", x) <=> x.stage = "interest"
    BY DEF Awaited, AnswerLogged
  <1>6. /\ to' = to /\ from' = from /\ file' = file /\ version' = version
        /\ store' = store /\ range' = range /\ mlist' = mlist
    BY <1>1 DEF nodeVars
  <1>7. /\ exch'["manifestlist"] = exch["manifestlist"] /\ exch'["complete"] = exch["complete"]
        /\ exch'["only-delete-manifest"] = exch["only-delete-manifest"]
        /\ exch'["ver"] = exch["ver"] /\ exch'["fetch"] = exch["fetch"]
        /\ exch'["coordination"] = exch["coordination"]
    BY <1>4 DEF Command
  <1>8. /\ Due(m)' <=> Due(m)
        /\ Doomed(m)' <=> Doomed(m)
        /\ Read(m)' <=> Read(m)
        /\ ToAsk' <=> ToAsk
    BY <1>6, <1>7 DEF Due, Doomed, Read, Selected, ToAsk
  <1>9. /\ Brought(m)' <=> Brought(m) \/ (hit /\ m \in store[Source])
        /\ Missed(m)' <=> Missed(m) \/ (hit /\ m \notin store[Source])
        /\ Sought(m)' => Sought(m)
        /\ Sought(m) => Sought(m)' \/ hit
        /\ hit => Sought(m)
    <2>1. \A z \in exch["find"] : z.stage = "data" => z # x
      BY <1>1
    <2> QED
      BY <1>1, <1>3, <1>4, <1>5, <2>1 DEF Brought, Missed, Sought
  <1> HIDE DEF hit
  <1>10. Steady(m)
    BY <1>6, SteadyRing
  <1>11. /\ Home(m)' = Home(m) /\ Source' = Source
         /\ latest'[m] = latest[m]
         /\ \A S : Unless(m, S) => Unless(m, S)'
         /\ "overlap" \in spoiled[m] => "overlap" \in spoiled'[m]
         /\ "crash" \in spoiled'[m] => "crash" \in spoiled[m] \/ Missed(m)
    BY <1>10, SteadyMeans
  <1>12. CrashPart(m)'
    BY <1>6, <1>8, <1>9, <1>11 DEF Fate, CrashPart
  <1>13. KeptPart(m)'
    BY <1>6, <1>8, <1>9, <1>11 DEF Fate, KeptPart, Bring
  <1>14. HomePart(m)'
    BY <1>6, <1>8, <1>9, <1>11 DEF Fate, HomePart, Bring
  <1>15. GonePart(m)'
    BY <1>2, <1>6, <1>8, <1>9, <1>11 DEF Fate, GonePart
  <1> QED
    BY <1>12, <1>13, <1>14, <1>15 DEF Fate

\* m_to stores what it has asked for.
LEMMA FoundFate ==
  ASSUME Flow, RingEffect, NEW m \in Manifest, Fate(m), latest[m] \in {"stored", "erased"},
         NEW x \in exch["find"], x.found, OnManifestCommandResponse(x)
  PROVE  Fate(m)'
  <1> DEFINE here == x.manifest = m
  <1>1. x.stage = "data" /\ exch' = Replace("find", x, {})
        /\ store' = [store EXCEPT ![x.src] = @ \cup {x.manifest}]
        /\ UNCHANGED <<version, file, range, from, to, mlist>>
    BY DEF OnManifestCommandResponse, Returning
  <1>2. /\ to \in Node \ {Manager} /\ Source \in Node \ {to} /\ x.src = to
    BY Mover DEF Moving
  <1>3. exch'["find"] = exch["find"] \ {x} /\ \A b \in Command \ {"find"} : exch'[b] = exch[b]
    BY <1>1, OrderContext, ReplaceExact DEF Command
  <1>4. /\ exch'["manifestlist"] = exch["manifestlist"] /\ exch'["complete"] = exch["complete"]
        /\ exch'["only-delete-manifest"] = exch["only-delete-manifest"]
        /\ exch'["ver"] = exch["ver"] /\ exch'["fetch"] = exch["fetch"]
        /\ exch'["coordination"] = exch["coordination"]
    BY <1>3 DEF Command
  <1>5. /\ Due(m)' <=> Due(m)
        /\ Doomed(m)' <=> Doomed(m)
        /\ Read(m)' <=> Read(m)
        /\ ToAsk' <=> ToAsk
    BY <1>1, <1>4 DEF Due, Doomed, Read, Selected, ToAsk
  <1>6. /\ Sought(m)' <=> Sought(m)
        /\ Missed(m)' <=> Missed(m)
        /\ Brought(m)' => Brought(m)
        /\ Brought(m) => Brought(m)' \/ here
        /\ here => Brought(m)
    BY <1>1, <1>3 DEF Brought, Missed, Sought
  <1>7. \A n \in Node : m \in store'[n] <=> m \in store[n] \/ (n = to /\ here)
    BY <1>1, <1>2, OrderContext DEF NodeTypes
  <1> HIDE DEF here
  <1>8. Steady(m)
    BY <1>1, SteadyRing
  <1>9. /\ Home(m)' = Home(m) /\ Source' = Source /\ to' = to
        /\ latest'[m] = latest[m]
        /\ \A S : Unless(m, S) => Unless(m, S)'
        /\ "overlap" \in spoiled[m] => "overlap" \in spoiled'[m]
        /\ "crash" \in spoiled'[m] => "crash" \in spoiled[m] \/ Missed(m)
    BY <1>8, SteadyMeans
  <1>10. Home(m) \in Node
    BY Ends
  <1>11. CrashPart(m)'
    BY <1>2, <1>5, <1>6, <1>7, <1>9 DEF Fate, CrashPart
  <1>12. KeptPart(m)'
    BY <1>2, <1>5, <1>6, <1>7, <1>9 DEF Fate, KeptPart, Bring
  <1>13. HomePart(m)'
    BY <1>2, <1>5, <1>6, <1>7, <1>9, <1>10 DEF Fate, HomePart, Bring
  <1>14. GonePart(m)'
    BY <1>2, <1>5, <1>6, <1>7, <1>9, <1>10 DEF Fate, GonePart
  <1> QED
    BY <1>11, <1>12, <1>13, <1>14 DEF Fate

\* m_to tells the source to delete what it has selected.
LEMMA CompleteFate ==
  ASSUME Flow, RingEffect, NEW m \in Manifest, Fate(m),
         NEW x \in exch["complete"], OnCompleteCommandResponse(x)
  PROVE  Fate(m)'
  <1> DEFINE sel == Selected(to, mlist[to])
             ds == {DeleteManifest(to, Source, k) : k \in sel}
  <1>1. x.src = to /\ from[to] = Source
    BY Mover DEF Moving
  <1>2. /\ exch' = [Replace("complete", x, {}) EXCEPT !["only-delete-manifest"] = @ \cup ds]
        /\ UNCHANGED nodeVars
    BY <1>1 DEF OnCompleteCommandResponse
  <1> HIDE DEF ds
  <1>3. /\ exch'["complete"] = exch["complete"] \ {x}
        /\ exch'["only-delete-manifest"] = exch["only-delete-manifest"] \cup ds
        /\ \A b \in Command \ {"complete", "only-delete-manifest"} : exch'[b] = exch[b]
    <2> DEFINE r == Replace("complete", x, {})
    <2>1. /\ r = [b \in Command |-> r[b]]
          /\ r["complete"] = (exch["complete"] \ {x}) \cup {}
          /\ \A b \in Command \ {"complete"} : r[b] = exch[b]
      BY OrderContext, ReplaceShape DEF Command
    <2>2. exch' = [r EXCEPT !["only-delete-manifest"] = @ \cup ds]
      BY <1>2
    <2> HIDE DEF r
    <2>3. /\ exch'["only-delete-manifest"] = r["only-delete-manifest"] \cup ds
          /\ \A b \in Command \ {"only-delete-manifest"} : exch'[b] = r[b]
      BY <2>1, <2>2 DEF Command
    <2> QED
      BY <2>1, <2>3 DEF Command
  <1>4. /\ to' = to /\ from' = from /\ file' = file /\ version' = version
        /\ store' = store /\ range' = range /\ mlist' = mlist
    BY <1>2 DEF nodeVars
  <1>5. /\ exch'["manifestlist"] = exch["manifestlist"] /\ exch'["find"] = exch["find"]
        /\ exch'["ver"] = exch["ver"] /\ exch'["fetch"] = exch["fetch"]
        /\ exch'["coordination"] = exch["coordination"]
    BY <1>3 DEF Command
  <1>6. /\ Read(m)' <=> Read(m)
        /\ ToAsk' <=> ToAsk
    BY <1>4, <1>5 DEF Read, ToAsk
  <1>7. /\ Due(m)' => Due(m)
        /\ Doomed(m)' <=> Doomed(m) \/ Due(m)
    <2>1. Due(m) <=> m \in sel
      BY DEF Due
    <2>2. Due(m)' => m \in sel
      BY <1>4 DEF Due, Selected
    <2>3. \A z \in ds : \E k \in sel : z.manifest = k
      BY DEF ds, DeleteManifest
    <2>4. m \in sel => \E z \in ds : z.manifest = m /\ z.stage = "interest"
      <3> SUFFICES ASSUME m \in sel
                   PROVE  \E z \in ds : z.manifest = m /\ z.stage = "interest"
        OBVIOUS
      <3>1. DeleteManifest(to, Source, m) \in ds
        BY DEF ds
      <3>2. /\ DeleteManifest(to, Source, m).manifest = m
            /\ DeleteManifest(to, Source, m).stage = "interest"
        BY DEF DeleteManifest
      <3> QED
        BY <3>1, <3>2
    <2> HIDE DEF sel
    <2> QED
      BY <1>3, <2>1, <2>2, <2>3, <2>4 DEF Doomed
  <1> QED
    BY <1>4, <1>5, <1>6, <1>7, SteadyRing, QuietFate

\* The source deletes a manifest that m_to has told it to.
LEMMA DeleteFate ==
  ASSUME Flow, Orderly, RingEffect, NEW m \in Manifest, Fate(m),
         NEW x \in exch["only-delete-manifest"], HandleOnlyDeleteManifestCommand(x)
  PROVE  Fate(m)'
  <1> DEFINE here == x.manifest = m
  <1>1. x.stage \in {"interest", "late"} /\ exch' = Answer("only-delete-manifest", x, x)
        /\ store' = [store EXCEPT ![x.dst] = @ \ {x.manifest}]
        /\ UNCHANGED <<version, file, range, from, to, mlist>>
        /\ \A y \in exch["find"] : ~(y.src = x.src /\ y.manifest = x.manifest)
    BY DEF HandleOnlyDeleteManifestCommand, Arriving
  <1>2. /\ to \in Node \ {Manager} /\ Source \in Node \ {to}
        /\ x.src = to /\ x.dst = Source
        /\ \A y \in exch["find"] : y.src = to
    BY Mover DEF Moving
  <1>3. /\ exch'["only-delete-manifest"] = (exch["only-delete-manifest"] \ {x})
             \cup (IF Awaited("only-delete-manifest", x) THEN {Answered(x)} ELSE {})
        /\ \A b \in Command \ {"only-delete-manifest"} : exch'[b] = exch[b]
    BY <1>1, OrderContext, AnswerExact DEF Command
  <1>4. /\ exch'["manifestlist"] = exch["manifestlist"] /\ exch'["complete"] = exch["complete"]
        /\ exch'["find"] = exch["find"]
        /\ exch'["ver"] = exch["ver"] /\ exch'["fetch"] = exch["fetch"]
        /\ exch'["coordination"] = exch["coordination"]
    BY <1>3 DEF Command
  <1>5. /\ Due(m)' <=> Due(m)
        /\ Read(m)' <=> Read(m)
        /\ Sought(m)' <=> Sought(m)
        /\ Brought(m)' <=> Brought(m)
        /\ Missed(m)' <=> Missed(m)
        /\ ToAsk' <=> ToAsk
    BY <1>1, <1>4 DEF Due, Read, Sought, Brought, Missed, Selected, ToAsk
  <1>6. /\ Doomed(m)' => Doomed(m)
        /\ Doomed(m) => Doomed(m)' \/ here
        /\ here => Doomed(m)
    <2>1. Answered(x).stage = "data"
      BY OrderContext, StageFields DEF Answered
    <2> QED
      BY <1>1, <1>3, <2>1 DEF Doomed
  <1>7. here => ~Sought(m) /\ ~Brought(m) /\ ~Missed(m) /\ Home(m) # Source
    <2>1. here => ~Sought(m) /\ ~Brought(m) /\ ~Missed(m)
      BY <1>1, <1>2 DEF Sought, Brought, Missed
    <2>2. GetManifestStorage(file[Manager], Hash[x.manifest]) # Source
      BY OrderContext DEF AllProper, Proper, Command
    <2> QED
      BY <2>1, <2>2 DEF Home, OwnerAt
  <1>8. ~Read(m)
    BY DEF Flow, FlowInv, ListAlone, Read, Moving
  <1>9. \A n \in Node : m \in store'[n] <=> m \in store[n] /\ ~(n = Source /\ here)
    BY <1>1, <1>2, OrderContext DEF NodeTypes
  <1> HIDE DEF here
  <1>10. Steady(m)
    BY <1>1, SteadyRing
  <1>11. /\ Home(m)' = Home(m) /\ Source' = Source /\ to' = to
         /\ latest'[m] = latest[m]
         /\ \A S : Unless(m, S) => Unless(m, S)'
         /\ "overlap" \in spoiled[m] => "overlap" \in spoiled'[m]
         /\ "crash" \in spoiled'[m] => "crash" \in spoiled[m] \/ Missed(m)
    BY <1>10, SteadyMeans
  <1>12. Home(m) \in Node
    BY Ends
  <1>13. CrashPart(m)'
    BY <1>2, <1>5, <1>7, <1>8, <1>9, <1>11 DEF Fate, CrashPart
  <1>14. KeptPart(m)'
    BY <1>2, <1>5, <1>6, <1>7, <1>9, <1>11 DEF Fate, KeptPart, Bring
  <1>15. HomePart(m)'
    BY <1>2, <1>5, <1>6, <1>7, <1>8, <1>9, <1>11, <1>12 DEF Fate, HomePart, Bring
  <1>16. GonePart(m)'
    BY <1>2, <1>5, <1>6, <1>7, <1>8, <1>9, <1>11, <1>12 DEF Fate, GonePart
  <1> QED
    BY <1>13, <1>14, <1>15, <1>16 DEF Fate

-----------------------------------------------------------------------------
(* Nodes start, and the ring is edited.                                    *)

\* A node starts when nothing is under way.
LEMMA StartFate ==
  ASSUME Flow, Orderly, RingEffect, NEW m \in Manifest, Fate(m),
         NEW n \in Node, NEW f \in Node, Start(n, f)
  PROVE  Fate(m)'
  <1>1. /\ n \in Node \ {Manager} /\ Quiet
        /\ file' = [file EXCEPT ![n] = <<>>] /\ from' = [from EXCEPT ![n] = f]
        /\ exch' = [[c \in Command |-> Abandoned(c, n)] EXCEPT !["add-node"] =
                      @ \cup {Add(n, f, budget'.restarts)}]
        /\ to' = to /\ store' = store
    BY DEF Start, Boot
  <1>2. \A c \in Command \ {"add-node"} : exch[c] = {} /\ exch'[c] = {}
    <2>1. \A c \in Command \ {"add-node"} : exch'[c] = Abandoned(c, n)
      BY <1>1 DEF Command
    <2>2. \A c \in Command : exch[c] = {}
      BY <1>1 DEF Quiet
    <2>3. \A c \in Command \ {"add-node"} : Abandoned(c, n) = {}
      BY <2>2 DEF Abandoned
    <2> QED
      BY <2>1, <2>2, <2>3
  <1>3. /\ exch["manifestlist"] = {} /\ exch'["manifestlist"] = {}
        /\ exch["find"] = {} /\ exch'["find"] = {}
        /\ exch["complete"] = {} /\ exch'["complete"] = {}
        /\ exch["only-delete-manifest"] = {} /\ exch'["only-delete-manifest"] = {}
        /\ exch["ver"] = {} /\ exch["fetch"] = {} /\ exch["coordination"] = {}
    BY <1>2 DEF Command
  <1>4. /\ ~Read(m) /\ ~Read(m)'
        /\ ~Due(m) /\ ~Due(m)'
        /\ ~Doomed(m) /\ ~Doomed(m)'
        /\ ~ToAsk
    BY <1>3 DEF Read, Due, Doomed, ToAsk
  <1>5. file'[Manager] = file[Manager] /\ from'[Manager] = from[Manager]
    BY <1>1, OrderContext DEF NodeTypes
  <1> QED
    BY <1>1, <1>3, <1>4, <1>5, SteadyRing, QuietFate

\* The manager edits the ring when nothing is under way: whose keys have gone to
\* another node will be listed by it.
LEMMA EditFate ==
  ASSUME Flow, RingEffect, NEW m \in Manifest, Fate(m), Edited
  PROVE  Fate(m)'
  <1>1. /\ exch["manifestlist"] = {} /\ exch'["manifestlist"] = {}
        /\ exch["find"] = {} /\ exch'["find"] = {}
        /\ exch["complete"] = {} /\ exch'["complete"] = {}
        /\ exch["only-delete-manifest"] = {} /\ exch'["only-delete-manifest"] = {}
        /\ exch["ver"] = {} /\ exch["fetch"] = {} /\ exch["coordination"] = {}
        /\ exch'["fetch"] = {}
    BY DEF Edited, Still, Command
  <1>2. /\ ~Read(m) /\ ~Read(m)' /\ ~Due(m) /\ ~Due(m)' /\ ~Doomed(m) /\ ~Doomed(m)'
        /\ ~Sought(m) /\ ~Sought(m)' /\ ~Brought(m) /\ ~Brought(m)' /\ ~Missed(m)'
        /\ ~Missed(m) /\ ~ToAsk
    BY <1>1 DEF Read, Due, Doomed, Sought, Brought, Missed, ToAsk
  <1>3. ToAsk'
    BY <1>1 DEF Edited, ToAsk
  <1>4. \/ Home(m)' = Home(m)
        \/ Home(m)' = to' /\ Home(m) = Source'
    <2>1. Hash[m] \in Key
      BY OrderContext
    <2> QED
      BY <2>1 DEF Edited, Handed, Home, OwnerAt, Source
  <1>5. /\ latest'[m] = latest[m] /\ store' = store
        /\ "overlap" \in spoiled[m] => "overlap" \in spoiled'[m]
        /\ "crash" \in spoiled'[m] => "crash" \in spoiled[m]
    BY DEF RingEffect, Edited
  <1>6. \A S : Unless(m, S) => Unless(m, S)'
    BY DEF RingEffect, Unless
  <1>7. CrashPart(m)'
    BY <1>2, <1>5 DEF Fate, CrashPart
  <1>8. KeptPart(m)'
    BY <1>2, <1>5, <1>6 DEF Fate, KeptPart
  <1>9. HomePart(m)'
    BY <1>2, <1>3, <1>4, <1>5, <1>6 DEF Fate, HomePart
  <1>10. GonePart(m)'
    BY <1>2, <1>3, <1>4, <1>5, <1>6 DEF Fate, GonePart
  <1> QED
    BY <1>7, <1>8, <1>9, <1>10 DEF Fate

-----------------------------------------------------------------------------
(* Interests are lost, and processes end.                                  *)

\* What the loss of a completion or of a delete does to the exchanges.
LEMMA LoseMeans ==
  ASSUME Flow, NEW c \in {"complete", "only-delete-manifest"}, NEW x \in exch[c], Lose(c, x)
  PROVE  /\ c \in Command \ {"add-node", "manifestlist", "find"} /\ c \in Moving
         /\ exch' = Replace(c, x, {}) /\ exch'[c] = exch[c] \ {x}
         /\ \A d \in Command \ {c} : exch'[d] = exch[d]
         /\ UNCHANGED <<nodeVars, budget, history>>
         /\ x.src = to /\ Directed /\ exch["add-node"] = {}
  <1>1. c \in Command \ {"add-node", "manifestlist", "find"} /\ c \in Moving /\ c \in Command
    BY DEF Command, Moving
  <1>2. exch' = Replace(c, x, {}) /\ UNCHANGED <<nodeVars, budget, history>>
    BY DEF Lose
  <1>3. exch'[c] = (exch[c] \ {x}) \cup {} /\ \A d \in Command \ {c} : exch'[d] = exch[d]
    BY <1>1, <1>2, OrderContext, ReplaceExact
  <1>4. x.src = to /\ Directed /\ exch["add-node"] = {}
    BY <1>1, Mover
  <1> QED
    BY <1>1, <1>2, <1>3, <1>4

\* It leaves the ring and the other exchanges in order.
LEMMA LoseFlow ==
  ASSUME Flow, NEW c \in {"complete", "only-delete-manifest"}, NEW x \in exch[c], Lose(c, x)
  PROVE  Flow'
  <1>1. /\ c \in Command \ {"add-node", "manifestlist", "find"} /\ c \in Moving
        /\ exch' = Replace(c, x, {}) /\ exch'[c] = exch[c] \ {x}
        /\ \A d \in Command \ {c} : exch'[d] = exch[d]
        /\ UNCHANGED <<nodeVars, budget, history>>
        /\ x.src = to /\ Directed /\ exch["add-node"] = {}
    BY LoseMeans
  <1>2. /\ exch'["add-node"] = exch["add-node"] /\ exch'["ver"] = exch["ver"]
        /\ exch'["fetch"] = exch["fetch"] /\ exch'["coordination"] = exch["coordination"]
        /\ exch'["manifestlist"] = exch["manifestlist"]
    BY <1>1 DEF Command
  <1>3. IInv'
    <2>1. exch' = [d \in Command |-> exch'[d]]
      BY <1>1, OrderContext, ReplaceShape DEF Command
    <2>2. UNCHANGED <<version, file, published>>
      BY <1>1 DEF nodeVars, history
    <2> QED
      BY <1>2, <2>1, <2>2, FrameExch DEF Flow
  <1>4. TypeInv'
    <2>1. AllFit(exch')
      <3>1. AllFit(Replace(c, x, {}))
        BY <1>1, OrderContext, ReplaceFits DEF Command
      <3> QED
        BY <1>1, <3>1
    <2>2. to # NoNode
      BY <1>1, UnderWay, NoNodeAssumption
    <2>3. UNCHANGED <<nodeVars, published, asked>> /\ budget' = budget /\ excused' = excused
      BY <1>1 DEF history
    <2>4. /\ budget' \in [timeouts : 0 .. MaxTimeouts, restarts : 0 .. MaxRestarts]
          /\ excused' \in SUBSET Manifest
      BY <2>3 DEF Flow, TypeInv, NodeTypes
    <2> QED
      BY <2>1, <2>2, <2>3, <2>4, ExchStepTypes DEF Flow
  <1>5. FlowInv'
    <2>1. \A d \in Command : \A z \in exch'[d] : z \in exch[d]
      BY <1>1
    <2>2. \A n \in Members(file[Manager]) \ {Manager} : Told(n) => Told(n)'
      BY <1>1, <1>2, ToldStays DEF nodeVars
    <2>3. ListAlone'
      <3>1. \A d \in Moving : exch[d] = {} => exch'[d] = {}
        BY <2>1 DEF Moving, Command
      <3> QED
        BY <1>2, <3>1 DEF Flow, FlowInv, ListAlone
    <2> QED
      BY <1>1, <1>2, <2>1, <2>2, <2>3, QuietNodes
  <1> QED
    BY <1>3, <1>4, <1>5 DEF Flow

\* What is lost is left over.
LEMMA LoseFate ==
  ASSUME Flow, NEW c \in {"complete", "only-delete-manifest"}, NEW x \in exch[c], Lose(c, x),
         NEW m \in Manifest, Fate(m)
  PROVE  Fate(m)'
  <1>1. /\ c \in Command \ {"add-node", "manifestlist", "find"} /\ c \in Moving
        /\ exch' = Replace(c, x, {}) /\ exch'[c] = exch[c] \ {x}
        /\ \A d \in Command \ {c} : exch'[d] = exch[d]
        /\ UNCHANGED <<nodeVars, budget, history>>
        /\ x.src = to /\ Directed /\ exch["add-node"] = {}
    BY LoseMeans
  <1>2. /\ exch'["find"] = exch["find"] /\ exch'["ver"] = exch["ver"]
        /\ exch'["fetch"] = exch["fetch"] /\ exch'["coordination"] = exch["coordination"]
        /\ exch'["manifestlist"] = exch["manifestlist"]
    BY <1>1 DEF Command
  <1>3. /\ to' = to /\ from' = from /\ file' = file /\ version' = version
        /\ store' = store /\ range' = range /\ mlist' = mlist
    BY <1>1 DEF nodeVars
  <1>4. /\ latest'[m] = latest[m]
        /\ spoiled[m] \subseteq spoiled'[m]
        /\ "crash" \in spoiled'[m] => "crash" \in spoiled[m]
        /\ m \in LeftBy(c, x) => "leftover" \in spoiled'[m]
    BY DEF Lose
  <1>5. Steady(m)
    BY <1>3, <1>4 DEF Steady
  <1>6. /\ Read(m)' <=> Read(m)
        /\ ToAsk' <=> ToAsk
    BY <1>2, <1>3 DEF Read, ToAsk
  <1>7. /\ Due(m)' => Due(m)
        /\ Doomed(m)' => Doomed(m)
    BY <1>1, <1>3 DEF Due, Doomed, Selected, Command
  <1>8. Due(m) => Due(m)' \/ "leftover" \in spoiled'[m]
    <2>1. CASE c = "complete"
      <3>1. LeftBy(c, x) = Selected(to, mlist[to])
        BY <1>1, <2>1 DEF LeftBy
      <3> QED
        BY <1>4, <3>1 DEF Due
    <2>2. CASE c # "complete"
      <3>1. exch'["complete"] = exch["complete"]
        BY <1>1, <2>2 DEF Command
      <3> QED
        BY <1>3, <3>1 DEF Due, Selected
    <2> QED
      BY <2>1, <2>2
  <1>9. Doomed(m) => Doomed(m)' \/ "leftover" \in spoiled'[m]
    <2>1. CASE c = "only-delete-manifest"
      <3>1. m = x.manifest => m \in LeftBy(c, x)
        BY <2>1 DEF LeftBy
      <3> QED
        BY <1>1, <1>4, <2>1, <3>1 DEF Doomed
    <2>2. CASE c # "only-delete-manifest"
      <3>1. exch'["only-delete-manifest"] = exch["only-delete-manifest"]
        BY <1>1, <2>2 DEF Command
      <3> QED
        BY <3>1 DEF Doomed
    <2> QED
      BY <2>1, <2>2
  <1> QED
    BY <1>2, <1>3, <1>5, <1>6, <1>7, <1>8, <1>9, QuietFate

\* What the end of m_to's process does to the exchanges: what it has asked for is late.
LEMMA CrashMeans ==
  ASSUME Flow, NEW x \in exch["find"], Crash(x)
  PROVE  /\ x.stage = "data" /\ ~x.found
         /\ to \in Node \ {Manager} /\ Source \in Node \ {to} /\ Directed
         /\ exch["add-node"] = {} /\ version[to] = version[Manager]
         /\ config' = [config EXCEPT ![to] = NoNode]
         /\ UNCHANGED <<version, file, range, from, to, mlist, store, budget, history, latest>>
         /\ exch' = [c \in Command |-> exch'[c]]
         /\ exch'["add-node"] = {} /\ exch'["complete"] = {}
         /\ exch'["ver"] = exch["ver"] /\ exch'["coordination"] = exch["coordination"]
         /\ \A y \in exch["fetch"] : y.src # to => y \in exch'["fetch"]
         /\ \A y \in exch["fetch"] : y.src = to /\ y.stage # "data" =>
              Delayed(y) \in exch'["fetch"]
         /\ \A z \in exch'["fetch"] :
              \E y \in exch["fetch"] : z = y \/ (y.stage # "data" /\ z = Delayed(y))
         /\ \A c \in Moving \ {"complete"} :
              exch'[c] = {Delayed(y) : y \in {z \in exch[c] : z.stage # "data"}}
  <1>1. /\ x.stage = "data" /\ ~x.found
        /\ config' = [config EXCEPT ![x.src] = NoNode]
        /\ exch' = [c \in Command |-> Abandoned(c, x.src)]
        /\ UNCHANGED <<version, file, range, from, to, mlist, store, budget, history, latest>>
    BY DEF Crash, Returning
  <1>2. /\ x.src = to /\ to \in Node \ {Manager} /\ Source \in Node \ {to} /\ Directed
        /\ exch["add-node"] = {} /\ version[to] = version[Manager]
    BY Mover DEF Moving
  <1>3. \A c \in Command : exch'[c] = Abandoned(c, to)
    BY <1>1, <1>2
  <1>4. /\ Abandoned("add-node", to) = exch["add-node"]
        /\ Abandoned("ver", to) = exch["ver"]
        /\ Abandoned("coordination", to) = exch["coordination"]
    BY DEF Abandoned
  <1>5. ASSUME NEW c \in Moving
        PROVE  Abandoned(c, to) = IF c = "complete" THEN {}
                 ELSE {Delayed(y) : y \in {z \in exch[c] : z.stage # "data"}}
    <2>1. \A y \in exch[c] : y.src = to
      BY Mover
    <2>2. c \notin {"add-node", "ver", "coordination"}
      BY DEF Moving
    <2>3. {y \in exch[c] : y.src = to} = exch[c]
      BY <2>1
    <2> QED
      BY <2>2, <2>3 DEF Abandoned, Delayed
  <1>6. /\ \A y \in exch["fetch"] : y.src # to => y \in Abandoned("fetch", to)
        /\ \A y \in exch["fetch"] : y.src = to /\ y.stage # "data" =>
             Delayed(y) \in Abandoned("fetch", to)
        /\ \A z \in Abandoned("fetch", to) :
             \E y \in exch["fetch"] : z = y \/ (y.stage # "data" /\ z = Delayed(y))
    BY DEF Abandoned, Delayed
  <1>7. "complete" \in Moving /\ Moving \subseteq Command
    BY DEF Moving, Command
  <1>8. exch'["fetch"] = Abandoned("fetch", to)
    BY <1>3 DEF Command
  <1>9. /\ exch'["add-node"] = {} /\ exch'["ver"] = exch["ver"]
        /\ exch'["coordination"] = exch["coordination"]
    BY <1>2, <1>3, <1>4 DEF Command
  <1>10. exch'["complete"] = {}
    BY <1>3, <1>5, <1>7
  <1>11. \A c \in Moving \ {"complete"} :
           exch'[c] = {Delayed(y) : y \in {z \in exch[c] : z.stage # "data"}}
    BY <1>3, <1>5, <1>7
  <1>12. exch' = [c \in Command |-> exch'[c]]
    BY <1>1
  <1> QED
    BY <1>1, <1>2, <1>6, <1>8, <1>9, <1>10, <1>11, <1>12

\* It leaves the ring and the other exchanges in order.
LEMMA CrashFlow ==
  ASSUME Flow, NEW x \in exch["find"], Crash(x)
  PROVE  Flow'
  <1>1. /\ to \in Node \ {Manager} /\ Directed
        /\ exch["add-node"] = {} /\ version[to] = version[Manager]
        /\ config' = [config EXCEPT ![to] = NoNode]
        /\ UNCHANGED <<version, file, range, from, to, mlist, store, budget, history>>
        /\ exch' = [c \in Command |-> exch'[c]]
        /\ exch'["add-node"] = {} /\ exch'["complete"] = {}
        /\ exch'["ver"] = exch["ver"] /\ exch'["coordination"] = exch["coordination"]
        /\ \A y \in exch["fetch"] : y.src # to => y \in exch'["fetch"]
        /\ \A z \in exch'["fetch"] :
             \E y \in exch["fetch"] : z = y \/ (y.stage # "data" /\ z = Delayed(y))
        /\ \A c \in Moving \ {"complete"} :
             exch'[c] = {Delayed(y) : y \in {z \in exch[c] : z.stage # "data"}}
    BY CrashMeans
  <1>2. ASSUME NEW c \in Command, NEW z \in exch'[c]
        PROVE  z \in exch[c] \/ (c \in Staged /\ \E y \in exch[c] : z = Delayed(y))
    <2>1. CASE c \in {"add-node", "complete", "ver", "coordination"}
      BY <1>1, <1>2, <2>1
    <2>2. CASE c = "fetch"
      BY <1>1, <1>2, <2>2 DEF Staged
    <2>3. CASE c \in Moving \ {"complete"}
      <3>1. PICK y \in {w \in exch[c] : w.stage # "data"} : z = Delayed(y)
        BY <1>1, <1>2, <2>3
      <3>2. c \in Staged
        BY <2>3 DEF Staged, Moving, Command
      <3> QED
        BY <3>1, <3>2
    <2> QED
      BY <2>1, <2>2, <2>3 DEF Moving, Command
  <1>3. IInv'
    <2>1. \A z \in exch'["fetch"] : FetchOK(z)
      <3>1. ASSUME NEW y \in exch["fetch"]
            PROVE  FetchOK(y) /\ FetchOK(Delayed(y))
        <4>1. FetchOK(y)
          BY DEF Flow, IInv, ExchInv
        <4> QED
          BY <4>1 DEF FetchOK, Stage, Delayed
      <3> QED
        BY <1>1, <3>1
    <2>2. /\ \A z \in exch'["add-node"] : AddOK(z)
          /\ \A z \in exch'["ver"] : VerOK(z)
      BY <1>1 DEF Flow, IInv, ExchInv
    <2>3. UNCHANGED <<version, file, published>>
      BY <1>1 DEF history
    <2> QED
      BY <1>1, <2>1, <2>2, <2>3, Frame DEF Flow
  <1>4. TypeInv'
    <2>1. AllFit(exch')
      <3>1. ASSUME NEW c \in Staged, NEW y \in exch[c]
            PROVE  Fit(c, Delayed(y))
        BY OrderContext, StageFits DEF AllFit, Stage, Delayed
      <3>2. \A c \in Command : \A z \in exch'[c] : Fit(c, z)
        BY <1>2, <3>1, OrderContext DEF AllFit
      <3> QED
        BY <1>1, <3>2 DEF AllFit
    <2>2. AllFit(exch)'
      BY <1>1, <2>1, FitStays
    <2>3. NodeTypes'
      BY <1>1, OrderContext DEF NodeTypes, history
    <2>4. LeadInv'
      BY <1>1, ManagerAssumption DEF LeadInv, Directed, Source
    <2>5. BoundInv'
      BY <1>1 DEF Flow, TypeInv, BoundInv, history
    <2> QED
      BY <2>2, <2>3, <2>4, <2>5 DEF TypeInv
  <1>5. FlowInv'
    <2>1. \A c \in Command : \A z \in exch'[c] : Proper(c, z)'
      <3>1. \A c \in Command : \A z \in exch[c] : Proper(c, z)
        BY OrderContext DEF AllProper
      <3>2. \A c \in Staged : \A y \in exch[c] : Proper(c, Delayed(y))
        BY <3>1, OrderContext, LateProper
      <3>3. \A c \in Command : \A z \in exch'[c] : Proper(c, z)
        BY <1>2, <3>1, <3>2
      <3>4. \A c, z : Proper(c, z) => Proper(c, z)'
        BY <1>1, ProperStays
      <3> QED
        BY <3>3, <3>4
    <2>2. \A n \in Members(file[Manager]) \ {Manager} : Told(n) => Told(n)'
      <3>1. ASSUME NEW n, n # to, Learning(n)
            PROVE  Learning(n)'
        BY <1>1, <3>1 DEF Learning
      <3> QED
        BY <1>1, <3>1 DEF Told
    <2>3. RangeKnown'
      BY <1>1 DEF Flow, FlowInv, EndsOrder, RangeKnown
    <2>4. ListAlone'
      <3>1. \A z \in exch'["manifestlist"] : z.stage = "late"
        <4>1. \A y \in exch["manifestlist"] : Delayed(y).stage = "late"
          BY OrderContext, StageFields DEF Delayed
        <4>2. exch'["manifestlist"] =
                {Delayed(y) : y \in {z \in exch["manifestlist"] : z.stage # "data"}}
          BY <1>1 DEF Moving
        <4> QED
          BY <4>1, <4>2
      <3> QED
        BY <3>1 DEF ListAlone
    <2> QED
      BY <1>1, <2>1, <2>2, <2>3, <2>4, Onward
  <1> QED
    BY <1>3, <1>4, <1>5 DEF Flow

\* What the process had not stored, or not had deleted, is stranded.
LEMMA CrashFate ==
  ASSUME Flow, NEW x \in exch["find"], Crash(x), NEW m \in Manifest, Fate(m)
  PROVE  Fate(m)'
  <1>1. /\ x.stage = "data" /\ ~x.found
        /\ to \in Node \ {Manager} /\ Source \in Node \ {to} /\ Directed
        /\ UNCHANGED <<version, file, range, from, to, mlist, store, latest>>
        /\ exch'["complete"] = {}
        /\ exch'["ver"] = exch["ver"] /\ exch'["coordination"] = exch["coordination"]
        /\ \A y \in exch["fetch"] : y.src # to => y \in exch'["fetch"]
        /\ \A y \in exch["fetch"] : y.src = to /\ y.stage # "data" =>
             Delayed(y) \in exch'["fetch"]
        /\ \A z \in exch'["fetch"] :
             \E y \in exch["fetch"] : z = y \/ (y.stage # "data" /\ z = Delayed(y))
        /\ \A c \in Moving \ {"complete"} :
             exch'[c] = {Delayed(y) : y \in {z \in exch[c] : z.stage # "data"}}
    BY CrashMeans
  <1>2. /\ exch'["manifestlist"] =
             {Delayed(y) : y \in {z \in exch["manifestlist"] : z.stage # "data"}}
        /\ exch'["find"] = {Delayed(y) : y \in {z \in exch["find"] : z.stage # "data"}}
        /\ exch'["only-delete-manifest"] =
             {Delayed(y) : y \in {z \in exch["only-delete-manifest"] : z.stage # "data"}}
    BY <1>1 DEF Moving
  <1>3. /\ \A y \in exch["manifestlist"] : Delayed(y).stage = "late"
        /\ \A y \in exch["find"] : Delayed(y).stage = "late"
        /\ \A y \in exch["only-delete-manifest"] :
             Delayed(y).stage = "late" /\ Delayed(y).manifest = y.manifest
        /\ \A y \in exch["fetch"] : Delayed(y).stage = "late" /\ Delayed(y).src = y.src
    BY OrderContext, StageFields DEF Delayed
  <1>4. /\ \A z \in exch'["manifestlist"] : z.stage = "late"
        /\ \A z \in exch'["find"] : z.stage = "late"
    BY <1>2, <1>3
  <1>5. /\ ~Read(m)' /\ ~Sought(m)' /\ ~Brought(m)' /\ ~Missed(m)' /\ ~Due(m)'
    BY <1>1, <1>4 DEF Read, Sought, Brought, Missed, Due
  <1>6. \A y \in exch["manifestlist"] : y.stage = "late"
    BY DEF Flow, FlowInv, ListAlone, Moving
  <1>7. Doomed(m)' <=> Doomed(m)
    BY <1>2, <1>3 DEF Doomed
  <1>8. ToAsk => ToAsk'
    <2>1. ASSUME NEW y \in exch["fetch"], y.stage # "data"
          PROVE  ToAsk'
      BY <1>1, <1>3, <2>1 DEF ToAsk
    <2>2. ASSUME NEW y \in exch["ver"], y.stage = "interest", version[y.dst] # y.version,
                 \A z \in exch["fetch"] : z.src # y.dst
          PROVE  ToAsk'
      <3>1. \A z \in exch'["fetch"] : z.src # y.dst
        BY <1>1, <1>3, <2>2
      <3> QED
        BY <1>1, <2>2, <3>1 DEF ToAsk
    <2>3. (\E y \in exch["coordination"] : y.stage = "interest") => ToAsk'
      BY <1>1 DEF ToAsk
    <2>4. \A y \in exch["manifestlist"] : y.stage # "interest"
      BY <1>6
    <2> QED
      BY <2>1, <2>2, <2>3, <2>4 DEF ToAsk
  <1>9. /\ spoiled[m] \subseteq spoiled'[m]
        /\ "crash" \in spoiled'[m] => "crash" \in spoiled[m] \/ m = x.manifest
        /\ m \in HalfMoved(x.src) => "stranded" \in spoiled'[m]
    BY DEF Crash
  <1>10. x.src = to /\ \A y \in exch["find"] : y.src = to
    BY Mover DEF Moving
  <1>11. m = x.manifest => Missed(m)
    BY <1>1 DEF Missed
  <1>12. Steady(m)
    BY <1>1, <1>9, <1>11 DEF Steady
  <1>13. Sought(m) \/ Brought(m) \/ Due(m) => "stranded" \in spoiled'[m]
    <2>1. \A y \in exch["find"] : y.manifest \in HalfMoved(to)
      BY <1>10 DEF HalfMoved
    <2>2. Due(m) => m \in HalfMoved(to)
      <3>1. ASSUME NEW y \in exch["complete"]
            PROVE  y.src = to /\ LeftBy("complete", y) = Selected(to, mlist[to])
        <4>1. y.src = to
          BY Mover DEF Moving
        <4> QED
          BY <4>1 DEF LeftBy
      <3> QED
        BY <3>1 DEF HalfMoved, Due
    <2> QED
      BY <1>9, <1>10, <2>1, <2>2 DEF Sought, Brought
  <1>14. "stranded" \in spoiled'[m] =>
           \A S : "stranded" \in S => Unless(m, S)'
    BY DEF Unless
  <1>15. /\ Home(m)' = Home(m) /\ Source' = Source /\ to' = to
         /\ latest'[m] = latest[m] /\ store' = store
         /\ \A S : Unless(m, S) => Unless(m, S)'
         /\ "overlap" \in spoiled[m] => "overlap" \in spoiled'[m]
         /\ "crash" \in spoiled'[m] => "crash" \in spoiled[m] \/ Missed(m)
    BY <1>1, <1>12, SteadyMeans
  <1>16. CrashPart(m)'
    BY <1>5, <1>15 DEF Fate, CrashPart
  <1>17. KeptPart(m)'
    <2>1. Unless(m, {"listed", "stranded"})' \/
            (~Unless(m, {"listed", "stranded"}) /\ ~Sought(m) /\ ~Brought(m))
      BY <1>13, <1>14, <1>15
    <2> QED
      BY <1>5, <1>7, <1>15, <2>1 DEF Fate, KeptPart, Bring
  <1>18. HomePart(m)'
    <2>1. Unless(m, {"late", "listed", "stranded"})' \/
            (~Unless(m, {"late", "listed", "stranded"}) /\ ~Sought(m) /\ ~Brought(m))
      BY <1>13, <1>14, <1>15
    <2>2. ~Read(m)
      BY <1>6 DEF Read
    <2> QED
      BY <1>5, <1>7, <1>8, <1>15, <2>1, <2>2 DEF Fate, HomePart, Bring
  <1>19. GonePart(m)'
    <2>1. Unless(m, {"overlap", "leftover", "late", "stranded"})' \/
            (~Unless(m, {"overlap", "leftover", "late", "stranded"}) /\ ~Due(m))
      BY <1>13, <1>14, <1>15
    <2>2. ~Read(m)
      BY <1>6 DEF Read
    <2> QED
      BY <1>5, <1>7, <1>8, <1>15, <2>1, <2>2 DEF Fate, GonePart
  <1> QED
    BY <1>16, <1>17, <1>18, <1>19 DEF Fate

-----------------------------------------------------------------------------
(* Clients' requests write to the disks.                                   *)

\* A write leaves the ring and the exchanges in order.
LEMMA WriteFlow ==
  ASSUME Flow, store' \in [Node -> SUBSET Manifest],
         UNCHANGED <<config, version, file, range, from, to, mlist, exch, budget, history>>
  PROVE  Flow'
  <1>1. IInv'
    BY OrderContext, FrameExch DEF Flow, ExchInv, history
  <1>2. TypeInv'
    <2>1. AllFit(exch)'
      <3>1. AllFit(exch')
        BY OrderContext
      <3> QED
        BY <3>1, FitStays
    <2>2. NodeTypes'
      BY OrderContext DEF NodeTypes, history
    <2>3. LeadInv' /\ BoundInv'
      BY DEF Flow, TypeInv, LeadInv, BoundInv, history
    <2> QED
      BY <2>1, <2>2, <2>3 DEF TypeInv
  <1>3. FlowInv'
    BY FlowStays DEF Flow
  <1> QED
    BY <1>1, <1>2, <1>3 DEF Flow

\* The manifest of another name is not touched.
LEMMA WriteElsewhere ==
  ASSUME Flow, NEW m \in Manifest, Fate(m),
         UNCHANGED <<version, file, range, from, to, mlist, exch>>,
         \A n \in Node : m \in store'[n] <=> m \in store[n],
         latest'[m] = latest[m], spoiled'[m] = spoiled[m]
  PROVE  Fate(m)'
  <1>1. Steady(m)
    BY DEF Steady
  <1>2. /\ Read(m)' <=> Read(m)
        /\ ToAsk' <=> ToAsk
        /\ Due(m)' <=> Due(m)
        /\ Doomed(m)' <=> Doomed(m)
    BY DEF Read, ToAsk, Due, Doomed, Selected
  <1> QED
    BY <1>1, <1>2, QuietFate

\* A put that is not late stores the manifest at its home, or at the source before
\* the source is asked for its list.
LEMMA InTime ==
  ASSUME Flow, NEW m \in Manifest, PutPart(m), put[m] # NoRequest, ~Late(m)
  PROVE  \/ put[m].dst = Home(m)
         \/ put[m].dst = Source /\ Home(m) = to /\ ToAsk
  <1>1. /\ put[m].dst = GetManifestStorage(published[put[m].ring], Hash[m])
        /\ \/ put[m].ring = version[Manager]
           \/ put[m].dst = OwnerAt(Manager, m)
           \/ ListToCome(put[m].dst, m)
    BY DEF PutPart, PutFits, Late
  <1>2. CASE put[m].ring = version[Manager]
    <2>1. Manager \in Node /\ version[Manager] # Unset
      BY OrderContext DEF Unset
    <2>2. file[Manager] = published[version[Manager]]
      BY <2>1 DEF Flow, IInv, NodeInv, VersionNamesRing
    <2> QED
      BY <1>1, <1>2, <2>2 DEF Home, OwnerAt
  <1>3. CASE put[m].dst = OwnerAt(Manager, m)
    BY <1>3 DEF Home
  <1>4. CASE ListToCome(put[m].dst, m)
    <2>1. \A x \in exch["manifestlist"] : x.src = to /\ x.dst = Source
      BY Mover DEF Moving
    <2>2. \A x \in exch["coordination"] : x.dst = to /\ x.from = Source
      BY OrderContext DEF AllProper, Proper, Command
    <2> QED
      BY <1>4, <2>1, <2>2 DEF ListToCome, ToAsk, Home, Source
  <1> QED
    BY <1>1, <1>2, <1>3, <1>4

\* What a list on its way has, and what is to be deleted, the source has listed.
LEMMA ListedMeans ==
  ASSUME Flow, NEW m \in Manifest, Read(m) \/ Due(m) \/ Doomed(m)
  PROVE  Listed(Source, m)
  <1>1. CASE Read(m)
    <2>1. \A x \in exch["manifestlist"] : x.dst = Source
      BY Mover DEF Moving
    <2> QED
      BY <1>1, <2>1 DEF Read, Listed
  <1>2. CASE Due(m)
    <2>1. \A x \in exch["complete"] : x.src = to /\ from[to] = Source
      BY Mover DEF Moving
    <2> QED
      BY <1>2, <2>1 DEF Due, Selected, Listed
  <1>3. CASE Doomed(m)
    <2>1. \A x \in exch["only-delete-manifest"] : x.dst = Source
      BY Mover DEF Moving
    <2> QED
      BY <1>3, <2>1 DEF Doomed, Listed
  <1> QED
    BY <1>1, <1>2, <1>3

\* The manifest is stored: at its home, unless the put was late, and not at a source
\* that has listed it, unless that is recorded.
LEMMA StoredFate ==
  ASSUME Flow, NEW m \in Manifest, Fate(m), PutPart(m),
         latest \in [Manifest -> {"stored", "erased"}],
         spoiled \in [Manifest -> SUBSET Cause], OnManifestValidated(m),
         UNCHANGED <<version, file, range, from, to, mlist, exch>>
  PROVE  Fate(m)'
  <1> DEFINE d == put[m].dst
  <1>1. /\ put[m] # NoRequest /\ d \in Node
        /\ store' = [store EXCEPT ![d] = @ \cup {m}]
        /\ latest'[m] = "stored"
        /\ spoiled'[m] = spoiled[m] \cup (IF Late(m) THEN {"late"} ELSE {})
                                    \cup (IF Listed(d, m) THEN {"listed"} ELSE {})
    BY DEF OnManifestValidated, Spoil
  <1>2. \A n \in Node : m \in store'[n] <=> m \in store[n] \/ n = d
    BY <1>1, OrderContext DEF NodeTypes
  <1>3. /\ Home(m)' = Home(m) /\ Source' = Source /\ to' = to
        /\ Read(m)' <=> Read(m)
        /\ Sought(m)' <=> Sought(m)
        /\ Brought(m)' <=> Brought(m)
        /\ Missed(m)' <=> Missed(m)
        /\ Due(m)' <=> Due(m)
        /\ Doomed(m)' <=> Doomed(m)
        /\ ToAsk' <=> ToAsk
    BY DEF Home, OwnerAt, Source, Read, Sought, Brought, Missed, Due, Doomed, ToAsk, Selected
  <1>4. \/ Late(m)
        \/ d = Home(m)
        \/ d = Source /\ Home(m) = to /\ ToAsk
    BY <1>1, InTime
  <1>5. d = Source /\ (Read(m) \/ Due(m) \/ Doomed(m)) => Listed(d, m)
    BY ListedMeans
  <1>6. /\ \A S : Unless(m, S) => Unless(m, S)'
        /\ Late(m) => \A S : "late" \in S => Unless(m, S)'
        /\ Listed(d, m) => \A S : "listed" \in S => Unless(m, S)'
        /\ "overlap" \in spoiled[m] => "overlap" \in spoiled'[m]
        /\ "crash" \in spoiled'[m] => "crash" \in spoiled[m]
    BY <1>1 DEF Unless
  <1>7. /\ Home(m) \in Node
        /\ \/ Read(m) \/ Sought(m) \/ Brought(m) \/ Missed(m) \/ Due(m) \/ Doomed(m)
           \/ Home(m) = to
           => to \in Node /\ Source \in Node
    BY Ends
  <1>8. latest[m] = "stored" \/ latest[m] = "erased"
    OBVIOUS
  <1>9. d \in Node
    BY <1>1
  <1> HIDE DEF d
  <1>10. CrashPart(m)'
    BY <1>2, <1>3, <1>6, <1>7 DEF Fate, CrashPart
  <1>11. KeptPart(m)'
    <2>1. Listed(d, m) => Unless(m, {"listed", "stranded"})'
      BY <1>6
    <2> QED
      BY <1>2, <1>3, <1>5, <1>7, <1>9, <2>1 DEF KeptPart
  <1>12. HomePart(m)'
    <2>1. /\ Listed(d, m) => Unless(m, {"late", "listed", "stranded"})'
          /\ Late(m) => Unless(m, {"late", "listed", "stranded"})'
      BY <1>6
    <2> QED
      BY <1>2, <1>3, <1>4, <1>5, <1>7, <1>9, <2>1 DEF HomePart
  <1>13. GonePart(m)'
    <2>1. Late(m) => Unless(m, {"overlap", "leftover", "late", "stranded"})'
      BY <1>6
    <2>2. Unless(m, {"overlap", "leftover", "late", "stranded"})
            => Unless(m, {"overlap", "leftover", "late", "stranded"})'
      BY <1>6
    <2> QED
      BY <1>1, <1>2, <1>3, <1>4, <1>7, <1>8, <1>9, <2>1, <2>2 DEF Fate, GonePart
  <1> QED
    BY <1>10, <1>11, <1>12, <1>13 DEF Fate

\* The manifest is erased: everywhere, if nothing of a migration is under way.
LEMMA ErasedFate ==
  ASSUME Flow, NEW m \in Manifest, Fate(m), DelPart(m),
         latest \in [Manifest -> {"stored", "erased"}],
         spoiled \in [Manifest -> SUBSET Cause], OnDeleteDataCommandResponse(m),
         UNCHANGED <<version, file, range, from, to, mlist, exch>>
  PROVE  Fate(m)'
  <1> DEFINE d == del[m].dst
  <1>1. /\ del[m] # NoRequest /\ del[m].stage = "delete-data"
        /\ store' = [store EXCEPT ![d] = @ \ {m}]
        /\ latest'[m] = "erased"
        /\ spoiled'[m] = spoiled[m] \cup (IF Quiet THEN {} ELSE {"overlap"})
    BY DEF OnDeleteDataCommandResponse, Spoil
  <1>2. d \in Node /\ (m \in store[d] \/ "overlap" \in spoiled[m])
    BY <1>1 DEF DelPart, DelFits
  <1>3. \A n \in Node : m \in store'[n] <=> m \in store[n] /\ n # d
    BY <1>1, <1>2, OrderContext DEF NodeTypes
  <1>4. /\ Home(m)' = Home(m) /\ Source' = Source /\ to' = to
        /\ Read(m)' <=> Read(m)
        /\ Sought(m)' <=> Sought(m)
        /\ Brought(m)' <=> Brought(m)
        /\ Missed(m)' <=> Missed(m)
    BY DEF Home, OwnerAt, Source, Read, Sought, Brought, Missed
  <1>5. Quiet => /\ ~Read(m) /\ ~Sought(m) /\ ~Brought(m) /\ ~Missed(m)
                 /\ ~Due(m) /\ ~Doomed(m) /\ ~ToAsk
    BY DEF Quiet, Command, Read, Sought, Brought, Missed, Due, Doomed, ToAsk
  <1>6. /\ \A S : Unless(m, S) => Unless(m, S)'
        /\ ~Quiet \/ "overlap" \in spoiled[m] =>
             "overlap" \in spoiled'[m] /\ \A S : "overlap" \in S => Unless(m, S)'
        /\ "crash" \in spoiled'[m] => "crash" \in spoiled[m]
    BY <1>1 DEF Unless
  <1>7. latest[m] = "stored" \/ latest[m] = "erased"
    OBVIOUS
  <1>8. latest'[m] # "stored"
    BY <1>1
  <1> HIDE DEF d
  <1>9. CrashPart(m)'
    BY <1>4, <1>5, <1>6 DEF Fate, CrashPart
  <1>10. KeptPart(m)' /\ HomePart(m)'
    BY <1>8 DEF KeptPart, HomePart
  <1>11. GonePart(m)'
    <2>1. ~Quiet \/ "overlap" \in spoiled[m] =>
            Unless(m, {"overlap", "leftover", "late", "stranded"})'
      BY <1>6
    <2>2. Unless(m, {"overlap", "leftover", "late", "stranded"})
            => Unless(m, {"overlap", "leftover", "late", "stranded"})'
      BY <1>6
    <2> QED
      BY <1>2, <1>3, <1>4, <1>5, <1>7, <1>8, <2>1, <2>2 DEF Fate, GonePart
  <1> QED
    BY <1>9, <1>10, <1>11 DEF Fate

-----------------------------------------------------------------------------
(* Requests.                                                               *)

\* Whatever the file, a lookup returns a node or none.
LEMMA SomeOwner ==
  ASSUME NEW f \in File, NEW k
  PROVE  GetManifestStorage(f, k) \in Node \cup {NoNode}
  <1> DEFINE T == {i \in DOMAIN f : k \in KeysOf(f[i])}
             P(x) == /\ k \in KeysOf(f[x])
                     /\ \A j \in 1 .. (x - 1) : k \notin KeysOf(f[j])
             c == CHOOSE x \in DOMAIN f : P(x)
  <1>1. DOMAIN f = 1 .. Len(f) /\ Len(f) \in Nat /\ \A i \in DOMAIN f : f[i].node \in Node
    <2>1. \A i \in DOMAIN f : f[i] \in Entry
      BY DEF File
    <2> QED
      BY <2>1 DEF File, Entry
  <1>2. CASE T = {}
    BY <1>2 DEF GetManifestStorage
  <1>3. CASE T # {}
    <2>1. T \in SUBSET Nat
      BY <1>1
    <2>2. PICK i \in T : \A j \in T : i <= j
      BY <1>3, <2>1, Least
    <2>3. ASSUME NEW j \in 1 .. (i - 1)
          PROVE  k \notin KeysOf(f[j])
      BY <1>1, <2>2
    <2>4. i \in DOMAIN f /\ P(i)
      BY <2>2, <2>3
    <2>5. c \in DOMAIN f
      BY <2>4
    <2>6. GetManifestStorage(f, k) = f[c].node
      BY <2>4 DEF GetManifestStorage
    <2> HIDE DEF c
    <2> QED
      BY <1>1, <2>5, <2>6
  <1> QED
    BY <1>2, <1>3

\* A node that has a ring looks up what the manager published under its version.
LEMMA LookedUp ==
  ASSUME Flow, NEW m \in Manifest, NEW n \in Node, version[n] # Unset
  PROVE  /\ version[n] \in Version /\ version[n] <= version[Manager]
         /\ OwnerAt(n, m) = GetManifestStorage(published[version[n]], Hash[m])
         /\ OwnerAt(n, m) \in Node \cup {NoNode}
  <1>1. /\ version \in [Node -> Version \cup {Unset}] /\ file \in [Node -> File]
        /\ version[n] <= version[Manager] /\ file[n] = published[version[n]]
    BY DEF Flow, IInv, NodeInv, VersionNamesRing
  <1> QED
    BY <1>1, SomeOwner DEF OwnerAt

\* A step of a client's request, before it writes.
LEMMA RequestMeans ==
  ASSUME Flow, NEW m \in Manifest, PutPart(m), DelPart(m),
         put = [k \in Manifest |-> put[k]], del = [k \in Manifest |-> del[k]],
         left \in [requests : 0 .. MaxRequests, losses : 0 .. MaxLosses],
         \/ \E n \in Node : HandleInsertCommand(n, m) \/ HandleFileDelete(n, m)
         \/ OnFindResponse(m)
         \/ WriteManifest(m)
         \/ HandleDeleteManifestCommand(m)
  PROVE  /\ left' \in [requests : 0 .. MaxRequests, losses : 0 .. MaxLosses]
         /\ latest' = latest /\ spoiled' = spoiled
         /\ \E p, d : /\ put' = [put EXCEPT ![m] = p] /\ PutFits(m, p)
                      /\ del' = [del EXCEPT ![m] = d] /\ DelFits(m, d)
  <1>0. /\ PutFits(m, put[m]) /\ put = [put EXCEPT ![m] = put[m]]
        /\ DelFits(m, del[m]) /\ del = [del EXCEPT ![m] = del[m]]
    BY DEF PutPart, DelPart
  <1>1. ASSUME left.requests > 0, left' = [left EXCEPT !.requests = @ - 1]
        PROVE  left' \in [requests : 0 .. MaxRequests, losses : 0 .. MaxLosses]
    BY <1>1, TrafficBoundsAssumption
  <1>2. ASSUME NEW n \in Node, HandleInsertCommand(n, m)
        PROVE  /\ left' \in [requests : 0 .. MaxRequests, losses : 0 .. MaxLosses]
               /\ latest' = latest /\ spoiled' = spoiled /\ del' = del
               /\ \E p : put' = [put EXCEPT ![m] = p] /\ PutFits(m, p)
    <2> DEFINE p == [stage |-> "find", node |-> n, dst |-> OwnerAt(n, m),
                     ring |-> version[n]]
    <2>1. /\ version[n] # Unset /\ left.requests > 0
          /\ left' = [left EXCEPT !.requests = @ - 1]
          /\ put' = [put EXCEPT ![m] = p] /\ UNCHANGED <<del, latest, spoiled>>
      BY <1>2 DEF HandleInsertCommand
    <2>2. PutFits(m, p)
      BY <2>1, LookedUp DEF PutFits, Put
    <2> HIDE DEF p
    <2> QED
      BY <1>1, <2>1, <2>2
  <1>3. ASSUME NEW n \in Node, HandleFileDelete(n, m)
        PROVE  /\ left' \in [requests : 0 .. MaxRequests, losses : 0 .. MaxLosses]
               /\ latest' = latest /\ spoiled' = spoiled /\ put' = put
               /\ \E d : del' = [del EXCEPT ![m] = d] /\ DelFits(m, d)
    <2> DEFINE d == [stage |-> "delete-manifest", dst |-> OwnerAt(n, m)]
    <2>1. /\ version[n] # Unset /\ left.requests > 0
          /\ left' = [left EXCEPT !.requests = @ - 1]
          /\ del' = [del EXCEPT ![m] = d] /\ UNCHANGED <<put, latest, spoiled>>
      BY <1>3 DEF HandleFileDelete
    <2>2. DelFits(m, d)
      BY <2>1, LookedUp DEF DelFits, Del
    <2> HIDE DEF d
    <2> QED
      BY <1>1, <2>1, <2>2
  <1>4. ASSUME OnFindResponse(m)
        PROVE  /\ UNCHANGED <<del, left, latest, spoiled>>
               /\ \E p : put' = [put EXCEPT ![m] = p] /\ PutFits(m, p)
    <2> DEFINE q == [put[m] EXCEPT !.stage = "info"]
               p == IF m \in store[put[m].dst] THEN NoRequest ELSE q
    <2>1. /\ put[m] # NoRequest /\ put' = [put EXCEPT ![m] = p]
          /\ UNCHANGED <<del, left, latest, spoiled>>
      BY <1>4 DEF OnFindResponse
    <2>2. put[m] \in [stage : {"find", "info", "create"}, node : Node,
                      dst : Node \cup {NoNode}, ring : Version]
      BY <1>0, <2>1 DEF PutFits, Put
    <2>3. /\ q \in Put /\ q.node = put[m].node /\ q.dst = put[m].dst
          /\ q.ring = put[m].ring
      BY <2>2 DEF Put
    <2> HIDE DEF q
    <2>4. PutFits(m, q) /\ PutFits(m, NoRequest)
      BY <1>0, <2>1, <2>3 DEF PutFits
    <2>5. PutFits(m, p)
      BY <2>4
    <2> HIDE DEF p
    <2> QED
      BY <2>1, <2>5
  <1>5. ASSUME WriteManifest(m)
        PROVE  /\ UNCHANGED <<del, left, latest, spoiled>>
               /\ \E p : put' = [put EXCEPT ![m] = p] /\ PutFits(m, p)
    <2> DEFINE n == put[m].node
               p == [stage |-> "create", node |-> n, dst |-> OwnerAt(n, m),
                     ring |-> version[n]]
    <2>1. /\ put[m] # NoRequest /\ UNCHANGED <<del, left, latest, spoiled>>
          /\ put' = [put EXCEPT ![m].stage = "create", ![m].dst = OwnerAt(n, m),
                                ![m].ring = version[n]]
      BY <1>5 DEF WriteManifest
    <2>2. /\ put[m] \in [stage : {"find", "info", "create"}, node : Node,
                         dst : Node \cup {NoNode}, ring : Version]
          /\ version[n] # Unset
      BY <1>0, <2>1 DEF PutFits, Put
    <2>3. n \in Node
      BY <2>2
    <2>4. put' = [put EXCEPT ![m] = p]
      <3>1. PICK o, v : o = OwnerAt(n, m) /\ v = version[n]
        OBVIOUS
      <3>2. put' = [put EXCEPT ![m].stage = "create", ![m].dst = o, ![m].ring = v]
        BY <2>1, <3>1
      <3>3. /\ put' = [k \in Manifest |-> put'[k]]
            /\ \A k \in Manifest : k # m => put'[k] = put[k]
        BY <3>2
      <3>4. put'[m] = [stage |-> "create", node |-> put[m].node, dst |-> o, ring |-> v]
        BY <2>2, <3>2
      <3> QED
        BY <3>1, <3>3, <3>4
    <2>5. PutFits(m, p)
      BY <2>2, <2>3, LookedUp DEF PutFits, Put
    <2> HIDE DEF p
    <2> QED
      BY <2>1, <2>4, <2>5
  <1>6. ASSUME HandleDeleteManifestCommand(m)
        PROVE  /\ UNCHANGED <<put, left, latest, spoiled>>
               /\ \E d : del' = [del EXCEPT ![m] = d] /\ DelFits(m, d)
    <2> DEFINE q == [del[m] EXCEPT !.stage = "delete-data"]
               d == IF m \in store[del[m].dst] THEN q ELSE NoRequest
    <2>1. /\ del[m] # NoRequest /\ del' = [del EXCEPT ![m] = d] /\ del[m].dst \in Node
          /\ UNCHANGED <<put, left, latest, spoiled>>
      BY <1>6 DEF HandleDeleteManifestCommand
    <2>2. del[m] \in [stage : {"delete-manifest", "delete-data"}, dst : Node \cup {NoNode}]
      BY <1>0, <2>1 DEF DelFits, Del
    <2>3. q \in Del /\ q.dst = del[m].dst
      BY <2>2 DEF Del
    <2> HIDE DEF q
    <2>4. (m \in store[del[m].dst] => DelFits(m, q)) /\ DelFits(m, NoRequest)
      BY <2>1, <2>3 DEF DelFits
    <2>5. DelFits(m, d)
      BY <2>4
    <2> HIDE DEF d
    <2> QED
      BY <2>1, <2>5
  <1> QED
    BY <1>0, <1>2, <1>3, <1>4, <1>5, <1>6

\* What a put has looked up stays what the manager published.
LEMMA PutStays ==
  ASSUME Flow, NEW m \in Manifest, PutPart(m), put'[m] = put[m] \/ put'[m] = NoRequest,
         version'[Manager] = version[Manager] \/ version'[Manager] = version[Manager] + 1,
         \A v \in Version : v <= version[Manager] => published'[v] = published[v],
         put'[m] # NoRequest => version'[put[m].node] # Unset
  PROVE  PutPart(m)'
  <1> SUFFICES ASSUME put'[m] # NoRequest
               PROVE  PutPart(m)'
    BY DEF PutPart, PutFits
  <1>1. /\ put[m] \in Put /\ put[m].ring <= version[Manager]
        /\ put[m].dst = GetManifestStorage(published[put[m].ring], Hash[m])
    BY DEF PutPart, PutFits
  <1>2. put[m].ring \in Version /\ put[m].ring \in Int
    BY <1>1, Bounds DEF Put, Version
  <1>3. version[Manager] \in Nat
    BY OrderContext
  <1>4. put[m].ring <= version'[Manager]
    BY <1>1, <1>2, <1>3
  <1> QED
    BY <1>1, <1>2, <1>4 DEF PutPart, PutFits

\* A deletion goes on while the manifest stays at its node, or an overlap is recorded.
LEMMA DelStays ==
  ASSUME NEW m \in Manifest, DelPart(m), del'[m] = del[m] \/ del'[m] = NoRequest,
         \/ "overlap" \in spoiled'[m]
         \/ /\ spoiled[m] \subseteq spoiled'[m]
            /\ \A n \in Node : m \in store[n] => m \in store'[n]
  PROVE  DelPart(m)'
  BY DEF DelPart, DelFits

\* A client's request keeps the invariant before it writes, ...
LEMMA RequestInv ==
  ASSUME TrafficInv, Request, UNCHANGED vars
  PROVE  TrafficInv'
  <1>1. PICK m \in Manifest :
          \/ \E n \in Node : HandleInsertCommand(n, m) \/ HandleFileDelete(n, m)
          \/ OnFindResponse(m)
          \/ WriteManifest(m)
          \/ HandleDeleteManifestCommand(m)
    BY DEF Request
  <1>2. Flow /\ TrafficTypes /\ \A k \in Manifest : Fate(k) /\ PutPart(k) /\ DelPart(k)
    BY DEF TrafficInv, Fates
  <1>3. /\ left' \in [requests : 0 .. MaxRequests, losses : 0 .. MaxLosses]
        /\ latest' = latest /\ spoiled' = spoiled
        /\ \E p, d : /\ put' = [put EXCEPT ![m] = p] /\ PutFits(m, p)
                     /\ del' = [del EXCEPT ![m] = d] /\ DelFits(m, d)
    BY <1>1, <1>2, RequestMeans DEF TrafficTypes
  <1>4. PICK p, d : /\ put' = [put EXCEPT ![m] = p] /\ PutFits(m, p)
                    /\ del' = [del EXCEPT ![m] = d] /\ DelFits(m, d)
    BY <1>3
  <1>5. Flow'
    BY <1>2, NextInv, NextTypes, StutterOrder DEF Flow
  <1>6. TrafficTypes'
    BY <1>2, <1>3, <1>4 DEF TrafficTypes
  <1>7. UNCHANGED <<version, file, range, from, to, mlist, store, exch, published>>
    BY DEF vars, nodeVars, history
  <1>8. ASSUME NEW k \in Manifest
        PROVE  Fate(k)' /\ PutPart(k)' /\ DelPart(k)'
    <2>1. Fate(k)'
      BY <1>2, <1>3, <1>7, WriteElsewhere
    <2>2. PutFits(k, put'[k]) /\ DelFits(k, del'[k])
      <3>1. CASE k = m
        <4>1. put'[k] = p /\ del'[k] = d
          BY <1>2, <1>4, <3>1 DEF TrafficTypes
        <4> QED
          BY <1>4, <3>1, <4>1
      <3>2. CASE k # m
        <4>1. put'[k] = put[k] /\ del'[k] = del[k]
          BY <1>2, <1>4, <3>2 DEF TrafficTypes
        <4> QED
          BY <1>2, <4>1 DEF PutPart, DelPart
      <3> QED
        BY <3>1, <3>2
    <2>3. PutPart(k)' /\ DelPart(k)'
      BY <1>3, <1>7, <2>2 DEF PutPart, DelPart, PutFits, DelFits
    <2> QED
      BY <2>1, <2>3
  <1> QED
    BY <1>5, <1>6, <1>8 DEF TrafficInv, Fates

\* ... and when it does.
LEMMA WriteInv ==
  ASSUME TrafficInv, Write,
         UNCHANGED <<config, version, file, range, from, to, mlist, exch, budget, history>>
  PROVE  TrafficInv'
  <1>1. PICK m \in Manifest : OnManifestValidated(m) \/ OnDeleteDataCommandResponse(m)
    BY DEF Write
  <1>2. Flow /\ TrafficTypes /\ \A k \in Manifest : Fate(k) /\ PutPart(k) /\ DelPart(k)
    BY DEF TrafficInv, Fates
  <1>3. /\ store \in [Node -> SUBSET Manifest] /\ published' = published
        /\ latest \in [Manifest -> {"stored", "erased"}]
        /\ spoiled \in [Manifest -> SUBSET Cause]
        /\ put = [k \in Manifest |-> put[k]] /\ del = [k \in Manifest |-> del[k]]
    BY <1>2, OrderContext DEF NodeTypes, TrafficTypes, history
  <1>4. PICK d, ms, new, cs :
          /\ store' = [store EXCEPT ![d] = ms] /\ (d \in Node => ms \in SUBSET Manifest)
          /\ d \in Node => \A k \in Manifest : k # m => (k \in ms <=> k \in store[d])
          /\ latest' = [latest EXCEPT ![m] = new] /\ new \in {"stored", "erased"}
          /\ spoiled' = [spoiled EXCEPT ![m] = @ \cup cs] /\ cs \subseteq Cause
          /\ left' = left
          /\ \/ put' = [put EXCEPT ![m] = NoRequest] /\ del' = del
                /\ (d \in Node => store[d] \subseteq ms)
             \/ put' = put /\ del' = [del EXCEPT ![m] = NoRequest]
    <2>1. CASE OnManifestValidated(m)
      <3> DEFINE d == put[m].dst
                 ms == store[d] \cup {m}
                 cs == (IF Late(m) THEN {"late"} ELSE {})
                         \cup (IF Listed(d, m) THEN {"listed"} ELSE {})
      <3>1. /\ d \in Node /\ store' = [store EXCEPT ![d] = ms]
            /\ latest' = [latest EXCEPT ![m] = "stored"]
            /\ spoiled' = [spoiled EXCEPT ![m] = @ \cup cs]
            /\ put' = [put EXCEPT ![m] = NoRequest] /\ del' = del /\ left' = left
        BY <2>1 DEF OnManifestValidated, Spoil
      <3>2. ms \in SUBSET Manifest /\ cs \subseteq Cause
        BY <1>3, <3>1 DEF Cause
      <3>3. \A k \in Manifest : k # m => (k \in ms <=> k \in store[d])
        OBVIOUS
      <3>4. store[d] \subseteq ms
        OBVIOUS
      <3> HIDE DEF d, ms, cs
      <3> QED
        BY <3>1, <3>2, <3>3, <3>4
    <2>2. CASE OnDeleteDataCommandResponse(m)
      <3> DEFINE d == del[m].dst
                 ms == store[d] \ {m}
                 cs == IF Quiet THEN {} ELSE {"overlap"}
      <3>1. /\ store' = [store EXCEPT ![d] = ms]
            /\ latest' = [latest EXCEPT ![m] = "erased"]
            /\ spoiled' = [spoiled EXCEPT ![m] = @ \cup cs]
            /\ put' = put /\ del' = [del EXCEPT ![m] = NoRequest] /\ left' = left
        BY <2>2 DEF OnDeleteDataCommandResponse, Spoil
      <3>2. (d \in Node => ms \in SUBSET Manifest) /\ cs \subseteq Cause
        BY <1>3 DEF Cause
      <3>3. \A k \in Manifest : k # m => (k \in ms <=> k \in store[d])
        OBVIOUS
      <3> HIDE DEF d, ms, cs
      <3> QED
        BY <3>1, <3>2, <3>3
    <2> QED
      BY <1>1, <2>1, <2>2
  <1>5. store' \in [Node -> SUBSET Manifest]
    BY <1>3, <1>4
  <1>6. Flow'
    BY <1>2, <1>5, WriteFlow
  <1>7. TrafficTypes'
    <2>1. /\ latest' \in [Manifest -> {"stored", "erased"}]
          /\ spoiled' \in [Manifest -> SUBSET Cause]
      BY <1>3, <1>4
    <2>2. put' = [k \in Manifest |-> put'[k]] /\ del' = [k \in Manifest |-> del'[k]]
      BY <1>3, <1>4
    <2> QED
      BY <1>2, <1>4, <2>1, <2>2 DEF TrafficTypes
  <1>8. ASSUME NEW k \in Manifest
        PROVE  Fate(k)' /\ PutPart(k)' /\ DelPart(k)'
    <2>1. /\ put'[k] = put[k] \/ put'[k] = NoRequest
          /\ del'[k] = del[k] \/ del'[k] = NoRequest
          /\ spoiled[k] \subseteq spoiled'[k]
          /\ k # m => latest'[k] = latest[k] /\ spoiled'[k] = spoiled[k]
          /\ k = m => del'[k] = NoRequest \/ \A n \in Node : store[n] \subseteq store'[n]
      <3>1. /\ spoiled[k] \subseteq spoiled'[k]
            /\ k # m => latest'[k] = latest[k] /\ spoiled'[k] = spoiled[k]
        BY <1>3, <1>4
      <3>2. /\ put'[k] = put[k] \/ put'[k] = NoRequest
            /\ del'[k] = del[k] \/ del'[k] = NoRequest
        BY <1>3, <1>4
      <3>3. k = m => del'[k] = NoRequest \/ \A n \in Node : store[n] \subseteq store'[n]
        BY <1>3, <1>4
      <3> QED
        BY <3>1, <3>2, <3>3
    <2>2. k # m => \A n \in Node : k \in store'[n] <=> k \in store[n]
      BY <1>3, <1>4
    <2>3. k # m => Fate(k)'
      BY <1>2, <2>1, <2>2, WriteElsewhere
    <2>4. PutPart(k)'
      <3>1. put[k] # NoRequest => version[put[k].node] # Unset
        BY <1>2 DEF PutPart, PutFits
      <3>2. \A v \in Version : v <= version[Manager] => published'[v] = published[v]
        BY <1>3
      <3>3. put'[k] # NoRequest => version'[put[k].node] # Unset
        BY <2>1, <3>1
      <3>4. version'[Manager] = version[Manager]
        OBVIOUS
      <3> QED
        BY <1>2, <2>1, <3>2, <3>3, <3>4, PutStays
    <2>5. DelPart(k)'
      <3>1. CASE del'[k] = NoRequest
        BY <3>1 DEF DelPart, DelFits
      <3>2. CASE del'[k] # NoRequest
        BY <1>2, <2>1, <2>2, <3>2, DelStays
      <3> QED
        BY <3>1, <3>2
    <2>6. k = m => Fate(k)'
      BY <1>1, <1>2, <1>3, StoredFate, ErasedFate
    <2> QED
      BY <2>3, <2>4, <2>5, <2>6
  <1> QED
    BY <1>6, <1>7, <1>8 DEF TrafficInv, Fates

-----------------------------------------------------------------------------
(* The ring moves while requests are under way.                            *)

\* No process ends without being started again by the operator.
NoExit == budget.restarts = 0

\* The manager's version and what it has published go on, and only a node that is
\* started forgets its version.
LEMMA VersionsStay ==
  ASSUME Flow, Orderly, NoExit, Operate \/ Deliver
  PROVE  /\ version'[Manager] = version[Manager] \/ version'[Manager] = version[Manager] + 1
         /\ \A v \in Version : v <= version[Manager] => published'[v] = published[v]
         /\ \A n \in Node \ Booted : version[n] # Unset => version'[n] # Unset
  <1> DEFINE Goal ==
        /\ version'[Manager] = version[Manager] \/ version'[Manager] = version[Manager] + 1
        /\ \A v \in Version : v <= version[Manager] => published'[v] = published[v]
        /\ \A n \in Node \ Booted : version[n] # Unset => version'[n] # Unset
  <1>0. /\ version \in [Node -> Version \cup {Unset}] /\ Manager \in Node
        /\ version[Manager] \in Nat /\ published \in [Version -> File]
    BY OrderContext DEF Flow, IInv, NodeInv
  <1>1. ASSUME UNCHANGED <<version, published>>
        PROVE  Goal
    BY <1>1
  <1>2. ASSUME NEW f, NEW rest, Publish(f, rest)
        PROVE  Goal
    <2>1. /\ version' = [version EXCEPT ![Manager] = @ + 1]
          /\ published' = [published EXCEPT ![version[Manager] + 1] = f]
      BY <1>2 DEF Publish
    <2>2. version'[Manager] = version[Manager] + 1
      BY <1>0, <2>1
    <2>3. ASSUME NEW v \in Version, v <= version[Manager]
          PROVE  published'[v] = published[v]
      <3>1. v \in Int /\ v # version[Manager] + 1
        BY <1>0, <2>3, Bounds DEF Version
      <3> QED
        BY <1>0, <2>1, <3>1
    <2>4. ASSUME NEW n \in Node, version[n] # Unset
          PROVE  version'[n] # Unset
      <3>1. CASE n = Manager
        BY <1>0, <2>2, <3>1 DEF Unset
      <3>2. CASE n # Manager
        BY <1>0, <2>1, <2>4, <3>2
      <3> QED
        BY <3>1, <3>2
    <2> QED
      BY <2>2, <2>3, <2>4
  <1>3. ASSUME NEW n \in Node, NEW f \in Node, Start(n, f)
        PROVE  Goal
    <2>a. PICK a : a = Add(n, f, budget'.restarts)
      OBVIOUS
    <2>1. /\ n # Manager /\ Quiet /\ version' = [version EXCEPT ![n] = Unset]
          /\ published' = published
          /\ exch' = [[c \in Command |-> Abandoned(c, n)] EXCEPT !["add-node"] = @ \cup {a}]
      BY <1>3, <2>a DEF Start, Boot
    <2>2. a \in exch'["add-node"] /\ a.src = n
      BY <2>a, <2>1 DEF Add, Command
    <2>3. a \notin exch["add-node"]
      BY <2>1 DEF Quiet, Command
    <2>4. n \in Booted
      BY <2>2, <2>3 DEF Booted
    <2>5. version'[Manager] = version[Manager]
      BY <1>0, <2>1
    <2>6. \A k \in Node \ Booted : version'[k] = version[k]
      BY <1>0, <2>1, <2>4
    <2> QED
      BY <2>1, <2>5, <2>6
  <1>4. ASSUME NEW f \in Node, NEW t \in Node, HandleDeleteCommand(f, t)
        PROVE  Goal
    BY <1>2, <1>4 DEF HandleDeleteCommand
  <1>5. ASSUME NEW x \in exch["add-node"], HandleAddCommand(x)
        PROVE  Goal
    <2>1. CASE x.from \in Members(file[Manager])
      BY <1>2, <1>5, <2>1 DEF HandleAddCommand
    <2>2. CASE x.from \notin Members(file[Manager])
      BY <1>1, <1>5, <2>2 DEF HandleAddCommand
    <2> QED
      BY <2>1, <2>2
  <1>6. ASSUME NEW x \in exch["fetch"], OnFetchCommandResponse(x)
        PROVE  Goal
    <2>1. /\ version'[x.src] = version[Manager] /\ version'[Manager] = version[Manager]
          /\ \A n \in Node : n # x.src => version'[n] = version[n]
          /\ published' = published
      BY <1>6, RingTaken
    <2>2. version[Manager] # Unset
      BY <1>0 DEF Unset
    <2> QED
      BY <2>1, <2>2
  <1>7. ASSUME NEW x \in exch["find"], OnManifestCommandResponse(x)
        PROVE  Goal
    <2>1. x.found
      BY <1>7 DEF OnManifestCommandResponse, Exit, NoExit
    <2> QED
      BY <1>1, <1>7, <2>1 DEF OnManifestCommandResponse, history
  <1>8. ASSUME NEW x,
               \/ HandleVersionCommand(x) \/ IgnoreResponse("ver", x)
               \/ HandleFetchCommand(x)
               \/ HandleCoordinationCommand(x) \/ IgnoreResponse("coordination", x)
               \/ HandleManifestListCommand(x) \/ OnManifestListCommandResponse(x)
               \/ HandleFindCommand(x)
               \/ OnCompleteCommandResponse(x)
               \/ HandleOnlyDeleteManifestCommand(x)
               \/ IgnoreResponse("only-delete-manifest", x)
        PROVE  Goal
    <2>1. UNCHANGED <<version, published>>
      BY <1>8 DEF HandleVersionCommand, IgnoreResponse, HandleFetchCommand,
         HandleCoordinationCommand, HandleManifestListCommand,
         OnManifestListCommandResponse, HandleFindCommand, OnCompleteCommandResponse,
         HandleOnlyDeleteManifestCommand, nodeVars, history
    <2> QED
      BY <1>1, <2>1
  <1> HIDE DEF Goal
  <1>9. Goal
    <2>1. CASE Operate
      BY <1>3, <1>4, <2>1 DEF Operate
    <2>2. CASE Deliver
      BY <1>5, <1>6, <1>7, <1>8, <2>2 DEF Deliver
    <2> QED
      BY <2>1, <2>2
  <1> QED
    BY <1>9 DEF Goal

\* Whatever the ring does, it keeps what may become of a manifest.
LEMMA RingFate ==
  ASSUME Flow, IInv', Orderly, NoExit, Operate \/ Deliver, RingEffect,
         NEW m \in Manifest, Fate(m), latest[m] \in {"stored", "erased"}
  PROVE  Fate(m)'
  <1>1. CASE Operate
    BY <1>1, StartFate, RemoveOrder, EditFate DEF Operate
  <1>2. CASE Deliver
    <2>1. "ver" \in {"ver", "coordination", "only-delete-manifest"}
          /\ "coordination" \in {"ver", "coordination", "only-delete-manifest"}
          /\ "only-delete-manifest" \in {"ver", "coordination", "only-delete-manifest"}
      OBVIOUS
    <2>2. \A x \in exch["find"] : OnManifestCommandResponse(x) => x.found
      BY DEF OnManifestCommandResponse, Exit, NoExit
    <2> QED
      BY <1>2, <2>1, <2>2, AddOrder, EditFate, VersionFate, FetchFate, TakeFate,
         CoordinationFate, ListFate, AskFate, FindFate, FoundFate, CompleteFate,
         DeleteFate, IgnoreFate DEF Deliver
  <1> QED
    BY <1>1, <1>2

\* The requests' ends, when nodes start: those of their processes.
LEMMA RequestsLeft ==
  ASSUME NEW N, RequestsEnd(N), NEW m \in Manifest
  PROVE  /\ put'[m] = put[m] \/ put'[m] = NoRequest
         /\ put'[m] # NoRequest => put'[m] = put[m] /\ put[m].node \notin N
         /\ del'[m] = del[m] \/ del'[m] = NoRequest
         /\ put' = [k \in Manifest |-> put'[k]]
         /\ del' = [k \in Manifest |-> del'[k]]
  <1>1. /\ put'[m] = IF put[m] # NoRequest /\ {put[m].node, put[m].dst} \cap N # {}
                     THEN NoRequest ELSE put[m]
        /\ del'[m] = IF del[m] # NoRequest /\ del[m].dst \in N THEN NoRequest ELSE del[m]
    BY DEF RequestsEnd
  <1>2. /\ put' = [k \in Manifest |-> put'[k]]
        /\ del' = [k \in Manifest |-> del'[k]]
    BY DEF RequestsEnd
  <1> QED
    BY <1>1, <1>2

\* A step of the ring keeps the invariant.
LEMMA RingMovesInv ==
  ASSUME TrafficInv, Orderly, NoExit, RingMoves
  PROVE  TrafficInv'
  <1>1. Flow /\ TrafficTypes /\ \A k \in Manifest : Fate(k) /\ PutPart(k) /\ DelPart(k)
    BY DEF TrafficInv, Fates
  <1>2. /\ Operate \/ Deliver
        /\ RequestsEnd(Booted) /\ left' = left /\ latest' = latest
        /\ spoiled' = [m \in Manifest |->
             spoiled[m] \cup (IF m \in Overlapped THEN {"overlap"} ELSE {})]
    BY DEF RingMoves
  <1>3. IInv' /\ TypeInv'
    BY <1>1, <1>2, NextInv, NextTypes DEF Flow, Next
  <1>4. Flow'
    <2>1. \A x \in exch["find"] : OnManifestCommandResponse(x) => x.found
      BY DEF OnManifestCommandResponse, Exit, NoExit
    <2> QED
      BY <1>1, <1>2, <1>3, <2>1, FlowNext DEF Flow
  <1>5. RingEffect
    BY <1>2 DEF RingEffect
  <1>6. /\ put' = [k \in Manifest |-> put'[k]] /\ del' = [k \in Manifest |-> del'[k]]
    BY <1>2 DEF RequestsEnd
  <1>7. TrafficTypes'
    <2>1. spoiled' \in [Manifest -> SUBSET Cause]
      BY <1>1, <1>2 DEF TrafficTypes, Cause
    <2> QED
      BY <1>1, <1>2, <1>6, <2>1 DEF TrafficTypes
  <1>8. ASSUME NEW k \in Manifest
        PROVE  Fate(k)' /\ PutPart(k)' /\ DelPart(k)'
    <2>1. Fate(k)'
      BY <1>1, <1>2, <1>3, <1>5, RingFate DEF TrafficTypes
    <2>2. /\ put'[k] = put[k] \/ put'[k] = NoRequest
          /\ put'[k] # NoRequest => put'[k] = put[k] /\ put[k].node \notin Booted
          /\ del'[k] = del[k] \/ del'[k] = NoRequest
      BY <1>2, RequestsLeft
    <2>3. PutPart(k)'
      <3>1. put'[k] # NoRequest => version'[put[k].node] # Unset
        <4> SUFFICES ASSUME put'[k] # NoRequest
                     PROVE  version'[put[k].node] # Unset
          OBVIOUS
        <4>1. put[k] # NoRequest /\ put[k].node \notin Booted
          BY <2>2
        <4>2. put[k].node \in Node /\ version[put[k].node] # Unset
          BY <1>1, <4>1 DEF PutPart, PutFits, Put
        <4> QED
          BY <1>1, <1>2, <4>1, <4>2, VersionsStay
      <3> QED
        BY <1>1, <1>2, <2>2, <3>1, VersionsStay, PutStays
    <2>4. DelPart(k)'
      <3>1. CASE del[k] = NoRequest
        BY <2>2, <3>1 DEF DelPart, DelFits
      <3>2. CASE del[k] # NoRequest
        <4>1. "overlap" \in spoiled'[k]
          BY <1>2, <3>2 DEF Overlapped
        <4> QED
          BY <1>1, <2>2, <4>1, DelStays
      <3> QED
        BY <3>1, <3>2
    <2> QED
      BY <2>1, <2>3, <2>4
  <1> QED
    BY <1>4, <1>7, <1>8 DEF TrafficInv, Fates

\* The loss of an Interest keeps the invariant, ...
LEMMA LoseInv ==
  ASSUME TrafficInv, NEW c \in {"complete", "only-delete-manifest"}, NEW x \in exch[c], Lose(c, x)
  PROVE  TrafficInv'
  <1>1. Flow /\ TrafficTypes /\ \A k \in Manifest : Fate(k) /\ PutPart(k) /\ DelPart(k)
    BY DEF TrafficInv, Fates
  <1>2. /\ left.losses > 0 /\ left' = [left EXCEPT !.losses = @ - 1]
        /\ spoiled' = [m \in Manifest |->
             spoiled[m] \cup (IF m \in LeftBy(c, x) THEN {"leftover"} ELSE {})
                        \cup (IF m \in Overlapped THEN {"overlap"} ELSE {})]
        /\ UNCHANGED <<put, del, latest>>
        /\ UNCHANGED <<version, store, published>>
    BY DEF Lose, nodeVars, history
  <1>3. Flow'
    BY <1>1, LoseFlow
  <1>4. TrafficTypes'
    <2>1. left' \in [requests : 0 .. MaxRequests, losses : 0 .. MaxLosses]
      BY <1>1, <1>2, TrafficBoundsAssumption DEF TrafficTypes
    <2>2. spoiled' \in [Manifest -> SUBSET Cause]
      BY <1>1, <1>2 DEF TrafficTypes, Cause
    <2> QED
      BY <1>1, <1>2, <2>1, <2>2 DEF TrafficTypes
  <1>5. ASSUME NEW k \in Manifest
        PROVE  Fate(k)' /\ PutPart(k)' /\ DelPart(k)'
    <2>1. Fate(k)'
      BY <1>1, LoseFate
    <2>2. PutPart(k)'
      BY <1>1, <1>2 DEF PutPart, PutFits
    <2>3. spoiled[k] \subseteq spoiled'[k]
      BY <1>2
    <2> QED
      BY <1>1, <1>2, <2>1, <2>2, <2>3, DelStays
  <1> QED
    BY <1>3, <1>4, <1>5 DEF TrafficInv, Fates

\* ... and so does the end of a process.
LEMMA CrashInv ==
  ASSUME TrafficInv, NEW x \in exch["find"], Crash(x)
  PROVE  TrafficInv'
  <1>1. Flow /\ TrafficTypes /\ \A k \in Manifest : Fate(k) /\ PutPart(k) /\ DelPart(k)
    BY DEF TrafficInv, Fates
  <1>2. /\ RequestsEnd({x.src})
        /\ spoiled' = [m \in Manifest |->
             spoiled[m] \cup (IF m = x.manifest THEN {"crash"} ELSE {})
                        \cup (IF m \in HalfMoved(x.src) THEN {"stranded"} ELSE {})]
        /\ UNCHANGED <<left, latest, version, store, published>>
    BY DEF Crash, history
  <1>3. Flow'
    BY <1>1, CrashFlow
  <1>4. put' = [k \in Manifest |-> put'[k]] /\ del' = [k \in Manifest |-> del'[k]]
    BY <1>2 DEF RequestsEnd
  <1>5. TrafficTypes'
    <2>1. spoiled' \in [Manifest -> SUBSET Cause]
      BY <1>1, <1>2 DEF TrafficTypes, Cause
    <2> QED
      BY <1>1, <1>2, <1>4, <2>1 DEF TrafficTypes
  <1>6. ASSUME NEW k \in Manifest
        PROVE  Fate(k)' /\ PutPart(k)' /\ DelPart(k)'
    <2>1. Fate(k)'
      BY <1>1, CrashFate
    <2>2. /\ put'[k] = put[k] \/ put'[k] = NoRequest
          /\ del'[k] = del[k] \/ del'[k] = NoRequest
      BY <1>2, RequestsLeft
    <2>3. PutPart(k)'
      BY <1>1, <1>2, <2>2 DEF PutPart, PutFits
    <2>4. spoiled[k] \subseteq spoiled'[k]
      BY <1>2
    <2> QED
      BY <1>1, <1>2, <2>1, <2>2, <2>3, <2>4, DelStays
  <1> QED
    BY <1>3, <1>5, <1>6 DEF TrafficInv, Fates

-----------------------------------------------------------------------------
(* The theorems.                                                           *)

\* At first the manager owns all keys and has what is stored.
LEMMA TrafficStarts == TrafficInit => TrafficInv
  <1> SUFFICES ASSUME TrafficInit
               PROVE  TrafficInv
    OBVIOUS
  <1>1. PICK ms \in SUBSET Manifest :
          /\ InitStored(ms)
          /\ put = [m \in Manifest |-> NoRequest]
          /\ del = [m \in Manifest |-> NoRequest]
          /\ left = [requests |-> MaxRequests, losses |-> MaxLosses]
          /\ latest = [m \in Manifest |-> IF m \in ms THEN "stored" ELSE "erased"]
          /\ spoiled = [m \in Manifest |-> {}]
    BY DEF TrafficInit
  <1>2. Flow
    BY <1>1, InitStoredInv, InitStoredTypes, InitFlow DEF Flow
  <1>3. TrafficTypes
    BY <1>1, TrafficBoundsAssumption DEF TrafficTypes
  <1>4. /\ store = [n \in Node |-> IF n = Manager THEN ms ELSE {}]
        /\ file[Manager] = InitKeySpaceFile /\ Manager \in Node /\ to = NoNode
        /\ \A c \in Command : exch[c] = {}
    BY <1>1, ManagerAssumption DEF InitStored
  <1>5. ASSUME NEW m \in Manifest
        PROVE  Fate(m) /\ PutPart(m) /\ DelPart(m)
    <2>1. Home(m) = Manager
      BY <1>4, FirstOwner, HashAssumption DEF Home, OwnerAt
    <2>2. /\ ~Read(m) /\ ~Sought(m) /\ ~Brought(m) /\ ~Missed(m) /\ ~Due(m) /\ ~Doomed(m)
      BY <1>4 DEF Read, Sought, Brought, Missed, Due, Doomed, Command
    <2>3. /\ \A n \in Node : m \in store[n] <=> n = Manager /\ m \in ms
          /\ latest[m] = IF m \in ms THEN "stored" ELSE "erased"
          /\ spoiled[m] = {}
      BY <1>1, <1>4
    <2>4. CrashPart(m) /\ KeptPart(m)
      BY <1>4, <2>2, <2>3 DEF CrashPart, KeptPart
    <2>5. HomePart(m)
      BY <1>4, <2>1, <2>2, <2>3 DEF HomePart
    <2>6. GonePart(m)
      BY <1>4, <2>1, <2>2, <2>3 DEF GonePart
    <2>7. PutPart(m) /\ DelPart(m)
      BY <1>1 DEF PutPart, PutFits, DelPart, DelFits
    <2> QED
      BY <2>4, <2>5, <2>6, <2>7 DEF Fate
  <1> QED
    BY <1>2, <1>3, <1>5 DEF TrafficInv, Fates

\* Every step keeps the invariant.
LEMMA TrafficNextInv ==
  ASSUME Orderly, MaxRestarts = 0, TrafficInv, [TrafficNext]_<<vars, trafficVars>>
  PROVE  TrafficInv'
  <1>1. NoExit
    <2>1. budget \in [timeouts : 0 .. MaxTimeouts, restarts : 0 .. MaxRestarts]
      BY OrderContext DEF TrafficInv, NodeTypes
    <2>2. budget.restarts \in 0 .. 0
      BY <2>1
    <2> QED
      BY <2>2 DEF NoExit
  <1>2. CASE RingMoves
    BY <1>1, <1>2, RingMovesInv
  <1>3. ASSUME NEW c \in {"complete", "only-delete-manifest"}, NEW x \in exch[c], Lose(c, x)
        PROVE  TrafficInv'
    BY <1>3, LoseInv
  <1>4. ASSUME NEW x \in exch["find"], Crash(x)
        PROVE  TrafficInv'
    BY <1>4, CrashInv
  <1>5. CASE Request /\ UNCHANGED vars
    BY <1>5, RequestInv
  <1>6. CASE Write /\ UNCHANGED <<config, version, file, range, from, to, mlist, exch,
                                  budget, history>>
    BY <1>6, WriteInv
  <1>7. CASE UNCHANGED <<vars, trafficVars>>
    <2>1. /\ UNCHANGED vars /\ UNCHANGED <<put, del, left, latest, spoiled>>
          /\ UNCHANGED <<version, file, range, from, to, mlist, store, exch, published>>
      BY <1>7 DEF trafficVars, requestVars, vars, nodeVars, history
    <2>2. Flow /\ TrafficTypes /\ \A k \in Manifest : Fate(k) /\ PutPart(k) /\ DelPart(k)
      BY DEF TrafficInv, Fates
    <2>3. Flow'
      BY <2>1, <2>2, NextInv, NextTypes, StutterOrder DEF Flow
    <2>4. TrafficTypes'
      BY <2>1, <2>2 DEF TrafficTypes
    <2>5. \A k \in Manifest : Fate(k)'
      BY <2>1, <2>2, WriteElsewhere
    <2>6. \A k \in Manifest : PutPart(k)' /\ DelPart(k)'
      BY <2>1, <2>2 DEF PutPart, PutFits, DelPart, DelFits
    <2> QED
      BY <2>3, <2>4, <2>5, <2>6 DEF TrafficInv, Fates
  <1> QED
    BY <1>2, <1>3, <1>4, <1>5, <1>6, <1>7 DEF TrafficNext

\* The invariant holds in every state.
LEMMA TrafficAlways ==
  ASSUME Orderly, MaxRestarts = 0
  PROVE  TrafficSpec => []TrafficInv
  <1>1. TrafficInv /\ [TrafficNext]_<<vars, trafficVars>> => TrafficInv'
    BY TrafficNextInv
  <1> QED
    BY <1>1, TrafficStarts, PTL DEF TrafficSpec

\* Once nothing is under way, nothing is to be brought or to be deleted.
LEMMA AtRest ==
  ASSUME Quiet, NEW m
  PROVE  ~Read(m) /\ ~Sought(m) /\ ~Brought(m) /\ ~Due(m) /\ ~Doomed(m) /\ ~ToAsk
  BY DEF Quiet, Command, Read, Sought, Brought, Due, Doomed, ToAsk

\* Requests and exchanges have the fields that their handlers read, also those that
\* are under way when the ring is edited, a node starts or a process ends.
THEOREM TrafficTypeAlways ==
  ASSUME Orderly, MaxRestarts = 0
  PROVE  TrafficSpec => []TrafficTypeOK
  <1>1. TrafficInv => TrafficTypeOK
    <2> SUFFICES ASSUME TrafficInv
                 PROVE  TrafficTypeOK
      OBVIOUS
    <2>1. TypeOK
      BY TypeInvType DEF TrafficInv, Flow
    <2>2. \A m \in Manifest : put[m] \in Put \cup {NoRequest} /\ del[m] \in Del \cup {NoRequest}
      BY DEF TrafficInv, Fates, PutPart, PutFits, DelPart, DelFits
    <2>3. put \in [Manifest -> Put \cup {NoRequest}] /\ del \in [Manifest -> Del \cup {NoRequest}]
      BY <2>2 DEF TrafficInv, TrafficTypes
    <2> QED
      BY <2>1, <2>3 DEF TrafficTypeOK, TrafficInv, TrafficTypes
  <1> QED
    BY <1>1, TrafficAlways, PTL

\* The answer that ends the process of a joining node is that of a manifest whose
\* deletion overlapped the migration: what is listed stays at the source until it has
\* been found, unless a client has it deleted.
THEOREM CrashHasCauseAlways ==
  ASSUME Orderly, MaxRestarts = 0
  PROVE  TrafficSpec => []CrashHasCause
  <1>1. TrafficInv => CrashHasCause
    BY DEF TrafficInv, Fates, Fate, CrashPart, CrashHasCause
  <1> QED
    BY <1>1, TrafficAlways, PTL

\* A stored manifest is on some disk at any time, whatever edits, requests, losses and
\* ends of processes come together, unless it was put again at a node that had listed
\* it, or the process that was to fetch it ended.
THEOREM KeptSomewhereAlways ==
  ASSUME Orderly, MaxRestarts = 0
  PROVE  TrafficSpec => []KeptSomewhere
  <1>1. TrafficInv => KeptSomewhere
    BY DEF TrafficInv, Fates, Fate, KeptPart, KeptSomewhere, Unless
  <1> QED
    BY <1>1, TrafficAlways, PTL

\* At rest the manifest of a put is where the manager's ring says, unless the put was
\* late, or the source had listed the name, or a process ended: a put that a migration
\* comes between lands at the new owner, or is listed by the old one.
THEOREM MisplacedHasCauseAlways ==
  ASSUME Orderly, MaxRestarts = 0
  PROVE  TrafficSpec => []MisplacedHasCause
  <1>1. TrafficInv => MisplacedHasCause
    <2> SUFFICES ASSUME TrafficInv, Quiet, NEW m \in Manifest, latest[m] = "stored",
                        Hash[m] >= Base, ~Unless(m, {"late", "listed", "stranded"})
                 PROVE  m \in store[OwnerAt(Manager, m)]
      BY DEF MisplacedHasCause, Unless
    <2>1. HomePart(m)
      BY DEF TrafficInv, Fates, Fate
    <2> QED
      BY <2>1, AtRest DEF HomePart, Home
  <1> QED
    BY <1>1, TrafficAlways, PTL

\* At rest the manifest of a name that was deleted last is not at its owner, unless the
\* deletion overlapped a migration, a migration left a copy behind, or a put was late.
THEOREM ZombieHasCauseAlways ==
  ASSUME Orderly, MaxRestarts = 0
  PROVE  TrafficSpec => []ZombieHasCause
  <1>1. TrafficInv => ZombieHasCause
    <2> SUFFICES ASSUME TrafficInv, NEW m \in Manifest, latest[m] = "erased",
                        Hash[m] >= Base,
                        ~Unless(m, {"overlap", "leftover", "late", "stranded"})
                 PROVE  m \notin store[OwnerAt(Manager, m)]
      BY DEF ZombieHasCause, Unless
    <2>1. GonePart(m)
      BY DEF TrafficInv, Fates, Fate
    <2>2. OwnerAt(Manager, m) \in Node
      BY Ends DEF TrafficInv, Home
    <2> QED
      BY <2>1, <2>2 DEF GonePart
  <1> QED
    BY <1>1, TrafficAlways, PTL

=============================================================================
