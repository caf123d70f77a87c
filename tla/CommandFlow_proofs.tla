------------------------- MODULE CommandFlow_proofs -------------------------
(***************************************************************************)
(* Proofs about CommandFlow.                                               *)
(***************************************************************************)
EXTENDS CommandFlow, TLAPS

-----------------------------------------------------------------------------
(* Wires.                                                                  *)

LEMMA TlvTypes ==
  /\ TlvType("Name") = 7 /\ TlvType("InterestLifetime") = 12
  /\ TlvType("NodePrefix") = 30 /\ TlvType("From") = 202
  /\ TlvType("To") = 203 /\ TlvType("StartBlockId") = 204
  /\ TlvType("EndBlockId") = 205 /\ TlvType("ProcessId") = 206
  /\ TlvType("StatusCode") = 208 /\ TlvType("InsertNum") = 209
  /\ TlvType("DeleteNum") = 210 /\ TlvType("ClusterPrefix") = 211
  BY DEF TlvType

\* The fields that are found on a wire are those that were written, when every
\* field has one place and a type of its own.
LEMMA WireKeeps ==
  ASSUME NEW order, NEW known, NEW fields,
         DOMAIN fields \subseteq known, fields = [f \in DOMAIN fields |-> fields[f]],
         DOMAIN order \subseteq Int,
         \A i \in DOMAIN order : order[i] \in known,
         \A f \in known : \E i \in DOMAIN order : order[i] = f,
         \A i, k \in DOMAIN order : TlvType(order[i]) = TlvType(order[k]) => i = k
  PROVE  FieldsOf(WireOf(order, fields), known) = fields
  <1> DEFINE wire == WireOf(order, fields)
             At(f) == {i \in DOMAIN wire : wire[i][1] = TlvType(f)}
  <1>1. /\ DOMAIN wire = {i \in DOMAIN order : order[i] \in DOMAIN fields}
        /\ \A i \in DOMAIN wire : wire[i] = <<TlvType(order[i]), fields[order[i]]>>
    BY DEF WireOf
  <1> HIDE DEF wire
  <1>2. ASSUME NEW f \in known, f \notin DOMAIN fields
        PROVE  At(f) = {}
    <2>1. PICK k \in DOMAIN order : order[k] = f
      OBVIOUS
    <2> QED
      BY <1>1, <1>2, <2>1
  <1>3. ASSUME NEW f \in DOMAIN fields
        PROVE  At(f) # {} /\ wire[Min(At(f))][2] = fields[f]
    <2>1. PICK k \in DOMAIN order : order[k] = f
      OBVIOUS
    <2>2. At(f) = {k}
      BY <1>1, <2>1
    <2>3. Min({k}) = k
      BY DEF Min
    <2> QED
      BY <1>1, <2>1, <2>2, <2>3
  <1>4. FieldsOf(wire, known) = [f \in {g \in known : At(g) # {}} |-> wire[Min(At(f))][2]]
    BY DEF FieldsOf
  <1> HIDE DEF At
  <1>5. {g \in known : At(g) # {}} = DOMAIN fields
    BY <1>2, <1>3
  <1>6. FieldsOf(wire, known) = [f \in DOMAIN fields |-> fields[f]]
    BY <1>3, <1>4, <1>5
  <1> QED
    BY <1>6 DEF wire

LEMMA Decodes ==
  ASSUME NEW fields, DOMAIN fields \subseteq Field,
         fields = [f \in DOMAIN fields |-> fields[f]]
  PROVE  Decode(Encode(fields)) = fields
  <1>1. /\ DOMAIN WireOrder = 1 .. 9
        /\ \A i \in 1 .. 9 : WireOrder[i] \in Field
        /\ \A f \in Field : \E i \in 1 .. 9 : WireOrder[i] = f
    BY DEF WireOrder, Field
  <1>2. ASSUME NEW i \in 1 .. 9
        PROVE  TlvType(WireOrder[i]) = CASE i = 1 -> 30  [] i = 2 -> 203 [] i = 3 -> 202
                                         [] i = 4 -> 7   [] i = 5 -> 12  [] i = 6 -> 204
                                         [] i = 7 -> 205 [] i = 8 -> 206 [] i = 9 -> 211
    BY TlvTypes DEF WireOrder
  <1>3. \A i, k \in 1 .. 9 : TlvType(WireOrder[i]) = TlvType(WireOrder[k]) => i = k
    BY <1>2
  <1> QED
    BY <1>1, <1>3, WireKeeps DEF Decode, Encode

LEMMA ResponseDecodes ==
  ASSUME NEW fields, DOMAIN fields \subseteq ResponseField,
         fields = [f \in DOMAIN fields |-> fields[f]]
  PROVE  DecodeResponse(EncodeResponse(fields)) = fields
  <1>1. /\ DOMAIN ResponseOrder = 1 .. 6
        /\ \A i \in 1 .. 6 : ResponseOrder[i] \in ResponseField
        /\ \A f \in ResponseField : \E i \in 1 .. 6 : ResponseOrder[i] = f
    BY DEF ResponseOrder, ResponseField
  <1>2. ASSUME NEW i \in 1 .. 6
        PROVE  TlvType(ResponseOrder[i]) = CASE i = 1 -> 206 [] i = 2 -> 208 [] i = 3 -> 204
                                             [] i = 4 -> 205 [] i = 5 -> 209 [] i = 6 -> 210
    BY TlvTypes DEF ResponseOrder
  <1>3. \A i, k \in 1 .. 6 : TlvType(ResponseOrder[i]) = TlvType(ResponseOrder[k]) => i = k
    BY <1>2
  <1> QED
    BY <1>1, <1>3, WireKeeps DEF DecodeResponse, EncodeResponse

LEMMA NameDecodes ==
  ASSUME NEW a
  PROVE  Decode(Encode([Name |-> a])) = [Name |-> a]
  BY Decodes DEF Field

LEMMA IdDecodes ==
  ASSUME NEW a, NEW b
  PROVE  Decode(Encode([Name |-> a, ProcessId |-> b])) = [Name |-> a, ProcessId |-> b]
  BY Decodes DEF Field

LEMMA CreateDecodes ==
  ASSUME NEW a, NEW b, NEW c
  PROVE  Decode(Encode([Name |-> a, ClusterPrefix |-> b, ProcessId |-> c])) =
           [Name |-> a, ClusterPrefix |-> b, ProcessId |-> c]
  BY Decodes DEF Field

LEMMA RangeDecodes ==
  ASSUME NEW a, NEW b, NEW c, NEW d
  PROVE  Decode(Encode([Name |-> a, StartBlockId |-> b, EndBlockId |-> c, ProcessId |-> d])) =
           [Name |-> a, StartBlockId |-> b, EndBlockId |-> c, ProcessId |-> d]
  BY Decodes DEF Field

LEMMA CodeDecodes ==
  ASSUME NEW a
  PROVE  DecodeResponse(EncodeResponse([StatusCode |-> a])) = [StatusCode |-> a]
  BY ResponseDecodes DEF ResponseField

LEMMA CountDecodes ==
  ASSUME NEW a, NEW b, NEW c
  PROVE  DecodeResponse(EncodeResponse([ProcessId |-> a, InsertNum |-> b, StatusCode |-> c])) =
           [ProcessId |-> a, InsertNum |-> b, StatusCode |-> c]
  BY ResponseDecodes DEF ResponseField

-----------------------------------------------------------------------------
(* The invariant.                                                          *)

PutId(p) == Drawn("insert", p)
DelId(d) == Drawn("delete-manifest", d)

\* The manifest of a put, and its text.
Manif(p) == ManifestOf(NewManifest(NameOf[p], 0, segments[p] - 1), Via[p])
Text(p) == ToJson(Manif(p))

\* The segments that are asked for: one at least, of an empty file too.
Wanted(p) == {0} \cup 0 .. segments[p] - 1

\* The messages of a put: which of its names they carry, and between which nodes.
FitsPut(m) ==
  LET name == NameOf[m.by]
      key  == Key(name)
  IN  /\ m.verb = "insert" =>
           m.by \in Put /\ m.to = Via[m.by] /\ Decode(m.body) = [Name |-> name]
      /\ m.verb = "inserted" =>
           /\ m.by \in Put /\ m.to = Via[m.by]
           /\ \/ DecodeResponse(m.body) = [StatusCode |-> 403]
              \/ DecodeResponse(m.body) =
                   [StatusCode |-> 100, ProcessId |-> PutId(m.by), InsertNum |-> 0]
      /\ m.verb = "info" =>
           m.by \in Put /\ m.to = Via[m.by] /\ m.body = name /\ m.bound = PutId(m.by)
      /\ m.verb = "create" =>
           /\ m.by \in Put /\ m.to = Owner[key]
           /\ Decode(m.body) = [Name |-> HashName(key), ClusterPrefix |-> Via[m.by],
                                ProcessId |-> PutId(m.by)]
      /\ m.verb = "segment" =>
           /\ m.by \in Put /\ m.to = Via[m.by] /\ m.bound = PutId(m.by)
           /\ \E s \in Wanted(m.by) : m.body = <<name, s>>
      /\ m.verb = "write-info" =>
           /\ m.by \in Put /\ m.to = Via[m.by] /\ m.bound = Owner[key]
           /\ Decode(m.body) = [Name |-> HashName(key), ProcessId |-> PutId(m.by)]
      /\ m.verb = "manifest" =>
           m.by \in Put /\ m.to = Owner[key] /\ m.body = Text(m.by)
      /\ m.verb = "insert check" =>
           /\ m.by \in Put /\ m.to = Via[m.by]
           /\ Decode(m.body) = [Name |-> name, ProcessId |-> PutId(m.by)]
      /\ m.verb = "checked" =>
           m.by \in Put /\ m.to = Via[m.by] /\ DecodeResponse(m.body).InsertNum \in Nat

\* Those of a get, and the find that a put sends as well.
FitsGet(m) ==
  LET name == NameOf[m.by]
      asks == [at |-> Via[m.by], parameters |-> [Name |-> name]]
  IN  /\ m.verb = "get" =>
           m.by \in Get /\ m.to = Via[m.by] /\ Decode(m.body) = [Name |-> name]
      /\ m.verb = "find" =>
           /\ m.by \in Put \cup Get /\ m.to \in Node /\ "Name" \in DOMAIN Decode(m.body)
           /\ m.by \in Put => m.bound = asks
           /\ m.by \in Get => /\ m.bound = [at |-> Via[m.by]]
                              /\ Decode(m.body).Name = HashName(name)
      /\ m.verb = "found" =>
           /\ m.by \in Put \cup Get /\ m.to = Via[m.by]
           /\ m.by \in Put => m.bound = asks
           /\ m.by \in Get => \/ m.body = Nothing
                              \/ \E q \in Put : m.body = Text(q) /\ Key(NameOf[q]) = name

\* Those of a delete.
FitsDelete(m) ==
  LET name == NameOf[m.by]
  IN  /\ m.verb = "delete" =>
           /\ m.by \in Delete /\ m.to = Via[m.by]
           /\ Decode(m.body) = [Name |-> name, ProcessId |-> Zero]
      /\ m.verb = "delete-manifest" =>
           /\ m.by \in Delete /\ m.to = Owner[name]
           /\ Decode(m.body) = [Name |-> HashName(name), ProcessId |-> Zero]
      /\ m.verb = "delete-data" =>
           m.by \in Delete /\ m.bound = [at |-> Owner[name], id |-> DelId(m.by)]
      /\ m.verb = "data deleted" =>
           m.by \in Delete /\ m.to = Owner[name] /\ m.bound = DelId(m.by)
      /\ m.verb = "deleted" => m.by \in Delete /\ m.to = Via[m.by] /\ m.bound = Zero

Fits(m) == FitsPut(m) /\ FitsGet(m) /\ FitsDelete(m)

\* m is sent to erase the segments of q.
Erases(m, q) ==
  /\ Key(NameOf[q]) = NameOf[m.by] /\ m.to = Via[q]
  /\ Decode(m.body) = [Name |-> NameOf[m.by], StartBlockId |-> SegmentNo(0),
                       EndBlockId |-> SegmentNo(segments[q] - 1),
                       ProcessId |-> Drawn("delete-data", m.by)]

WriteProcess(p) ==
  [code : {300, 405}, count : Nat, begun : BOOLEAN, manifest : {Nothing, Manif(p)}]

\* The node has the info of p: it fetches the segments and announces the manifest.
Begun(p) == PutId(p) \in DOMAIN writes[Via[p]] /\ writes[Via[p]][PutId(p)].begun = TRUE

ClientState ==
  [at : {"idle", "asking", "checking", "done", "failed"},
   id : {Nothing} \cup ({"insert"} \X Put), content : Put \cup {Nothing}]

Typed == segments \in Sizes /\ stuck \subseteq Node /\ meant \in [Delete -> Put \cup {Nothing}]

ClientsOK ==
  /\ client \in [Client -> ClientState]
  /\ \A p \in Put : /\ client[p].at = "checking" => client[p].id = PutId(p)
                    /\ Begun(p) => client[p].at # "idle"

\* The process of a put counts nothing before it has begun.
WritesOK ==
  /\ DOMAIN writes = Node
  /\ \A n \in Node : \A id \in DOMAIN writes[n] : \E p \in Put :
       /\ id = PutId(p) /\ n = Via[p] /\ writes[n][id] \in WriteProcess(p)
       /\ writes[n][id].begun = TRUE => writes[n][id].manifest = Manif(p)
       /\ writes[n][id].count # 0 => writes[n][id].begun = TRUE

\* What a node may have under an id: the Interest of a client, or a process of its own.
DeleteProcess(n, id, process) ==
  \/ id = Zero /\ \E d \in Delete : process = [by |-> d, hash |-> Nothing]
  \/ \E d \in Delete : \E h \in {Nothing, GetHash(NameOf[d])} :
       id = DelId(d) /\ n = Owner[NameOf[d]] /\ process = [by |-> d, hash |-> h]

DeletesOK ==
  /\ DOMAIN deletes = Node
  /\ \A n \in Node : \A id \in DOMAIN deletes[n] : DeleteProcess(n, id, deletes[n][id])

\* A node has the manifests of puts that have begun, at the hashes that it owns.
ManifestsOK ==
  /\ DOMAIN manifests = Node
  /\ \A n \in Node : \A h \in DOMAIN manifests[n] : \E p \in Put :
       /\ n = Owner[Key(NameOf[p])] /\ h = GetHash(Key(NameOf[p]))
       /\ manifests[n][h] = Text(p) /\ Begun(p)

\* A node has segments of the puts that reached it, under their names.
DataOK ==
  /\ DOMAIN data = Node
  /\ \A n \in Node : \A x \in DOMAIN data[n] :
       /\ data[n][x] \in Put /\ n = Via[data[n][x]] /\ Begun(data[n][x])
       /\ \E s \in 0 .. segments[data[n][x]] - 1 : x = <<NameOf[data[n][x]], s>>

\* The messages that hand a put on from one handler to the next.
Before == {"insert", "find", "found", "info"}
After == {"create", "write-info", "manifest"}
Checks == {"insert check", "checked"}
Chained(m) == m.by \in Put /\ m.verb \in Before \cup After

Good(m) ==
  /\ m = Message(m.verb, m.by, m.to, m.body, m.bound)
  /\ m.by \in Client /\ client[m.by].at # "idle" /\ m.to \in Node
  /\ Fits(m)
  /\ m.by \in Put /\ m.verb \in Before => ~Begun(m.by)
  /\ m.verb \in After \cup {"segment"} => Begun(m.by)
  /\ m.verb = "info" => m.bound \in DOMAIN writes[m.to]
  /\ m.verb \in Checks => client[m.by].id = PutId(m.by)
  /\ m.verb = "segment" /\ m.body \in DOMAIN data[m.to] => data[m.to][m.body] # m.by
  /\ m.verb = "delete-data" => \E q \in Put : Begun(q) /\ Erases(m, q)

MailOK == \A m \in mail : Good(m)

OneAtATime == \A m, k \in mail : Chained(m) /\ Chained(k) /\ m.by = k.by => m = k

FlowInv ==
  /\ Typed /\ ClientsOK /\ WritesOK /\ DeletesOK /\ ManifestsOK /\ DataOK
  /\ MailOK /\ OneAtATime

-----------------------------------------------------------------------------
(* What a step leaves as it is.                                            *)

\* A step at which no put begins, no process is forgotten and no segment comes.
Steady ==
  /\ segments' = segments
  /\ \A c \in Client : client[c].at # "idle" => client'[c].at # "idle"
  /\ \A p \in Put : client[p].id = PutId(p) => client'[p].id = PutId(p)
  /\ \A p \in Put : Begun(p)' <=> Begun(p)
  /\ \A n \in Node : DOMAIN writes[n] \subseteq DOMAIN writes'[n]
  /\ \A n \in Node : \A x \in DOMAIN data'[n] :
       x \in DOMAIN data[n] /\ data'[n][x] = data[n][x]

LEMMA FitsStays ==
  ASSUME NEW m, Fits(m), segments' = segments
  PROVE  Fits(m)'
  BY DEF Fits, FitsPut, FitsGet, FitsDelete, Text, Manif, Wanted

LEMMA ByPut ==
  ASSUME NEW m, Fits(m), m.verb \in After \cup Checks \cup {"segment", "info"}
  PROVE  m.by \in Put
  BY DEF Fits, FitsPut, After, Checks

LEMMA GoodStays ==
  ASSUME NEW m, Good(m), Steady
  PROVE  Good(m)'
  <1>1. Fits(m)'
    BY FitsStays DEF Good, Steady
  <1>2. m.verb \in After \cup Checks \cup {"segment"} => m.by \in Put
    BY ByPut DEF Good
  <1>3. \A q \in Put : Begun(q) /\ Erases(m, q) => Begun(q)' /\ Erases(m, q)'
    BY DEF Steady, Erases
  <1> QED
    BY <1>1, <1>2, <1>3 DEF Good, Steady

\* The messages in G are handled and those in S sent.
LEMMA MailMoves ==
  ASSUME FlowInv, Steady, NEW G, NEW S, mail' = (mail \ G) \cup S,
         \A k \in S : Good(k)',
         \A k, l \in S : Chained(k) /\ Chained(l) /\ k.by = l.by => k = l,
         \A k \in S, l \in mail \ G : Chained(k) /\ Chained(l) => k.by # l.by
  PROVE  MailOK' /\ OneAtATime'
  <1>1. MailOK'
    BY GoodStays DEF FlowInv, MailOK
  <1>2. OneAtATime'
    BY DEF FlowInv, OneAtATime, Chained
  <1> QED
    BY <1>1, <1>2

LEMMA Unbegun ==
  ASSUME UNCHANGED writes
  PROVE  /\ \A p \in Put : Begun(p)' <=> Begun(p)
         /\ WritesOK /\ segments' = segments => WritesOK'
  BY DEF Begun, WritesOK, WriteProcess, Manif

LEMMA DataStays ==
  ASSUME DataOK, Steady, DOMAIN data' = Node
  PROVE  DataOK'
  BY DEF DataOK, Steady

LEMMA ManifestsStay ==
  ASSUME ManifestsOK, Steady, DOMAIN manifests' = Node,
         \A n \in Node : \A h \in DOMAIN manifests'[n] :
           h \in DOMAIN manifests[n] /\ manifests'[n][h] = manifests[n][h]
  PROVE  ManifestsOK'
  BY DEF ManifestsOK, Steady, Text, Manif

\* A message is handled and others are sent: those of the put's chain only for one of
\* that chain.
LEMMA Passes ==
  ASSUME FlowInv, Steady, NEW m \in mail, NEW S, Handle(m, S),
         Typed', ClientsOK', WritesOK', DeletesOK', ManifestsOK', DataOK',
         \A k \in S : Good(k)',
         \A k, l \in S : Chained(k) /\ Chained(l) => k = l,
         \A k \in S : Chained(k) => Chained(m) /\ k.by = m.by
  PROVE  FlowInv'
  <1>1. \A k \in S, l \in mail \ {m} : Chained(k) /\ Chained(l) => k.by # l.by
    BY DEF FlowInv, OneAtATime
  <1>2. MailOK' /\ OneAtATime'
    BY <1>1, MailMoves DEF Handle
  <1> QED
    BY <1>2 DEF FlowInv

\* Only the messages change.
LEMMA QuietStep ==
  ASSUME FlowInv, UNCHANGED <<segments, client, writes, deletes, diskVars, stuck, meant>>
  PROVE  /\ Steady
         /\ Typed' /\ ClientsOK' /\ WritesOK' /\ DeletesOK' /\ ManifestsOK' /\ DataOK'
  <1>1. Steady
    BY Unbegun DEF Steady, diskVars, FlowInv, DataOK
  <1>2. Typed' /\ ClientsOK' /\ WritesOK' /\ DeletesOK'
    BY Unbegun DEF FlowInv, Typed, ClientsOK, DeletesOK
  <1>3. ManifestsOK' /\ DataOK'
    BY <1>1, ManifestsStay, DataStays DEF FlowInv, diskVars, ManifestsOK, DataOK
  <1> QED
    BY <1>1, <1>2, <1>3

\* A new message that is neither of those that need more.
LEMMA NewGoodAny ==
  ASSUME FlowInv, Steady, NEW v, NEW c \in Client, NEW n \in Node, NEW b, NEW d,
         client'[c].at # "idle", Fits(Message(v, c, n, b, d)),
         c \in Put /\ v \in Before => ~Begun(c),
         v \in After => Begun(c) /\ c \in Put, v # "segment",
         v = "info" => d \in DOMAIN writes'[n], v \in Checks => client'[c].id = PutId(c),
         v # "delete-data" \/ \E q \in Put : Begun(q) /\ Erases(Message(v, c, n, b, d), q)
  PROVE  Good(Message(v, c, n, b, d))'
  <1> DEFINE k == Message(v, c, n, b, d)
  <1>1. k.verb = v /\ k.by = c /\ k.to = n /\ k.body = b /\ k.bound = d
    BY DEF Message
  <1>2. Fits(k)'
    BY FitsStays DEF Steady
  <1>3. k = Message(k.verb, k.by, k.to, k.body, k.bound)
    BY <1>1
  <1>4. v = "delete-data" => (\E q \in Put : Begun(q) /\ Erases(k, q))'
    <2>1. \A q \in Put : Begun(q) /\ Erases(k, q) => Begun(q)' /\ Erases(k, q)'
      BY DEF Steady, Erases
    <2> HIDE DEF k
    <2> QED
      BY <2>1 DEF k
  <1> HIDE DEF k
  <1>5. Good(k)'
    BY <1>1, <1>2, <1>3, <1>4 DEF Good, Steady
  <1> QED
    BY <1>5 DEF k

LEMMA NewGood ==
  ASSUME FlowInv, Steady, NEW v, NEW c \in Client, NEW n \in Node, NEW b, NEW d,
         client'[c].at # "idle", Fits(Message(v, c, n, b, d)),
         c \in Put /\ v \in Before => ~Begun(c),
         v \in After => Begun(c) /\ c \in Put, v # "segment", v # "delete-data",
         v = "info" => d \in DOMAIN writes'[n], v \in Checks => client'[c].id = PutId(c)
  PROVE  Good(Message(v, c, n, b, d))'
  BY NewGoodAny

\* One message is handled and one sent.
LEMMA AnswersAny ==
  ASSUME FlowInv, Steady,
         Typed', ClientsOK', WritesOK', DeletesOK', ManifestsOK', DataOK',
         NEW m \in mail, NEW v, NEW n \in Node, NEW b, NEW d,
         Handle(m, {Message(v, m.by, n, b, d)}), Fits(Message(v, m.by, n, b, d)),
         m.by \in Put /\ v \in Before => m.verb \in Before,
         v \in After => m.verb \in After, v # "info", v # "segment",
         v \in Checks => m.verb \in Checks,
         v # "delete-data" \/ \E q \in Put : Begun(q) /\ Erases(Message(v, m.by, n, b, d), q)
  PROVE  FlowInv'
  <1> DEFINE k == Message(v, m.by, n, b, d)
  <1>1. Good(m) /\ m.by \in Client /\ client'[m.by].at # "idle"
    BY DEF FlowInv, MailOK, Good, Steady
  <1>2. v \in After \cup Checks => m.by \in Put
    BY <1>1, ByPut DEF Good
  <1>3. v \in Checks => client'[m.by].id = PutId(m.by)
    BY <1>1, <1>2 DEF Good, Steady
  <1>4. Good(k)'
    BY <1>1, <1>2, <1>3, NewGoodAny DEF Good
  <1>5. k.verb = v /\ k.by = m.by
    BY DEF Message
  <1> HIDE DEF k
  <1>6. Handle(m, {k})
    BY DEF k
  <1> QED
    BY <1>4, <1>5, <1>6, Passes DEF Chained

LEMMA Answers ==
  ASSUME FlowInv, Steady,
         Typed', ClientsOK', WritesOK', DeletesOK', ManifestsOK', DataOK',
         NEW m \in mail, NEW v, NEW n \in Node, NEW b, NEW d,
         Handle(m, {Message(v, m.by, n, b, d)}), Fits(Message(v, m.by, n, b, d)),
         m.by \in Put /\ v \in Before => m.verb \in Before,
         v \in After => m.verb \in After, v # "info", v # "segment", v # "delete-data",
         v \in Checks => m.verb \in Checks
  PROVE  FlowInv'
  BY AnswersAny

LEMMA QuietAnswer ==
  ASSUME FlowInv, UNCHANGED <<segments, client, writes, deletes, diskVars, stuck, meant>>,
         NEW m \in mail, NEW v, NEW n \in Node, NEW b, NEW d,
         Handle(m, {Message(v, m.by, n, b, d)}), Fits(Message(v, m.by, n, b, d)),
         m.by \in Put /\ v \in Before => m.verb \in Before,
         v \in After => m.verb \in After, v # "info", v # "segment", v # "delete-data",
         v \in Checks => m.verb \in Checks
  PROVE  FlowInv'
  BY QuietStep, Answers

\* A message is handled, and no other sent.
LEMMA Ends ==
  ASSUME FlowInv, Steady, NEW m \in mail, Handle(m, {}),
         Typed', ClientsOK', WritesOK', DeletesOK', ManifestsOK', DataOK'
  PROVE  FlowInv'
  BY Passes

LEMMA InsertCommand ==
  ASSUME FlowInv, NEW m \in mail, HandleInsertCommand(m), UNCHANGED <<segments, stuck>>
  PROVE  FlowInv'
  <1> DEFINE p == m.by
             key == Key(NameOf[p])
             body == Encode([Name |-> HashName(key), ProcessId |-> Uninitialised])
             bound == [at |-> m.to, parameters |-> Decode(m.body)]
  <1>1. /\ m.verb = "insert" /\ p \in Put /\ m.to = Via[p]
        /\ Decode(m.body) = [Name |-> NameOf[p]] /\ p \in Client
    BY DEF HandleInsertCommand, FlowInv, MailOK, Good, Fits, FitsPut
  <1>2. Decode(m.body).Name = NameOf[p]
    BY <1>1
  <1>3. /\ Handle(m, {Message("find", p, Owner[key], body, bound)})
        /\ UNCHANGED <<segments, client, writes, deletes, diskVars, stuck, meant>>
    BY <1>2 DEF HandleInsertCommand, Command
  <1>4. Owner[key] \in Node
    BY <1>1, OwnerAssumption
  <1>5. Decode(body) = [Name |-> HashName(key), ProcessId |-> Uninitialised]
    BY IdDecodes
  <1>6. Fits(Message("find", p, Owner[key], body, bound))
    BY <1>1, <1>4, <1>5, ClientsAssumption DEF Fits, FitsPut, FitsGet, FitsDelete, Message
  <1> HIDE DEF body, bound, key
  <1> QED
    BY <1>1, <1>3, <1>4, <1>6, QuietAnswer DEF Before, After, Checks

LEMMA HashesDiffer ==
  ASSUME NEW a, NEW b, GetHash(a) = GetHash(b)
  PROVE  a = b
  <1>1. GetHash(a).hashOf = a /\ GetHash(b).hashOf = b
    BY DEF GetHash
  <1> QED
    BY <1>1

LEMMA FindCommand ==
  ASSUME FlowInv, NEW m \in mail, HandleFindCommand(m), UNCHANGED <<segments, stuck>>
  PROVE  FlowInv'
  <1> DEFINE c == m.by
             found == Stored(m.to, Decode(m.body).Name[1])
  <1>1. /\ m.verb = "find" /\ c \in Put \cup Get /\ c \in Client /\ m.to \in Node
        /\ c \in Put => m.bound = [at |-> Via[c], parameters |-> [Name |-> NameOf[c]]]
        /\ c \in Get => /\ m.bound = [at |-> Via[c]]
                        /\ Decode(m.body).Name = HashName(NameOf[c])
    BY DEF HandleFindCommand, FlowInv, MailOK, Good, Fits, FitsGet
  <1>2. m.bound.at = Via[c] /\ Via[c] \in Node
    BY <1>1, ClientsAssumption
  <1>3. /\ Handle(m, {Message("found", c, Via[c], found, m.bound)})
        /\ UNCHANGED <<segments, client, writes, deletes, diskVars, stuck, meant>>
    BY <1>2 DEF HandleFindCommand
  <1>4. c \in Get => \/ found = Nothing
                     \/ \E q \in Put : found = Text(q) /\ Key(NameOf[q]) = NameOf[c]
    <2> SUFFICES ASSUME c \in Get, found # Nothing
                 PROVE  \E q \in Put : found = Text(q) /\ Key(NameOf[q]) = NameOf[c]
      OBVIOUS
    <2> DEFINE h == GetHash(NameOf[c])
    <2>1. Decode(m.body).Name[1] = h
      BY <1>1 DEF HashName
    <2>2. h \in DOMAIN manifests[m.to] /\ found = manifests[m.to][h]
      BY <2>1 DEF Stored
    <2>3. PICK q \in Put : h = GetHash(Key(NameOf[q])) /\ manifests[m.to][h] = Text(q)
      BY <1>1, <2>2 DEF FlowInv, ManifestsOK
    <2> QED
      BY <2>2, <2>3, HashesDiffer
  <1> HIDE DEF found
  <1>5. Fits(Message("found", c, Via[c], found, m.bound))
    BY <1>1, <1>4 DEF Fits, FitsPut, FitsGet, FitsDelete, Message
  <1> QED
    BY <1>1, <1>2, <1>3, <1>5, QuietAnswer DEF Before, After, Checks

LEMMA CreateCommand ==
  ASSUME FlowInv, NEW m \in mail, HandleCreateCommand(m), UNCHANGED <<segments, stuck>>
  PROVE  FlowInv'
  <1> DEFINE p == m.by
             key == Key(NameOf[p])
             body == Encode([Name |-> HashName(key), ProcessId |-> PutId(p)])
  <1>1. /\ m.verb = "create" /\ p \in Put /\ p \in Client /\ m.to = Owner[key]
        /\ Decode(m.body) = [Name |-> HashName(key), ClusterPrefix |-> Via[p],
                             ProcessId |-> PutId(p)]
    BY DEF HandleCreateCommand, FlowInv, MailOK, Good, Fits, FitsPut
  <1>2. /\ Decode(m.body).Name = HashName(key) /\ Decode(m.body).ClusterPrefix = Via[p]
        /\ Decode(m.body).ProcessId = PutId(p)
    BY <1>1
  <1>3. /\ Handle(m, {Message("write-info", p, Via[p], body, m.to)})
        /\ UNCHANGED <<segments, client, writes, deletes, diskVars, stuck, meant>>
    BY <1>2 DEF HandleCreateCommand, Command
  <1>4. Via[p] \in Node
    BY <1>1, ClientsAssumption
  <1>5. Decode(body) = [Name |-> HashName(key), ProcessId |-> PutId(p)]
    BY IdDecodes
  <1>6. Fits(Message("write-info", p, Via[p], body, m.to))
    BY <1>1, <1>4, <1>5 DEF Fits, FitsPut, FitsGet, FitsDelete, Message
  <1> HIDE DEF body, key
  <1> QED
    BY <1>1, <1>3, <1>4, <1>6, QuietAnswer DEF Before, After, Checks

\* The process of a put is found by its id.
LEMMA ProcessOf ==
  ASSUME WritesOK, NEW p \in Put, PutId(p) \in DOMAIN writes[Via[p]]
  PROVE  LET w == writes[Via[p]][PutId(p)]
         IN  /\ Via[p] \in Node /\ w \in WriteProcess(p)
             /\ w.begun = TRUE => w.manifest = Manif(p)
             /\ w.count # 0 => w.begun = TRUE
  <1>1. Via[p] \in Node
    BY ClientsAssumption DEF Client
  <1>2. PICK q \in Put :
          /\ PutId(p) = PutId(q) /\ writes[Via[p]][PutId(p)] \in WriteProcess(q)
          /\ writes[Via[p]][PutId(p)].begun = TRUE
               => writes[Via[p]][PutId(p)].manifest = Manif(q)
          /\ writes[Via[p]][PutId(p)].count # 0 => writes[Via[p]][PutId(p)].begun = TRUE
    BY <1>1 DEF WritesOK
  <1>3. p = q
    BY <1>2 DEF PutId, Drawn
  <1> QED
    BY <1>1, <1>2, <1>3

LEMMA InfoCommand ==
  ASSUME FlowInv, NEW m \in mail, HandleInfoCommand(m), UNCHANGED <<segments, stuck>>
  PROVE  FlowInv'
  <1> DEFINE p == m.by
             key == Key(NameOf[p])
             text == Text(p)
  <1>1. /\ m.verb = "write-info" /\ p \in Put /\ p \in Client /\ m.to = Via[p]
        /\ m.bound = Owner[key] /\ Begun(p)
        /\ Decode(m.body) = [Name |-> HashName(key), ProcessId |-> PutId(p)]
    BY DEF HandleInfoCommand, FlowInv, MailOK, Good, Fits, FitsPut, After
  <1>2. Decode(m.body).ProcessId = PutId(p)
    BY <1>1
  <1>3. DOMAIN writes[Via[p]] \cap {PutId(p)} = {PutId(p)}
    BY <1>1 DEF Begun
  <1>4. ToJson(writes[Via[p]][PutId(p)].manifest) = text
    BY <1>1, ProcessOf DEF Begun, Text, FlowInv
  <1>5. /\ Handle(m, {Message("manifest", p, m.bound, ToJson(writes[m.to][x].manifest), Nothing)
                        : x \in DOMAIN writes[m.to] \cap {Decode(m.body).ProcessId}})
        /\ UNCHANGED <<segments, client, writes, deletes, diskVars, stuck, meant>>
    BY DEF HandleInfoCommand
  <1> HIDE DEF text
  <1>6. {Message("manifest", p, m.bound, ToJson(writes[m.to][x].manifest), Nothing)
           : x \in DOMAIN writes[m.to] \cap {Decode(m.body).ProcessId}}
          = {Message("manifest", p, Owner[key], text, Nothing)}
    BY <1>1, <1>2, <1>3, <1>4
  <1>7. Owner[key] \in Node
    BY <1>1, OwnerAssumption
  <1>8. Fits(Message("manifest", p, Owner[key], text, Nothing))
    BY <1>1 DEF Fits, FitsPut, FitsGet, FitsDelete, Message, text
  <1> HIDE DEF key
  <1> QED
    BY <1>1, <1>5, <1>6, <1>7, <1>8, QuietAnswer DEF Before, After, Checks

LEMMA GetInterest ==
  ASSUME FlowInv, NEW m \in mail, OnGetInterest(m), UNCHANGED <<segments, stuck>>
  PROVE  FlowInv'
  <1> DEFINE g == m.by
             name == NameOf[g]
             body == Encode([Name |-> HashName(name), ProcessId |-> Drawn("get", g)])
  <1>1. /\ m.verb = "get" /\ g \in Get /\ g \in Client /\ m.to = Via[g]
        /\ Decode(m.body) = [Name |-> name]
    BY DEF OnGetInterest, FlowInv, MailOK, Good, Fits, FitsGet
  <1>2. Decode(m.body).Name = name
    BY <1>1
  <1>3. /\ Handle(m, {Message("find", g, Owner[name], body, [at |-> m.to])})
        /\ UNCHANGED <<segments, client, writes, deletes, diskVars, stuck, meant>>
    BY <1>2 DEF OnGetInterest, Command
  <1>4. Owner[name] \in Node /\ g \notin Put
    BY <1>1, OwnerAssumption, ClientsAssumption
  <1>5. Decode(body) = [Name |-> HashName(name), ProcessId |-> Drawn("get", g)]
    BY IdDecodes
  <1>6. Fits(Message("find", g, Owner[name], body, [at |-> m.to]))
    BY <1>1, <1>4, <1>5 DEF Fits, FitsPut, FitsGet, FitsDelete, Message
  <1> HIDE DEF body, name
  <1> QED
    BY <1>1, <1>3, <1>4, <1>6, QuietAnswer DEF Before, After, Checks

\* Files may go, and a node may stop.
LEMMA FilesGo ==
  ASSUME FlowInv, UNCHANGED <<segments, client, writes, meant>>, stuck' \subseteq Node,
         DOMAIN manifests' = Node, DOMAIN data' = Node,
         \A n \in Node : \A x \in DOMAIN data'[n] :
           x \in DOMAIN data[n] /\ data'[n][x] = data[n][x],
         \A n \in Node : \A h \in DOMAIN manifests'[n] :
           h \in DOMAIN manifests[n] /\ manifests'[n][h] = manifests[n][h]
  PROVE  Steady /\ Typed' /\ ClientsOK' /\ WritesOK' /\ ManifestsOK' /\ DataOK'
  <1>1. Steady
    BY Unbegun DEF Steady
  <1>2. Typed' /\ ClientsOK' /\ WritesOK'
    BY Unbegun DEF FlowInv, Typed, ClientsOK
  <1>3. ManifestsOK' /\ DataOK'
    BY <1>1, ManifestsStay, DataStays DEF FlowInv
  <1> QED
    BY <1>1, <1>2, <1>3

\* A process is made or changed, or processes are forgotten.
LEMMA DeletesWith ==
  ASSUME DeletesOK, NEW n \in Node, NEW id, NEW process, DeleteProcess(n, id, process),
         deletes' = [deletes EXCEPT ![n] = With(@, id, process)]
  PROVE  DeletesOK'
  <1> DEFINE there == With(deletes[n], id, process)
  <1>1. /\ DOMAIN there = DOMAIN deletes[n] \cup {id} /\ there[id] = process
        /\ \A x \in DOMAIN deletes[n] : x # id => there[x] = deletes[n][x]
    BY DEF With
  <1>2. deletes' = [deletes EXCEPT ![n] = there]
    OBVIOUS
  <1> HIDE DEF there
  <1>3. \A i \in Node : \A x \in DOMAIN deletes'[i] : DeleteProcess(i, x, deletes'[i][x])
    BY <1>1, <1>2 DEF DeletesOK
  <1>4. DOMAIN deletes' = Node
    BY <1>2 DEF DeletesOK
  <1> QED
    BY <1>3, <1>4 DEF DeletesOK, DeleteProcess

LEMMA DeletesBut ==
  ASSUME DeletesOK, NEW n \in Node, NEW S, deletes' = [deletes EXCEPT ![n] = But(@, S)]
  PROVE  DeletesOK'
  <1> DEFINE left == But(deletes[n], S)
  <1>1. /\ DOMAIN left \subseteq DOMAIN deletes[n]
        /\ \A x \in DOMAIN left : left[x] = deletes[n][x]
    BY DEF But
  <1>2. deletes' = [deletes EXCEPT ![n] = left]
    OBVIOUS
  <1> HIDE DEF left
  <1>3. \A i \in Node : \A x \in DOMAIN deletes'[i] : DeleteProcess(i, x, deletes'[i][x])
    BY <1>1, <1>2 DEF DeletesOK
  <1>4. DOMAIN deletes' = Node
    BY <1>2 DEF DeletesOK
  <1> QED
    BY <1>3, <1>4 DEF DeletesOK, DeleteProcess

\* The process under an id that was drawn for d is of d.
LEMMA ProcessOfDelete ==
  ASSUME DeletesOK, NEW n \in Node, NEW d, DelId(d) \in DOMAIN deletes[n]
  PROVE  /\ deletes[n][DelId(d)].by = d
         /\ deletes[n][DelId(d)].hash \in {Nothing, GetHash(NameOf[d])}
  <1>1. DeleteProcess(n, DelId(d), deletes[n][DelId(d)]) /\ DelId(d) # Zero
    BY DEF DeletesOK, DelId, Drawn, Zero
  <1>2. PICK e \in Delete :
          /\ DelId(d) = DelId(e)
          /\ \E h \in {Nothing, GetHash(NameOf[e])} :
               deletes[n][DelId(d)] = [by |-> e, hash |-> h]
    BY <1>1 DEF DeleteProcess
  <1>3. e = d
    BY <1>2 DEF DelId, Drawn
  <1> QED
    BY <1>2, <1>3

LEMMA DeleteCommand ==
  ASSUME FlowInv, NEW m \in mail, HandleDeleteCommand(m), UNCHANGED <<segments, stuck>>
  PROVE  FlowInv'
  <1> DEFINE d == m.by
             name == NameOf[d]
             body == Encode([Name |-> HashName(name), ProcessId |-> Zero])
  <1>1. /\ m.verb = "delete" /\ d \in Delete /\ d \in Client
        /\ Decode(m.body) = [Name |-> name, ProcessId |-> Zero]
    BY DEF HandleDeleteCommand, FlowInv, MailOK, Good, Fits, FitsDelete
  <1>2. Decode(m.body).Name = name /\ Decode(m.body).ProcessId = Zero
    BY <1>1
  <1>3. /\ Handle(m, {Message("delete-manifest", d, Owner[name], body, Nothing)})
        /\ deletes' = [deletes EXCEPT ![m.to] =
                         With(@, Zero, [Process(m.to, Zero) EXCEPT !.by = d])]
        /\ UNCHANGED <<segments, client, writes, diskVars, stuck, meant>>
    BY <1>2 DEF HandleDeleteCommand, Command
  <1>4. Owner[name] \in Node /\ d \notin Put
    BY <1>1, OwnerAssumption, ClientsAssumption
  <1>5. Decode(body) = [Name |-> HashName(name), ProcessId |-> Zero]
    BY IdDecodes
  <1>6. Fits(Message("delete-manifest", d, Owner[name], body, Nothing))
    BY <1>1, <1>4, <1>5 DEF Fits, FitsPut, FitsGet, FitsDelete, Message
  <1> HIDE DEF body, name
  <1>7. Steady /\ Typed' /\ ClientsOK' /\ WritesOK' /\ ManifestsOK' /\ DataOK'
    BY <1>3, FilesGo DEF diskVars, FlowInv, Typed, ManifestsOK, DataOK
  <1>8. m.to \in Node
    BY DEF FlowInv, MailOK, Good
  <1>9. \E e : Process(m.to, Zero) = [by |-> e, hash |-> Nothing]
    <2>1. CASE Zero \in DOMAIN deletes[m.to]
      <3>1. DeleteProcess(m.to, Zero, deletes[m.to][Zero]) /\ \A e : DelId(e) # Zero
        BY <1>8, <2>1 DEF FlowInv, DeletesOK, DelId, Drawn, Zero
      <3> QED
        BY <2>1, <3>1 DEF Process, DeleteProcess
    <2> QED
      BY <2>1 DEF Process
  <1>10. [Process(m.to, Zero) EXCEPT !.by = d] = [by |-> d, hash |-> Nothing]
    BY <1>9
  <1>11. DeletesOK'
    <2> DEFINE process == [by |-> d, hash |-> Nothing]
    <2>1. deletes' = [deletes EXCEPT ![m.to] = With(@, Zero, process)]
      BY <1>3, <1>10
    <2>2. DeleteProcess(m.to, Zero, process)
      BY <1>1 DEF DeleteProcess
    <2> HIDE DEF process
    <2> QED
      BY <1>8, <2>1, <2>2, DeletesWith DEF FlowInv
  <1> QED
    BY <1>1, <1>3, <1>4, <1>6, <1>7, <1>11, Answers DEF Before, After, Checks

-----------------------------------------------------------------------------
(* Manifests and their texts.                                              *)

LEMMA Texts ==
  ASSUME NEW p \in Put
  PROVE  /\ FromJson(Text(p)) = Manif(p) /\ ToJson(Manif(p)) = Text(p)
         /\ Manif(p).name = Key(NameOf[p]) /\ HashOf(Manif(p)) = GetHash(Key(NameOf[p]))
         /\ Manif(p).repos[1] = [name |-> Via[p], start |-> 0, end |-> segments[p] - 1]
  <1> DEFINE repo == [name |-> Via[p], start |-> 0, end |-> segments[p] - 1]
             m == [name |-> Key(NameOf[p]), hash |-> <<>>, start |-> 0,
                   end |-> segments[p] - 1, repos |-> <<repo>>]
  <1>1. Append(<<>>, repo) = <<repo>>
    OBVIOUS
  <1>2. Manif(p) = m
    BY <1>1 DEF Manif, ManifestOf, AppendRepo, NewManifest
  <1>3. HashOf(m) = GetHash(Key(NameOf[p]))
    BY DEF HashOf
  <1>4. FromJson(ToJson(m)) = m
    BY DEF FromJson, ToJson, NewManifest
  <1> HIDE DEF repo
  <1>5. m.name = Key(NameOf[p]) /\ m.repos[1] = repo
    OBVIOUS
  <1> QED
    BY <1>2, <1>3, <1>4, <1>5 DEF Text, repo

-----------------------------------------------------------------------------
(* Deleting.                                                               *)

LEMMA DeleteManifestCommand ==
  ASSUME FlowInv, NEW m \in mail, HandleDeleteManifestCommand(m), UNCHANGED <<segments, stuck>>
  PROVE  FlowInv'
  <1> DEFINE d == m.by
             name == NameOf[d]
             n == Owner[name]
             h == GetHash(name)
  <1>1. /\ m.verb = "delete-manifest" /\ d \in Delete /\ d \in Client /\ d \notin Put
        /\ m.to = n /\ n \in Node
        /\ Decode(m.body) = [Name |-> HashName(name), ProcessId |-> Zero]
    BY ClientsAssumption
       DEF HandleDeleteManifestCommand, FlowInv, MailOK, Good, Fits, FitsDelete
  <1>2. Decode(m.body).Name[1] = h
    <2>1. Decode(m.body).Name = HashName(name)
      BY <1>1
    <2> QED
      BY <2>1 DEF HashName
  <1>3. /\ UNCHANGED <<segments, client, writes, diskVars, stuck, meant>>
        /\ deletes' = [deletes EXCEPT ![n] =
             With(@, DelId(d),
                  [by |-> d, hash |-> IF Stored(n, h) = Nothing THEN Nothing ELSE h])]
    BY <1>1, <1>2 DEF HandleDeleteManifestCommand, DeleteId, DelId
  <1>8. Steady /\ Typed' /\ ClientsOK' /\ WritesOK' /\ ManifestsOK' /\ DataOK'
    BY <1>3, FilesGo DEF diskVars, FlowInv, Typed, ManifestsOK, DataOK
  <1>9. DeletesOK'
    <2> DEFINE hash == IF Stored(n, h) = Nothing THEN Nothing ELSE h
               process == [by |-> d, hash |-> hash]
    <2>1. deletes' = [deletes EXCEPT ![n] = With(@, DelId(d), process)]
      BY <1>3
    <2>2. hash \in {Nothing, h}
      OBVIOUS
    <2> HIDE DEF hash
    <2>3. DeleteProcess(n, DelId(d), process)
      BY <1>1, <2>2 DEF DeleteProcess
    <2> HIDE DEF process, n
    <2> QED
      BY <1>1, <2>1, <2>3, DeletesWith DEF FlowInv
  <1>4. CASE Stored(n, h) = Nothing
    <2> DEFINE b == EncodeResponse([StatusCode |-> 405])
    <2>1. Handle(m, {Message("deleted", d, Via[d], b, Zero)})
      BY <1>1, <1>2, <1>4 DEF HandleDeleteManifestCommand, Deleted
    <2>2. Fits(Message("deleted", d, Via[d], b, Zero)) /\ Via[d] \in Node
      BY <1>1, ClientsAssumption DEF Fits, FitsPut, FitsGet, FitsDelete, Message
    <2> HIDE DEF b, n
    <2> QED
      BY <1>1, <1>8, <1>9, <2>1, <2>2, Answers DEF Before, After, Checks
  <1>5. CASE Stored(n, h) # Nothing
    <2>1. h \in DOMAIN manifests[n] /\ Stored(n, h) = manifests[n][h]
      BY <1>5 DEF Stored
    <2>2. PICK q \in Put :
            h = GetHash(Key(NameOf[q])) /\ Stored(n, h) = Text(q) /\ Begun(q)
      BY <1>1, <2>1 DEF FlowInv, ManifestsOK
    <2>3. Key(NameOf[q]) = name /\ Via[q] \in Node
      BY <2>2, HashesDiffer, ClientsAssumption DEF Client
    <2> DEFINE body == [Name |-> name, StartBlockId |-> SegmentNo(0),
                        EndBlockId |-> SegmentNo(segments[q] - 1),
                        ProcessId |-> Drawn("delete-data", d)]
               bound == [at |-> n, id |-> DelId(d)]
    <2>4. /\ FromJson(Stored(n, h)).name = name
          /\ FromJson(Stored(n, h)).repos[1] =
               [name |-> Via[q], start |-> 0, end |-> segments[q] - 1]
      BY <2>2, <2>3, Texts
    <2>5. Handle(m, {DeleteData(m, DelId(d), FromJson(Stored(n, h)))})
      BY <1>1, <1>2, <1>5 DEF HandleDeleteManifestCommand, DeleteId, DelId
    <2>6. DeleteData(m, DelId(d), FromJson(Stored(n, h)))
            = Message("delete-data", d, Via[q], Encode(body), bound)
      BY <1>1, <2>4 DEF DeleteData, Command
    <2>7. /\ Fits(Message("delete-data", d, Via[q], Encode(body), bound))
          /\ Erases(Message("delete-data", d, Via[q], Encode(body), bound), q)
      <3>1. Decode(Encode(body)) = body
        BY RangeDecodes
      <3> QED
        BY <1>1, <2>3, <3>1 DEF Fits, FitsPut, FitsGet, FitsDelete, Erases, Message
    <2> HIDE DEF body, bound
    <2> HIDE DEF n
    <2> QED
      BY <1>1, <1>8, <1>9, <2>2, <2>3, <2>5, <2>6, <2>7, AnswersAny DEF Before, After, Checks
  <1> QED
    BY <1>4, <1>5

LEMMA DeleteDataCommand ==
  ASSUME FlowInv, NEW m \in mail, HandleDeleteDataCommand(m), UNCHANGED segments
  PROVE  FlowInv'
  <1> DEFINE d == m.by
             n == Owner[NameOf[d]]
             par == Decode(m.body)
             gone == {par.Name} \X (par.StartBlockId .. par.EndBlockId)
             b == EncodeResponse([StatusCode |-> 200])
             k == Message("data deleted", d, n, b, DelId(d))
  <1>1. /\ m.verb = "delete-data" /\ d \in Delete /\ d \in Client /\ d \notin Put
        /\ m.bound = [at |-> n, id |-> DelId(d)] /\ m.to \in Node
    BY ClientsAssumption
       DEF HandleDeleteDataCommand, FlowInv, MailOK, Good, Fits, FitsDelete
  <1>2. m.bound.at = n /\ m.bound.id = DelId(d) /\ n \in Node
    BY <1>1, OwnerAssumption
  <1>3. /\ data' = [data EXCEPT ![m.to] = But(@, gone)]
        /\ UNCHANGED <<segments, client, writes, deletes, manifests, meant>>
        /\ Handle(m, {}) \/ Handle(m, {Message("data deleted", d, m.bound.at, b, m.bound.id)})
        /\ stuck' \in {stuck, stuck \cup {m.to}}
    BY DEF HandleDeleteDataCommand
  <1>4. Steady /\ Typed' /\ ClientsOK' /\ WritesOK' /\ ManifestsOK' /\ DataOK'
    <2> HIDE DEF gone
    <2>1. /\ DOMAIN data' = Node /\ DOMAIN manifests' = Node
          /\ \A i \in Node : \A x \in DOMAIN data'[i] :
               x \in DOMAIN data[i] /\ data'[i][x] = data[i][x]
      BY <1>1, <1>3 DEF FlowInv, DataOK, ManifestsOK, But
    <2>2. stuck' \subseteq Node
      BY <1>1, <1>3 DEF FlowInv, Typed
    <2> QED
      BY <1>3, <2>1, <2>2, FilesGo
  <1>5. DeletesOK'
    <2> HIDE DEF gone, b
    <2> QED
      BY <1>3 DEF FlowInv, DeletesOK, DeleteProcess
  <1>6. CASE Handle(m, {})
    <2> HIDE DEF gone, b
    <2> QED
      BY <1>4, <1>5, <1>6, Ends
  <1>7. CASE Handle(m, {Message("data deleted", d, m.bound.at, b, m.bound.id)})
    <2>1. Handle(m, {k})
      BY <1>2, <1>7
    <2>2. Fits(k)
      BY <1>1 DEF Fits, FitsPut, FitsGet, FitsDelete, Message
    <2> HIDE DEF b, n
    <2> QED
      BY <1>1, <1>2, <1>4, <1>5, <2>1, <2>2, Answers DEF Before, After, Checks
  <1> QED
    BY <1>3, <1>6, <1>7

LEMMA DeleteDataResponse ==
  ASSUME FlowInv, NEW m \in mail, OnDeleteDataCommandResponse(m), UNCHANGED <<segments, stuck>>
  PROVE  FlowInv'
  <1> DEFINE d == m.by
             n == Owner[NameOf[d]]
             id == DelId(d)
             b == EncodeResponse([StatusCode |-> 200])
  <1>1. /\ m.verb = "data deleted" /\ d \in Delete /\ d \in Client /\ d \notin Put
        /\ m.bound = id /\ m.to = n /\ n \in Node
    BY ClientsAssumption
       DEF OnDeleteDataCommandResponse, FlowInv, MailOK, Good, Fits, FitsDelete
  <1>2. /\ deletes' = [deletes EXCEPT ![n] = But(@, {id})]
        /\ UNCHANGED <<segments, client, writes, data, meant, stuck>>
    BY <1>1 DEF OnDeleteDataCommandResponse
  <1>3. DeletesOK'
    <2> HIDE DEF n
    <2> QED
      BY <1>1, <1>2, DeletesBut DEF FlowInv
  <1>4. CASE id \notin DOMAIN deletes[n]
    <2>1. Handle(m, {}) /\ UNCHANGED manifests
      BY <1>1, <1>4 DEF OnDeleteDataCommandResponse
    <2>2. Steady /\ Typed' /\ ClientsOK' /\ WritesOK' /\ ManifestsOK' /\ DataOK'
      BY <1>2, <2>1, FilesGo DEF FlowInv, Typed, ManifestsOK, DataOK
    <2> QED
      BY <1>3, <2>1, <2>2, Ends
  <1>5. CASE id \in DOMAIN deletes[n]
    <2> DEFINE hash == deletes[n][id].hash
    <2>1. deletes[n][id].by = d
      BY <1>1, <1>5, ProcessOfDelete DEF FlowInv
    <2>3. /\ Handle(m, {Deleted(d, 200)})
          /\ manifests' = [manifests EXCEPT ![n] = But(@, {hash})]
      BY <1>1, <1>5, <2>1 DEF OnDeleteDataCommandResponse
    <2>4. Fits(Message("deleted", d, Via[d], b, Zero)) /\ Via[d] \in Node
      BY <1>1, ClientsAssumption DEF Fits, FitsPut, FitsGet, FitsDelete, Message
    <2> HIDE DEF hash
    <2>5. /\ DOMAIN manifests' = Node /\ DOMAIN data' = Node
          /\ \A i \in Node : \A h \in DOMAIN manifests'[i] :
               h \in DOMAIN manifests[i] /\ manifests'[i][h] = manifests[i][h]
      BY <1>1, <1>2, <2>3 DEF FlowInv, ManifestsOK, DataOK, But
    <2>6. Steady /\ Typed' /\ ClientsOK' /\ WritesOK' /\ ManifestsOK' /\ DataOK'
      BY <1>2, <2>5, FilesGo DEF FlowInv, Typed
    <2> QED
      BY <1>1, <1>3, <2>3, <2>4, <2>6, Answers DEF Before, After, Checks, Deleted
  <1> QED
    BY <1>4, <1>5

-----------------------------------------------------------------------------
(* Clients.                                                                *)

LEMMA DeletesStay ==
  ASSUME FlowInv, UNCHANGED deletes
  PROVE  DeletesOK'
  BY DEF FlowInv, DeletesOK, DeleteProcess

\* A client moves on, and never back to where it began.
LEMMA ClientStep ==
  ASSUME FlowInv, UNCHANGED <<segments, writes, diskVars, stuck>>, DeletesOK',
         meant' \in [Delete -> Put \cup {Nothing}],
         NEW c \in Client, NEW r \in ClientState, client' = [client EXCEPT ![c] = r],
         r.at # "idle", c \in Put /\ r.at = "checking" => r.id = PutId(c),
         c \in Put /\ client[c].id = PutId(c) => r.id = PutId(c)
  PROVE  /\ Steady
         /\ Typed' /\ ClientsOK' /\ WritesOK' /\ DeletesOK' /\ ManifestsOK' /\ DataOK'
  <1>1. /\ client' \in [Client -> ClientState] /\ client'[c] = r
        /\ \A e \in Client : e # c => client'[e] = client[e]
    BY DEF FlowInv, ClientsOK
  <1>2. \A p \in Put : p \in Client
    BY DEF Client
  <1>3. Steady
    BY <1>1, Unbegun DEF Steady, diskVars, FlowInv, DataOK
  <1>4. Typed' /\ WritesOK' /\ DeletesOK'
    BY Unbegun DEF FlowInv, Typed
  <1>5. ClientsOK'
    BY <1>1, <1>2, Unbegun DEF FlowInv, ClientsOK
  <1>6. ManifestsOK' /\ DataOK'
    BY <1>3, ManifestsStay, DataStays DEF FlowInv, diskVars, ManifestsOK, DataOK
  <1> QED
    BY <1>3, <1>4, <1>5, <1>6

\* An answer comes to a client.
LEMMA ClientHears ==
  ASSUME FlowInv, UNCHANGED <<segments, writes, diskVars, stuck, meant>>, DeletesOK',
         NEW m \in mail, Handle(m, {}), NEW r \in ClientState,
         client' = [client EXCEPT ![m.by] = r],
         r.at # "idle", m.by \in Put /\ r.at = "checking" => r.id = PutId(m.by),
         m.by \in Put /\ client[m.by].id = PutId(m.by) => r.id = PutId(m.by)
  PROVE  FlowInv'
  <1>1. m.by \in Client
    BY DEF FlowInv, MailOK, Good
  <1>2. meant' \in [Delete -> Put \cup {Nothing}]
    BY DEF FlowInv, Typed
  <1> QED
    BY <1>1, <1>2, ClientStep, Ends

LEMMA HeardBy ==
  ASSUME FlowInv, NEW m \in mail
  PROVE  m.by \in Client /\ client[m.by] \in ClientState /\ client[m.by].at # "idle"
  BY DEF FlowInv, MailOK, Good, ClientsOK

LEMMA InsertResponse ==
  ASSUME FlowInv, NEW m \in mail, OnInsertCommandResponse(m), UNCHANGED <<segments, stuck>>
  PROVE  FlowInv'
  <1> DEFINE p == m.by
             old == client[p]
             response == DecodeResponse(m.body)
             at == [old EXCEPT !.at = "checking"]
             failed == [old EXCEPT !.at = "failed"]
             checking == [at EXCEPT !.id = response.ProcessId]
  <1>1. /\ p \in Client /\ old \in ClientState /\ old.at # "idle" /\ p \in Put
        /\ p \in Put /\ old.at = "checking" => old.id = PutId(p)
        /\ \/ response = [StatusCode |-> 403]
           \/ response = [StatusCode |-> 100, ProcessId |-> PutId(p), InsertNum |-> 0]
    BY HeardBy
       DEF OnInsertCommandResponse, FlowInv, MailOK, Good, Fits, FitsPut, ClientsOK
  <1>2. /\ Handle(m, {})
        /\ UNCHANGED <<segments, writes, deletes, diskVars, stuck, meant>>
        /\ client' = [client EXCEPT ![p] =
             IF p \notin Running THEN @
             ELSE IF response.StatusCode >= 400 THEN [@ EXCEPT !.at = "failed"]
             ELSE [@ EXCEPT !.at = "checking", !.id = response.ProcessId]]
    BY Zenon DEF OnInsertCommandResponse
  <1>3. failed \in ClientState /\ failed.at = "failed" /\ failed.id = old.id
    BY <1>1 DEF ClientState
  <1>4. response.StatusCode >= 400 \/ response.ProcessId = PutId(p)
    BY <1>1
  <1>5. response.ProcessId = PutId(p) => checking \in ClientState /\ checking.id = PutId(p)
                                         /\ checking.at = "checking"
    <2>1. at \in ClientState /\ at.at = "checking"
      BY <1>1 DEF ClientState
    <2> HIDE DEF at
    <2>2. PutId(p) \in {Nothing} \cup ({"insert"} \X Put)
      BY <1>1 DEF PutId, Drawn
    <2> QED
      BY <2>1, <2>2 DEF ClientState
  <1>6. [old EXCEPT !.at = "checking", !.id = response.ProcessId] = checking
    BY <1>1 DEF ClientState
  <1> HIDE DEF failed, checking, response
  <1>7. CASE p \notin Running
    <2>1. client' = [client EXCEPT ![p] = old]
      BY <1>2, <1>7
    <2> QED
      BY <1>1, <1>2, <2>1, ClientHears, DeletesStay
  <1>8. CASE p \in Running /\ response.StatusCode >= 400
    <2>1. client' = [client EXCEPT ![p] = failed]
      BY <1>2, <1>8 DEF failed
    <2> QED
      BY <1>1, <1>2, <1>3, <2>1, ClientHears, DeletesStay
  <1>9. CASE p \in Running /\ ~(response.StatusCode >= 400)
    <2>1. client' = [client EXCEPT ![p] = checking]
      BY <1>2, <1>6, <1>9
    <2> QED
      BY <1>1, <1>2, <1>4, <1>5, <1>9, <2>1, ClientHears, DeletesStay
  <1> QED
    BY <1>7, <1>8, <1>9

\* A client's new "at" is one of those that follow, "checking" if it has an id.
LEMMA HearsAt ==
  ASSUME FlowInv, UNCHANGED <<segments, writes, diskVars, stuck, meant>>, DeletesOK',
         NEW m \in mail, Handle(m, {}), NEW at \in {"asking", "checking", "done", "failed"},
         client' = [client EXCEPT ![m.by].at = at],
         m.by \in Put /\ at = "checking" => client[m.by].id = PutId(m.by)
  PROVE  FlowInv'
  <1> DEFINE r == [client[m.by] EXCEPT !.at = at]
  <1>1. /\ m.by \in Client /\ client[m.by] \in ClientState
        /\ client \in [Client -> ClientState]
    BY HeardBy DEF FlowInv, ClientsOK
  <1>2. r \in ClientState /\ r.at = at /\ r.id = client[m.by].id
    BY <1>1 DEF ClientState
  <1>3. client' = [client EXCEPT ![m.by] = r]
    BY <1>1
  <1> HIDE DEF r
  <1> QED
    BY <1>2, <1>3, ClientHears

LEMMA PutFileInterest ==
  ASSUME FlowInv, NEW m \in mail, OnPutFileInterest(m), UNCHANGED <<segments, stuck>>
  PROVE  FlowInv'
  <1> DEFINE at == IF m.by \in Running THEN "failed" ELSE client[m.by].at
  <1>1. /\ m.by \in Client /\ client[m.by] \in ClientState /\ client[m.by].at # "idle"
        /\ m.by \in Put /\ client[m.by].at = "checking" => client[m.by].id = PutId(m.by)
    BY HeardBy DEF FlowInv, ClientsOK
  <1>2. at \in {"asking", "checking", "done", "failed"}
    BY <1>1 DEF ClientState
  <1>3. /\ Handle(m, {}) /\ client' = [client EXCEPT ![m.by].at = at]
        /\ UNCHANGED <<segments, writes, deletes, diskVars, stuck, meant>>
    BY DEF OnPutFileInterest
  <1>4. at = "checking" => client[m.by].at = "checking"
    OBVIOUS
  <1> HIDE DEF at
  <1> QED
    BY <1>1, <1>2, <1>3, <1>4, HearsAt, DeletesStay

LEMMA CheckResponse ==
  ASSUME FlowInv, NEW m \in mail, OnCheckCommandResponse(m), UNCHANGED <<segments, stuck>>
  PROVE  FlowInv'
  <1> DEFINE code == DecodeResponse(m.body).StatusCode
             count == DecodeResponse(m.body).InsertNum
             at == IF m.by \notin Running THEN client[m.by].at
                   ELSE IF code >= 400 THEN "failed"
                   ELSE IF count = segments[m.by] THEN "done" ELSE "checking"
  <1>1. /\ m.by \in Client /\ client[m.by] \in ClientState /\ client[m.by].at # "idle"
        /\ client[m.by].id = PutId(m.by)
    BY HeardBy DEF FlowInv, MailOK, Good, Checks, OnCheckCommandResponse
  <1>2. at \in {"asking", "checking", "done", "failed"}
    BY <1>1 DEF ClientState
  <1>3. /\ Handle(m, {}) /\ client' = [client EXCEPT ![m.by].at = at]
        /\ UNCHANGED <<segments, writes, deletes, diskVars, stuck, meant>>
    BY DEF OnCheckCommandResponse
  <1> HIDE DEF at
  <1> QED
    BY <1>1, <1>2, <1>3, HearsAt, DeletesStay

LEMMA DeleteResponse ==
  ASSUME FlowInv, NEW m \in mail, OnDeleteCommandResponse(m), UNCHANGED <<segments, stuck>>
  PROVE  FlowInv'
  <1> DEFINE at == IF DecodeResponse(m.body).StatusCode = 200 THEN "done" ELSE "failed"
  <1>1. /\ Handle(m, {}) /\ client' = [client EXCEPT ![m.by].at = at]
        /\ UNCHANGED <<segments, writes, diskVars, stuck, meant>>
        /\ deletes' = [deletes EXCEPT ![m.to] = But(@, {m.bound})]
    BY DEF OnDeleteCommandResponse
  <1>2. at \in {"asking", "checking", "done", "failed"} /\ at # "checking"
    OBVIOUS
  <1> HIDE DEF at
  <1>3. DeletesOK'
    BY <1>1, DeletesBut DEF FlowInv, MailOK, Good
  <1> QED
    BY <1>1, <1>2, <1>3, HearsAt

LEMMA SizeOf ==
  ASSUME Typed, NEW p \in Put
  PROVE  segments[p] \in Nat /\ segments[p] < Word
  <1>1. segments \in [Put -> 0 .. Word - 1] /\ Word \in Nat
    BY ClientsAssumption DEF Typed
  <1> QED
    BY <1>1

LEMMA KeyOfKey ==
  ASSUME NEW name
  PROVE  Key(Key(name)) = Key(name)
  BY DEF Key

\* What a reader gets by the manifest of q: a put of that key which is whole.
LEMMA ReadsWhole ==
  ASSUME FlowInv, NEW q \in Put, NEW r, r = ReadBy(Text(q)), r # Nothing
  PROVE  /\ r \in Put /\ NameOf[r] = Key(NameOf[q]) /\ Begun(r) /\ Via[r] \in Node
         /\ 0 < segments[r]
         /\ \A s \in 0 .. segments[r] - 1 : /\ <<NameOf[r], s>> \in DOMAIN data[Via[r]]
                                            /\ data[Via[r]][<<NameOf[r], s>>] = r
  <1> DEFINE key == Key(NameOf[q])
             there == data[Via[q]]
  <1>1. FromJson(Text(q)).repos[1].name = Via[q] /\ FromJson(Text(q)).name = key
    <2>1. FromJson(Text(q)).repos[1] = [name |-> Via[q], start |-> 0, end |-> segments[q] - 1]
      BY Texts
    <2> QED
      BY <2>1, Texts
  <1>2. /\ <<key, 0>> \in DOMAIN there /\ r = there[<<key, 0>>]
        /\ \A s \in 0 .. segments[r] - 1 : <<key, s>> \in DOMAIN there /\ there[<<key, s>>] = r
    BY <1>1 DEF ReadBy
  <1>3. Via[q] \in Node
    BY ClientsAssumption DEF Client
  <1>4. /\ r \in Put /\ Via[q] = Via[r] /\ Begun(r)
        /\ \E s \in 0 .. segments[r] - 1 : <<key, 0>> = <<NameOf[r], s>>
    BY <1>2, <1>3 DEF FlowInv, DataOK
  <1>5. segments[r] \in Nat
    BY <1>4, SizeOf DEF FlowInv
  <1> HIDE DEF key
  <1>6. NameOf[r] = key /\ 0 < segments[r]
    BY <1>4, <1>5
  <1> QED
    BY <1>2, <1>3, <1>4, <1>6 DEF key

LEMMA ReadsNothing == ReadBy(Nothing) = Nothing
  BY DEF ReadBy

\* What can be read under the name of a client is what a put of that name wrote.
LEMMA ReadsItsName ==
  ASSUME FlowInv, NEW c \in Client, ReadableOf(NameOf[c]) # Nothing
  PROVE  \E q \in Put : /\ Stored(Owner[NameOf[c]], GetHash(NameOf[c])) = Text(q)
                        /\ Key(NameOf[q]) = NameOf[c]
  <1> DEFINE n == Owner[NameOf[c]]
             h == GetHash(NameOf[c])
  <1>1. n \in Node
    BY OwnerAssumption
  <1>2. Stored(n, h) # Nothing
    BY ReadsNothing DEF ReadableOf
  <1>3. h \in DOMAIN manifests[n] /\ Stored(n, h) = manifests[n][h]
    BY <1>2 DEF Stored
  <1>4. PICK q \in Put : h = GetHash(Key(NameOf[q])) /\ manifests[n][h] = Text(q)
    BY <1>1, <1>3 DEF FlowInv, ManifestsOK
  <1> QED
    BY <1>3, <1>4, HashesDiffer

LEMMA GetResponse ==
  ASSUME FlowInv, NEW m \in mail, OnGetCommandResponse(m), UNCHANGED <<segments, stuck>>
  PROVE  FlowInv'
  <1> DEFINE g == m.by
             read == ReadBy(m.body)
             failed == [client[g] EXCEPT !.at = "failed"]
             at == [client[g] EXCEPT !.at = "done"]
             done == [at EXCEPT !.content = read]
  <1>1. /\ g \in Client /\ client[g] \in ClientState /\ g \in Get /\ g \notin Put
        /\ m.body = Nothing \/ \E q \in Put : m.body = Text(q)
    BY HeardBy, ClientsAssumption DEF OnGetCommandResponse, FlowInv, MailOK, Good, Fits, FitsGet
  <1>2. read = Nothing \/ read \in Put
    BY <1>1, ReadsNothing, ReadsWhole
  <1>3. failed \in ClientState /\ failed.at = "failed"
    BY <1>1 DEF ClientState
  <1>4. read \in Put => done \in ClientState /\ done.at = "done"
    <2>1. at \in ClientState /\ at.at = "done"
      BY <1>1 DEF ClientState
    <2> HIDE DEF at, read
    <2> QED
      BY <2>1 DEF ClientState
  <1>5. [client[g] EXCEPT !.at = "done", !.content = read] = done
    BY <1>1 DEF ClientState
  <1>6. /\ Handle(m, {})
        /\ UNCHANGED <<segments, writes, deletes, diskVars, stuck, meant>>
        /\ client' = [client EXCEPT ![g] =
             IF read = Nothing THEN [@ EXCEPT !.at = "failed"]
             ELSE [@ EXCEPT !.at = "done", !.content = read]]
    BY Zenon DEF OnGetCommandResponse
  <1> HIDE DEF read, done
  <1>7. CASE read = Nothing
    <2>1. client' = [client EXCEPT ![g] = failed]
      BY <1>6, <1>7
    <2> HIDE DEF failed
    <2> QED
      BY <1>1, <1>3, <1>6, <2>1, ClientHears, DeletesStay
  <1>8. CASE read # Nothing
    <2>1. client' = [client EXCEPT ![g] = done]
      BY <1>5, <1>6, <1>8
    <2> HIDE DEF failed
    <2> QED
      BY <1>1, <1>2, <1>4, <1>6, <1>8, <2>1, ClientHears, DeletesStay
  <1> QED
    BY <1>7, <1>8

\* A client asks: one that has begun nothing yet, or a put that checks.
LEMMA ClientAsks ==
  ASSUME FlowInv, UNCHANGED <<segments, writes, deletes, diskVars, stuck>>,
         meant' \in [Delete -> Put \cup {Nothing}], NEW c \in Client,
         client' = [client EXCEPT ![c].at = "asking"], NEW v, NEW b,
         mail' = mail \cup {Message(v, c, Via[c], b, Nothing)},
         Fits(Message(v, c, Via[c], b, Nothing)),
         v \notin After \cup {"info", "segment", "delete-data"},
         v \in Before => client[c].at = "idle",
         v \in Checks => c \in Put /\ client[c].id = PutId(c)
  PROVE  FlowInv'
  <1> DEFINE k == Message(v, c, Via[c], b, Nothing)
             r == [client[c] EXCEPT !.at = "asking"]
  <1>1. client[c] \in ClientState /\ client \in [Client -> ClientState] /\ Via[c] \in Node
    BY ClientsAssumption DEF FlowInv, ClientsOK
  <1>2. r \in ClientState /\ r.at = "asking" /\ r.id = client[c].id
    BY <1>1 DEF ClientState
  <1>3. client' = [client EXCEPT ![c] = r] /\ client'[c] = r
    BY <1>1
  <1> HIDE DEF r
  <1>4. /\ Steady
        /\ Typed' /\ ClientsOK' /\ WritesOK' /\ DeletesOK' /\ ManifestsOK' /\ DataOK'
    BY <1>2, <1>3, ClientStep, DeletesStay
  <1>5. c \in Put /\ v \in Before => ~Begun(c)
    BY DEF FlowInv, ClientsOK
  <1>6. Good(k)'
    BY <1>1, <1>2, <1>3, <1>4, <1>5, NewGood
  <1>7. k.verb = v /\ k.by = c
    BY DEF Message
  <1>8. v \in Before => \A l \in mail : l.by # c
    BY HeardBy
  <1> HIDE DEF k
  <1>9. mail' = (mail \ {}) \cup {k}
    BY DEF k
  <1>10. \A l \in mail \ {} : Chained(k) /\ Chained(l) => k.by # l.by
    <2>1. Chained(k) => v \in Before
      BY <1>7 DEF Chained
    <2> QED
      BY <1>7, <1>8, <2>1
  <1>11. MailOK' /\ OneAtATime'
    <2> DEFINE S == {k}
    <2>1. /\ \A i \in S : Good(i)'
          /\ \A i, l \in S : Chained(i) /\ Chained(l) /\ i.by = l.by => i = l
          /\ \A i \in S, l \in mail \ {} : Chained(i) /\ Chained(l) => i.by # l.by
      BY <1>6, <1>10
    <2>2. mail' = (mail \ {}) \cup S
      BY <1>9
    <2> HIDE DEF S
    <2> QED
      BY <1>4, <2>1, <2>2, MailMoves
  <1> QED
    BY <1>4, <1>11 DEF FlowInv

LEMMA Starts ==
  ASSUME FlowInv, Start, UNCHANGED <<segments, stuck>>
  PROVE  FlowInv'
  <1>0. meant \in [Delete -> Put \cup {Nothing}]
    BY DEF FlowInv, Typed
  <1>1. ASSUME NEW p \in Put, PutFileStartInsertCommand(p)
        PROVE  FlowInv'
    <2> DEFINE b == Encode([Name |-> NameOf[p]])
    <2>1. /\ client[p].at = "idle" /\ client' = [client EXCEPT ![p].at = "asking"]
          /\ mail' = mail \cup {Message("insert", p, Via[p], b, Nothing)}
          /\ UNCHANGED <<segments, writes, deletes, diskVars, stuck, meant>> /\ p \in Client
      BY <1>1 DEF PutFileStartInsertCommand, Command, Client
    <2>2. Decode(b) = [Name |-> NameOf[p]]
      BY NameDecodes
    <2>3. Fits(Message("insert", p, Via[p], b, Nothing))
      BY <2>2 DEF Fits, FitsPut, FitsGet, FitsDelete, Message
    <2> HIDE DEF b
    <2> QED
      BY <1>0, <2>1, <2>3, ClientAsks DEF Before, After, Checks
  <1>2. ASSUME NEW g \in Get, GetFile(g)
        PROVE  FlowInv'
    <2> DEFINE b == Encode([Name |-> NameOf[g]])
    <2>1. /\ client[g].at = "idle" /\ client' = [client EXCEPT ![g].at = "asking"]
          /\ mail' = mail \cup {Message("get", g, Via[g], b, Nothing)}
          /\ UNCHANGED <<segments, writes, deletes, diskVars, stuck, meant>> /\ g \in Client
      BY <1>2 DEF GetFile, Command, Client
    <2>2. Decode(b) = [Name |-> NameOf[g]]
      BY NameDecodes
    <2>3. Fits(Message("get", g, Via[g], b, Nothing))
      BY <2>2 DEF Fits, FitsPut, FitsGet, FitsDelete, Message
    <2> HIDE DEF b
    <2> QED
      BY <1>0, <2>1, <2>3, ClientAsks DEF Before, After, Checks
  <1>3. ASSUME NEW d \in Delete, DeleteFile(d)
        PROVE  FlowInv'
    <2> DEFINE b == Encode([Name |-> NameOf[d], ProcessId |-> Zero])
               read == ReadableOf(NameOf[d])
    <2>1. /\ client[d].at = "idle" /\ client' = [client EXCEPT ![d].at = "asking"]
          /\ mail' = mail \cup {Message("delete", d, Via[d], b, Nothing)}
          /\ meant' = [meant EXCEPT ![d] = read]
          /\ UNCHANGED <<segments, writes, deletes, diskVars, stuck>> /\ d \in Client
      BY <1>3 DEF DeleteFile, DeleteFields, Command, Client
    <2>2. Decode(b) = [Name |-> NameOf[d], ProcessId |-> Zero]
      BY IdDecodes
    <2>3. Fits(Message("delete", d, Via[d], b, Nothing))
      BY <2>2 DEF Fits, FitsPut, FitsGet, FitsDelete, Message
    <2>4. read \in Put \cup {Nothing}
      BY <2>1, ReadsItsName, ReadsWhole DEF ReadableOf
    <2> HIDE DEF b, read
    <2>5. meant' \in [Delete -> Put \cup {Nothing}]
      BY <1>0, <2>1, <2>4
    <2> QED
      BY <2>1, <2>3, <2>5, ClientAsks DEF Before, After, Checks
  <1> QED
    BY <1>1, <1>2, <1>3 DEF Start

LEMMA StartsCheck ==
  ASSUME FlowInv, NEW p \in Put, PutFileStartCheckCommand(p), UNCHANGED <<segments, stuck>>
  PROVE  FlowInv'
  <1> DEFINE b == Encode([Name |-> NameOf[p], ProcessId |-> client[p].id])
  <1>1. client[p].id = PutId(p) /\ meant \in [Delete -> Put \cup {Nothing}]
    BY DEF PutFileStartCheckCommand, FlowInv, ClientsOK, Typed
  <1>2. /\ client' = [client EXCEPT ![p].at = "asking"] /\ p \in Client
        /\ mail' = mail \cup {Message("insert check", p, Via[p], b, Nothing)}
        /\ UNCHANGED <<segments, writes, deletes, diskVars, stuck, meant>>
    BY DEF PutFileStartCheckCommand, Command, Client
  <1>3. Decode(b) = [Name |-> NameOf[p], ProcessId |-> PutId(p)]
    BY <1>1, IdDecodes
  <1>4. Fits(Message("insert check", p, Via[p], b, Nothing))
    BY <1>3 DEF Fits, FitsPut, FitsGet, FitsDelete, Message
  <1> HIDE DEF b
  <1> QED
    BY <1>1, <1>2, <1>4, ClientAsks DEF Before, After, Checks

-----------------------------------------------------------------------------
(* The processes of puts.                                                  *)

\* The process of p is w now, made anew or changed.
Wrote(p, w) ==
  /\ DOMAIN writes' = Node
  /\ \A n \in Node : n # Via[p] => writes'[n] = writes[n]
  /\ DOMAIN writes'[Via[p]] = DOMAIN writes[Via[p]] \cup {PutId(p)}
  /\ writes'[Via[p]][PutId(p)] = w
  /\ \A id \in DOMAIN writes[Via[p]] :
       id # PutId(p) => writes'[Via[p]][id] = writes[Via[p]][id]

LEMMA WroteNew ==
  ASSUME WritesOK, NEW p \in Put, NEW w,
         writes' = [writes EXCEPT ![Via[p]] = With(@, PutId(p), w)]
  PROVE  Wrote(p, w)
  <1> DEFINE f == With(writes[Via[p]], PutId(p), w)
  <1>1. /\ DOMAIN f = DOMAIN writes[Via[p]] \cup {PutId(p)} /\ f[PutId(p)] = w
        /\ \A id \in DOMAIN writes[Via[p]] : id # PutId(p) => f[id] = writes[Via[p]][id]
    BY DEF With
  <1>2. writes' = [writes EXCEPT ![Via[p]] = f] /\ Via[p] \in Node
    BY ClientsAssumption DEF Client
  <1> HIDE DEF f
  <1> QED
    BY <1>1, <1>2 DEF Wrote, WritesOK

LEMMA WroteOld ==
  ASSUME WritesOK, NEW p \in Put, NEW w, PutId(p) \in DOMAIN writes[Via[p]],
         writes' = [writes EXCEPT ![Via[p]][PutId(p)] = w]
  PROVE  Wrote(p, w)
  <1> DEFINE f == [writes[Via[p]] EXCEPT ![PutId(p)] = w]
  <1>1. /\ DOMAIN f = DOMAIN writes[Via[p]] \cup {PutId(p)} /\ f[PutId(p)] = w
        /\ \A id \in DOMAIN writes[Via[p]] : id # PutId(p) => f[id] = writes[Via[p]][id]
    OBVIOUS
  <1>2. writes' = [writes EXCEPT ![Via[p]] = f] /\ Via[p] \in Node
    BY ClientsAssumption DEF Client
  <1> HIDE DEF f
  <1> QED
    BY <1>1, <1>2 DEF Wrote, WritesOK

LEMMA PutIdsDiffer ==
  ASSUME NEW p, NEW q, PutId(p) = PutId(q)
  PROVE  p = q
  BY DEF PutId, Drawn

LEMMA WroteMeans ==
  ASSUME FlowInv, segments' = segments, NEW p \in Put, NEW w \in WriteProcess(p), Wrote(p, w),
         w.begun = TRUE => w.manifest = Manif(p), w.count # 0 => w.begun = TRUE
  PROVE  /\ WritesOK' /\ (Begun(p)' <=> w.begun = TRUE)
         /\ \A q \in Put : q # p => (Begun(q)' <=> Begun(q))
         /\ \A n \in Node : DOMAIN writes[n] \subseteq DOMAIN writes'[n]
  <1>1. Via[p] \in Node /\ \A q \in Put : Via[q] \in Node
    BY ClientsAssumption DEF Client
  <1>2. \A n \in Node : DOMAIN writes[n] \subseteq DOMAIN writes'[n]
    BY DEF Wrote
  <1>3. Begun(p)' <=> w.begun = TRUE
    BY DEF Wrote, Begun
  <1>4. ASSUME NEW q \in Put, q # p
        PROVE  Begun(q)' <=> Begun(q)
    <2>1. PutId(q) # PutId(p)
      BY <1>4, PutIdsDiffer
    <2> QED
      BY <1>1, <2>1 DEF Wrote, Begun
  <1>5. ASSUME NEW n \in Node, NEW id \in DOMAIN writes'[n], n # Via[p] \/ id # PutId(p)
        PROVE  id \in DOMAIN writes[n] /\ writes'[n][id] = writes[n][id]
    BY <1>5 DEF Wrote
  <1>6. \A q \in Put : Manif(q)' = Manif(q) /\ WriteProcess(q)' = WriteProcess(q)
    BY DEF Manif, WriteProcess
  <1>7. ASSUME NEW n \in Node, NEW id \in DOMAIN writes'[n]
        PROVE  \E q \in Put :
                 /\ id = PutId(q) /\ n = Via[q] /\ writes'[n][id] \in WriteProcess(q)'
                 /\ writes'[n][id].begun = TRUE => writes'[n][id].manifest = Manif(q)'
                 /\ writes'[n][id].count # 0 => writes'[n][id].begun = TRUE
    <2>1. CASE n = Via[p] /\ id = PutId(p)
      BY <1>6, <2>1 DEF Wrote
    <2>2. CASE n # Via[p] \/ id # PutId(p)
      BY <1>5, <1>6, <2>2 DEF FlowInv, WritesOK
    <2> QED
      BY <2>1, <2>2
  <1>8. DOMAIN writes' = Node
    BY DEF Wrote
  <1>9. WritesOK'
    BY <1>7, <1>8 DEF WritesOK
  <1> QED
    BY <1>2, <1>3, <1>4, <1>9

\* A put whose process changes, but does not begin now.
LEMMA WroteSteady ==
  ASSUME FlowInv, UNCHANGED <<segments, client, deletes, diskVars, stuck, meant>>,
         NEW p \in Put, NEW w \in WriteProcess(p), Wrote(p, w),
         w.begun = TRUE => w.manifest = Manif(p), w.count # 0 => w.begun = TRUE,
         w.begun = TRUE <=> Begun(p)
  PROVE  /\ Steady
         /\ Typed' /\ ClientsOK' /\ WritesOK' /\ DeletesOK' /\ ManifestsOK' /\ DataOK'
  <1>1. WritesOK' /\ \A q \in Put : Begun(q)' <=> Begun(q)
    BY WroteMeans
  <1>2. Steady
    BY <1>1, WroteMeans DEF Steady, diskVars
  <1>3. Typed' /\ ClientsOK' /\ DeletesOK'
    BY <1>1 DEF FlowInv, Typed, ClientsOK, DeletesOK
  <1>4. ManifestsOK' /\ DataOK'
    BY <1>2, ManifestsStay, DataStays DEF FlowInv, diskVars, ManifestsOK, DataOK
  <1> QED
    BY <1>1, <1>2, <1>3, <1>4

LEMMA FindResponse ==
  ASSUME FlowInv, NEW m \in mail, OnFindResponse(m), UNCHANGED <<segments, stuck>>
  PROVE  FlowInv'
  <1> DEFINE p == m.by
             n == Via[p]
             taken == EncodeResponse([StatusCode |-> 403])
             taken_ == Message("inserted", p, n, taken, Nothing)
             made == [ProcessId |-> PutId(p), InsertNum |-> 0, StatusCode |-> 100]
             free == EncodeResponse(made)
             inserted == Message("inserted", p, n, free, Nothing)
             info == Message("info", p, n, NameOf[p], PutId(p))
             w == [code |-> 300, count |-> 0, begun |-> FALSE, manifest |-> Nothing]
  <1>1. /\ m.verb = "found" /\ p \in Put /\ p \in Client /\ m.to = n /\ ~Begun(p)
        /\ m.bound = [at |-> n, parameters |-> [Name |-> NameOf[p]]]
        /\ client[p].at # "idle" /\ n \in Node
    BY DEF OnFindResponse, FlowInv, MailOK, Good, Fits, FitsGet, Before
  <1>2. m.bound.parameters.Name = NameOf[p]
    <2>1. m.bound.parameters = [Name |-> NameOf[p]]
      BY <1>1
    <2> QED
      BY <2>1
  <1>3. UNCHANGED <<segments, client, deletes, diskVars, stuck, meant>>
    BY DEF OnFindResponse
  <1>4. CASE m.body # Nothing
    <2>1. Handle(m, {taken_}) /\ UNCHANGED writes
      BY <1>1, <1>4 DEF OnFindResponse
    <2>2. DecodeResponse(taken) = [StatusCode |-> 403]
      BY CodeDecodes
    <2>3. Fits(taken_)
      BY <1>1, <2>2 DEF Fits, FitsPut, FitsGet, FitsDelete, Message
    <2> HIDE DEF taken, n
    <2> QED
      BY <1>1, <1>3, <2>1, <2>3, QuietAnswer DEF Before, After, Checks
  <1>5. CASE m.body = Nothing
    <2>1. /\ Handle(m, {inserted, info})
          /\ writes' = [writes EXCEPT ![n] = With(@, PutId(p), w)]
      <3>1. [StatusCode |-> 100, ProcessId |-> PutId(p), InsertNum |-> 0] = made
        OBVIOUS
      <3> HIDE DEF made
      <3> QED
        BY <1>1, <1>2, <1>5, <3>1 DEF OnFindResponse, PutId
    <2>2. w \in WriteProcess(p) /\ w.begun = FALSE /\ w.count = 0
      BY DEF WriteProcess
    <2> HIDE DEF w
    <2>3. Wrote(p, w)
      BY <1>1, <2>1, WroteNew DEF FlowInv
    <2>4. /\ Steady
          /\ Typed' /\ ClientsOK' /\ WritesOK' /\ DeletesOK' /\ ManifestsOK' /\ DataOK'
      BY <1>1, <1>3, <2>2, <2>3, WroteSteady
    <2>5. DecodeResponse(free) = [StatusCode |-> 100, ProcessId |-> PutId(p), InsertNum |-> 0]
      <3>1. DecodeResponse(free) = made
        BY CountDecodes
      <3> HIDE DEF free
      <3> QED
        BY <3>1
    <2>6. Fits(inserted) /\ Fits(info)
      BY <1>1, <2>5 DEF Fits, FitsPut, FitsGet, FitsDelete, Message
    <2>7. PutId(p) \in DOMAIN writes'[n] /\ client'[p].at # "idle"
      BY <1>1, <1>3, <2>3 DEF Wrote
    <2>8. inserted.verb = "inserted" /\ info.verb = "info" /\ info.by = p
      BY DEF Message
    <2> HIDE DEF free, n
    <2>9. Good(inserted)' /\ Good(info)'
      BY <1>1, <2>4, <2>6, <2>7, NewGood DEF Before, After, Checks
    <2> HIDE DEF inserted, info
    <2>10. /\ \A k, l \in {inserted, info} : Chained(k) /\ Chained(l) => k = l
           /\ \A k \in {inserted, info} : Chained(k) => Chained(m) /\ k.by = m.by
      BY <1>1, <2>8 DEF Chained, Before, After
    <2> QED
      BY <2>1, <2>4, <2>9, <2>10, Passes
  <1> QED
    BY <1>4, <1>5

LEMMA CheckCommand ==
  ASSUME FlowInv, NEW m \in mail, HandleCheckCommand(m), UNCHANGED <<segments, stuck>>
  PROVE  FlowInv'
  <1> DEFINE p == m.by
             n == m.to
             id == Decode(m.body).ProcessId
             old == writes[n][id]
             code == IF old.begun THEN old.code ELSE 405
             w == [old EXCEPT !.code = code]
             status == IF old.count = 0 THEN 100 ELSE code
             answer == [ProcessId |-> id, InsertNum |-> old.count, StatusCode |-> status]
             b == EncodeResponse(answer)
  <1>1. /\ UNCHANGED <<segments, client, deletes, diskVars, stuck, meant>>
        /\ id \in DOMAIN writes[n] /\ m.verb = "insert check"
        /\ writes' = [writes EXCEPT ![n][id].code = code]
        /\ Handle(m, {Message("checked", p, n, b, Nothing)})
    BY Zenon DEF HandleCheckCommand
  <1>2. writes' = [writes EXCEPT ![n][id] = w]
    BY <1>1
  <1>3. DecodeResponse(b).InsertNum = old.count
    <2>1. DecodeResponse(b) = answer
      BY CountDecodes
    <2> HIDE DEF b
    <2> QED
      BY <2>1
  <1> HIDE DEF b
  <1>4. old \in WriteProcess(p) => code \in {300, 405}
    BY DEF WriteProcess
  <1> HIDE DEF code
  <1>5. /\ p \in Put /\ p \in Client /\ n = Via[p] /\ n \in Node
        /\ Decode(m.body) = [Name |-> NameOf[p], ProcessId |-> PutId(p)]
    BY <1>1 DEF FlowInv, MailOK, Good, Fits, FitsPut
  <1>6. id = PutId(p)
    BY <1>5
  <1>7. /\ old \in WriteProcess(p)
        /\ old.begun = TRUE => old.manifest = Manif(p)
        /\ old.count # 0 => old.begun = TRUE
    BY <1>1, <1>5, <1>6, ProcessOf DEF FlowInv
  <1>8. Begun(p) <=> old.begun = TRUE
    <2>1. old = writes[Via[p]][PutId(p)] /\ PutId(p) \in DOMAIN writes[Via[p]]
      BY <1>1, <1>5, <1>6
    <2> HIDE DEF old
    <2> QED
      BY <2>1 DEF Begun
  <1>9. old.count \in Nat /\ code \in {300, 405}
    <2> HIDE DEF old
    <2> QED
      BY <1>4, <1>7 DEF WriteProcess
  <1> HIDE DEF old, n, id
  <1>10. /\ w \in WriteProcess(p) /\ w.begun = old.begun /\ w.count = old.count
        /\ w.manifest = old.manifest
    BY <1>7, <1>9 DEF WriteProcess
  <1> HIDE DEF w
  <1>11. Wrote(p, w)
    BY <1>1, <1>2, <1>5, <1>6, WroteOld DEF FlowInv
  <1>12. /\ Steady
         /\ Typed' /\ ClientsOK' /\ WritesOK' /\ DeletesOK' /\ ManifestsOK' /\ DataOK'
    BY <1>1, <1>5, <1>7, <1>8, <1>11, <1>10, WroteSteady
  <1>13. Fits(Message("checked", p, n, b, Nothing))
    BY <1>3, <1>5, <1>9 DEF Fits, FitsPut, FitsGet, FitsDelete, Message
  <1> QED
    BY <1>1, <1>5, <1>12, <1>13, Answers DEF Before, After, Checks

\* A message that is not touched by a step at which a put begins, is forgotten, or
\* has a segment stored.
LEMMA GoodKept ==
  ASSUME NEW k, Good(k), UNCHANGED <<segments, client>>,
         k.by \in Put /\ k.verb \in Before => ~Begun(k.by)',
         \A q \in Put : Begun(q) => Begun(q)',
         k.verb = "info" => k.bound \in DOMAIN writes'[k.to],
         k.verb = "segment" /\ k.body \in DOMAIN data'[k.to] => data'[k.to][k.body] # k.by
  PROVE  Good(k)'
  <1>1. Fits(k)'
    BY FitsStays DEF Good
  <1>2. k.verb \in After \cup {"segment"} => k.by \in Put
    BY ByPut DEF Good
  <1>3. \A q \in Put : Erases(k, q) => Erases(k, q)'
    BY DEF Erases
  <1> QED
    BY <1>1, <1>2, <1>3 DEF Good

LEMMA OneStays ==
  ASSUME OneAtATime, NEW m \in mail, NEW S, Handle(m, S),
         \A k, l \in S : Chained(k) /\ Chained(l) => k = l,
         \A k \in S : Chained(k) => Chained(m) /\ k.by = m.by
  PROVE  OneAtATime'
  BY DEF Handle, OneAtATime, Chained

\* The info of p is the last of its chain that is under way.
LEMMA InfoAlone ==
  ASSUME FlowInv, NEW m \in mail, m.verb = "info", NEW k \in mail \ {m}, k.by = m.by
  PROVE  k.verb \notin Before
  <1>1. m.by \in Put
    BY ByPut DEF FlowInv, MailOK, Good
  <1> QED
    BY <1>1 DEF FlowInv, OneAtATime, Chained, Before

LEMMA DataValidated ==
  ASSUME FlowInv, NEW m \in mail, OnDataValidated(m), UNCHANGED <<segments, stuck>>
  PROVE  FlowInv'
  <1> DEFINE p == m.by
             n == Via[p]
             key == Key(NameOf[p])
             id == PutId(p)
             old == writes[n][id]
             kept == [old EXCEPT !.manifest = Manif(p)]
             w == [kept EXCEPT !.begun = TRUE]
             info == FromInfoJson(ToInfoJson(NewManifest(m.body, 0, segments[p] - 1)))
             body == [Name |-> HashName(key), ClusterPrefix |-> n, ProcessId |-> id]
             create == Message("create", p, Owner[key], Encode(body), Nothing)
             Asked == {Message("segment", p, n, <<NameOf[p], s>>, id) : s \in Wanted(p)}
  <1>1. /\ m.verb = "info" /\ p \in Put /\ p \in Client /\ m.to = n /\ n \in Node
        /\ m.body = NameOf[p] /\ m.bound = id /\ id \in DOMAIN writes[n]
        /\ ~Begun(p) /\ client[p].at # "idle" /\ Chained(m) /\ Owner[key] \in Node
    BY OwnerAssumption
       DEF OnDataValidated, FlowInv, MailOK, Good, Fits, FitsPut, Before, Chained
  <1>2. info.name = NameOf[p] /\ info.start = 0 /\ info.end = segments[p] - 1
    BY <1>1 DEF FromInfoJson, ToInfoJson, NewManifest
  <1>3. ManifestOf(info, n) = Manif(p)
    <2>1. NewManifest(NameOf[p], 0, segments[p] - 1).name = NameOf[p]
          /\ NewManifest(NameOf[p], 0, segments[p] - 1).start = 0
          /\ NewManifest(NameOf[p], 0, segments[p] - 1).end = segments[p] - 1
      BY DEF NewManifest
    <2> HIDE DEF info
    <2> QED
      BY <1>2, <2>1 DEF Manif, ManifestOf
  <1>4. HashOf(Manif(p)) = GetHash(key) /\ GetHash(key).hashOf = key
    BY <1>1, Texts DEF GetHash
  <1>5. /\ UNCHANGED <<segments, client, deletes, diskVars, stuck, meant>>
        /\ writes' = [writes EXCEPT ![n][id] =
                        [@ EXCEPT !.manifest = Manif(p), !.begun = TRUE]]
        /\ Handle(m, {create} \cup Asked)
    <2>1. /\ UNCHANGED <<segments, client, deletes, diskVars, stuck, meant>>
          /\ writes' = [writes EXCEPT ![m.to][m.bound] =
                          [@ EXCEPT !.manifest = ManifestOf(info, m.to), !.begun = TRUE]]
          /\ Handle(m,
               {Command("create", p, Owner[HashOf(ManifestOf(info, m.to)).hashOf],
                        [Name |-> <<HashOf(ManifestOf(info, m.to))>>,
                         ClusterPrefix |-> m.to, ProcessId |-> m.bound], Nothing)}
               \cup {Message("segment", p, m.to, <<info.name, s>>, m.bound)
                       : s \in {0} \cup 0 .. info.end})
      BY Zenon DEF OnDataValidated
    <2> HIDE DEF info
    <2>2. Command("create", p, Owner[HashOf(ManifestOf(info, m.to)).hashOf],
                  [Name |-> <<HashOf(ManifestOf(info, m.to))>>,
                   ClusterPrefix |-> m.to, ProcessId |-> m.bound], Nothing) = create
      BY <1>1, <1>3, <1>4 DEF Command, HashName
    <2>3. {Message("segment", p, m.to, <<info.name, s>>, m.bound)
             : s \in {0} \cup 0 .. info.end} = Asked
      BY <1>1, <1>2 DEF Wanted
    <2>4. ManifestOf(info, m.to) = Manif(p)
      BY <1>1, <1>3
    <2> HIDE DEF create, Asked
    <2>5. Handle(m, {create} \cup Asked)
      BY <2>1, <2>2, <2>3
    <2> QED
      BY <1>1, <2>1, <2>4, <2>5
  <1>6. /\ old \in WriteProcess(p)
        /\ old.count # 0 => old.begun = TRUE
    BY <1>1, ProcessOf DEF FlowInv
  <1>7. w \in WriteProcess(p) /\ w.begun = TRUE /\ w.manifest = Manif(p)
    <2> HIDE DEF old
    <2>1. kept \in WriteProcess(p) /\ kept.manifest = Manif(p)
      BY <1>6 DEF WriteProcess
    <2> HIDE DEF kept
    <2>2. w \in WriteProcess(p) /\ w.begun = TRUE
      BY <2>1 DEF WriteProcess
    <2>3. w.manifest = kept.manifest
      BY <2>1 DEF WriteProcess
    <2> QED
      BY <2>1, <2>2, <2>3
  <1>8. writes' = [writes EXCEPT ![n][id] = w]
    <2>1. [old EXCEPT !.manifest = Manif(p), !.begun = TRUE] = w
      <3> HIDE DEF old
      <3> QED
        BY <1>6 DEF WriteProcess
    <2> HIDE DEF w
    <2> QED
      BY <1>5, <2>1
  <1> HIDE DEF w, old, kept, info
  <1>9. Wrote(p, w)
    BY <1>1, <1>8, WroteOld DEF FlowInv
  <1>10. /\ WritesOK' /\ Begun(p)' /\ \A q \in Put : Begun(q) => Begun(q)'
         /\ \A q \in Put : q # p => (Begun(q)' <=> Begun(q))
         /\ \A i \in Node : DOMAIN writes[i] \subseteq DOMAIN writes'[i]
    BY <1>1, <1>5, <1>7, <1>9, WroteMeans
  <1>11. Typed' /\ ClientsOK' /\ DeletesOK'
    BY <1>1, <1>5, <1>10 DEF FlowInv, Typed, ClientsOK, DeletesOK
  <1>12. ManifestsOK'
    BY <1>5, <1>10 DEF FlowInv, diskVars, ManifestsOK, Text, Manif
  <1>13. DataOK'
    BY <1>5, <1>10 DEF FlowInv, diskVars, DataOK
  <1>14. ASSUME NEW k \in mail \ {m}
         PROVE  Good(k)'
    <2>1. Good(k) /\ k.by \in Client /\ k.to \in Node
      BY DEF FlowInv, MailOK, Good
    <2>2. k.by = p => k.verb \notin Before
      BY <1>1, InfoAlone
    <2>3. k.verb \in Before /\ k.by \in Put => ~Begun(k.by)'
      BY <1>10, <2>1, <2>2 DEF Good
    <2>4. k.verb = "info" => k.bound \in DOMAIN writes'[k.to]
      BY <1>10, <2>1 DEF Good
    <2>5. k.verb = "segment" /\ k.body \in DOMAIN data'[k.to] => data'[k.to][k.body] # k.by
      BY <1>5, <2>1 DEF Good, diskVars
    <2> QED
      BY <1>5, <1>10, <2>1, <2>3, <2>4, <2>5, GoodKept
  <1>15. Good(create)'
    <2> DEFINE b == Encode(body)
    <2>1. Decode(b) = [Name |-> HashName(key), ClusterPrefix |-> Via[p], ProcessId |-> PutId(p)]
      BY CreateDecodes
    <2>2. create = Message("create", p, Owner[key], b, Nothing)
      OBVIOUS
    <2> HIDE DEF b, create, Asked, body
    <2>3. /\ create.verb = "create" /\ create.by = p /\ create.to = Owner[key]
          /\ create.body = b /\ create.bound = Nothing
      BY <2>2 DEF Message
    <2>4. Fits(create)
      BY <1>1, <2>1, <2>3 DEF Fits, FitsPut, FitsGet, FitsDelete
    <2>5. Fits(create)'
      BY <1>5, <2>4, FitsStays
    <2>6. create = Message(create.verb, create.by, create.to, create.body, create.bound)
      BY <2>2, <2>3
    <2> QED
      BY <1>1, <1>5, <1>10, <2>3, <2>5, <2>6 DEF Good, Before, After, Checks
  <1>16. ASSUME NEW k \in Asked
         PROVE  Good(k)' /\ ~Chained(k)
    <2>1. PICK s \in Wanted(p) : k = Message("segment", p, n, <<NameOf[p], s>>, id)
      OBVIOUS
    <2>2. Fits(k)
      BY <1>1, <2>1 DEF Fits, FitsPut, FitsGet, FitsDelete, Message
    <2>3. Fits(k)'
      BY <1>5, <2>2, FitsStays
    <2>4. \A x \in DOMAIN data'[n] : data'[n][x] # p
      BY <1>1, <1>5 DEF FlowInv, DataOK, diskVars
    <2> QED
      BY <1>1, <1>5, <1>10, <2>1, <2>3, <2>4 DEF Good, Message, Before, After, Checks, Chained
  <1>17. MailOK'
    BY <1>5, <1>14, <1>15, <1>16 DEF Handle, MailOK
  <1>18. create.by = p
    BY DEF Message
  <1> HIDE DEF create, Asked
  <1>19. /\ \A k, l \in {create} \cup Asked : Chained(k) /\ Chained(l) => k = l
         /\ \A k \in {create} \cup Asked : Chained(k) => Chained(m) /\ k.by = m.by
    BY <1>1, <1>16, <1>18
  <1>20. OneAtATime'
    <2> DEFINE S == {create} \cup Asked
    <2>1. /\ Handle(m, S) /\ \A k, l \in S : Chained(k) /\ Chained(l) => k = l
          /\ \A k \in S : Chained(k) => Chained(m) /\ k.by = m.by
      BY <1>5, <1>19
    <2> HIDE DEF S
    <2> QED
      BY <2>1, OneStays DEF FlowInv
  <1> QED
    BY <1>10, <1>11, <1>12, <1>13, <1>17, <1>20 DEF FlowInv

LEMMA Timeout ==
  ASSUME FlowInv, NEW m \in mail, OnTimeout(m), UNCHANGED <<segments, stuck>>
  PROVE  FlowInv'
  <1> DEFINE p == m.by
             n == Via[p]
             f == But(writes[n], {PutId(p)})
  <1>1. /\ m.verb = "info" /\ p \in Put /\ m.to = n /\ n \in Node
        /\ m.bound = PutId(p) /\ ~Begun(p) /\ Chained(m)
    BY DEF OnTimeout, FlowInv, MailOK, Good, Fits, FitsPut, Before, Chained
  <1>2. /\ UNCHANGED <<segments, client, deletes, diskVars, stuck, meant>>
        /\ writes' = [writes EXCEPT ![n] = f] /\ Handle(m, {})
    BY <1>1 DEF OnTimeout
  <1>3. DOMAIN f = DOMAIN writes[n] \ {PutId(p)} /\ \A x \in DOMAIN f : f[x] = writes[n][x]
    BY DEF But
  <1> HIDE DEF f
  <1>4. /\ DOMAIN writes' = Node /\ writes'[n] = f
        /\ \A i \in Node \ {n} : writes'[i] = writes[i]
    BY <1>1, <1>2 DEF FlowInv, WritesOK
  <1>5. \A i \in Node : \A x \in DOMAIN writes'[i] :
          x \in DOMAIN writes[i] /\ writes'[i][x] = writes[i][x]
    BY <1>3, <1>4
  <1>6. \A q \in Put : Begun(q)' <=> Begun(q)
    <2>1. ~Begun(p)'
      BY <1>3, <1>4 DEF Begun
    <2>2. ASSUME NEW q \in Put, q # p
          PROVE  Begun(q)' <=> Begun(q)
      <3>1. PutId(q) # PutId(p) /\ Via[q] \in Node
        BY <2>2, PutIdsDiffer, ClientsAssumption DEF Client
      <3> QED
        BY <1>3, <1>4, <3>1 DEF Begun
    <2> QED
      BY <1>1, <2>1, <2>2
  <1>7. WritesOK'
    <2>1. \A q \in Put : Manif(q)' = Manif(q) /\ WriteProcess(q)' = WriteProcess(q)
      BY <1>2 DEF Manif, WriteProcess
    <2>2. ASSUME NEW i \in Node, NEW x \in DOMAIN writes'[i]
          PROVE  \E q \in Put :
                   /\ x = PutId(q) /\ i = Via[q] /\ writes'[i][x] \in WriteProcess(q)'
                   /\ writes'[i][x].begun = TRUE => writes'[i][x].manifest = Manif(q)'
                   /\ writes'[i][x].count # 0 => writes'[i][x].begun = TRUE
      BY <1>5, <2>1 DEF FlowInv, WritesOK
    <2> QED
      BY <1>4, <2>2 DEF WritesOK
  <1>8. Typed' /\ ClientsOK' /\ DeletesOK'
    BY <1>2, <1>6 DEF FlowInv, Typed, ClientsOK, DeletesOK
  <1>9. ManifestsOK' /\ DataOK'
    BY <1>2, <1>6 DEF FlowInv, diskVars, ManifestsOK, DataOK, Text, Manif
  <1>10. ASSUME NEW k \in mail \ {m}
         PROVE  Good(k)'
    <2>1. Good(k) /\ k.by \in Client /\ k.to \in Node
      BY DEF FlowInv, MailOK, Good
    <2>2. k.verb = "info" => k.bound \in DOMAIN writes'[k.to]
      <3> SUFFICES ASSUME k.verb = "info"
                   PROVE  k.bound \in DOMAIN writes'[k.to]
        OBVIOUS
      <3>1. k.by # p /\ k.by \in Put /\ k.bound = PutId(k.by) /\ k.bound \in DOMAIN writes[k.to]
        BY <1>1, <2>1, InfoAlone DEF Before, Good, Fits, FitsPut
      <3>2. k.bound # PutId(p)
        BY <3>1, PutIdsDiffer
      <3> QED
        BY <1>3, <1>4, <2>1, <3>1, <3>2
    <2>3. k.verb = "segment" /\ k.body \in DOMAIN data'[k.to] => data'[k.to][k.body] # k.by
      BY <1>2, <2>1 DEF Good, diskVars
    <2>4. k.by \in Put /\ k.verb \in Before => ~Begun(k.by)'
      BY <1>6, <2>1 DEF Good
    <2> QED
      BY <1>2, <1>6, <2>1, <2>2, <2>3, <2>4, GoodKept
  <1>11. MailOK'
    BY <1>2, <1>10 DEF Handle, MailOK
  <1>12. OneAtATime'
    BY <1>2, OneStays DEF FlowInv
  <1> QED
    BY <1>7, <1>8, <1>9, <1>11, <1>12 DEF FlowInv

LEMMA SegmentData ==
  ASSUME FlowInv, NEW m \in mail, OnSegmentData(m), UNCHANGED <<segments, stuck>>
  PROVE  FlowInv'
  <1> DEFINE p == m.by
             n == Via[p]
             id == PutId(p)
             old == writes[n][id]
             w == [old EXCEPT !.count = old.count + 1]
             there == With(data[n], m.body, p)
  <1>1. /\ m.verb = "segment" /\ p \in Put /\ p \in Client /\ m.to = n /\ n \in Node
        /\ m.bound = id /\ Begun(p) /\ m = Message("segment", p, n, m.body, id)
    BY DEF OnSegmentData, FlowInv, MailOK, Good, Fits, FitsPut
  <1>2. PICK s \in 0 .. segments[p] - 1 : m.body = <<NameOf[p], s>>
    <2>1. PICK s \in Wanted(p) : m.body = <<NameOf[p], s>>
      BY <1>1 DEF FlowInv, MailOK, Good, Fits, FitsPut
    <2>2. segments[p] > 0 /\ segments[p] \in Nat
      BY <1>1, SizeOf DEF OnSegmentData, FlowInv
    <2> QED
      BY <2>1, <2>2 DEF Wanted
  <1>3. /\ UNCHANGED <<segments, client, deletes, manifests, stuck, meant>>
        /\ data' = [data EXCEPT ![n] = there]
        /\ writes' = [writes EXCEPT ![n][id].count = @ + 1]
        /\ Handle(m, {})
    BY <1>1 DEF OnSegmentData
  <1>4. /\ id \in DOMAIN writes[n] /\ old \in WriteProcess(p) /\ old.begun = TRUE
        /\ old.manifest = Manif(p)
    BY <1>1, ProcessOf DEF FlowInv, Begun
  <1>5. /\ w \in WriteProcess(p) /\ w.begun = TRUE /\ w.manifest = Manif(p)
        /\ writes' = [writes EXCEPT ![n][id] = w]
    <2>1. writes' = [writes EXCEPT ![n][id] = w]
      BY <1>3
    <2> HIDE DEF old
    <2>2. w \in WriteProcess(p)
      BY <1>4 DEF WriteProcess
    <2>3. w.begun = old.begun /\ w.manifest = old.manifest
      BY <1>4 DEF WriteProcess
    <2> QED
      BY <1>4, <2>1, <2>2, <2>3
  <1> HIDE DEF w, old
  <1>6. Wrote(p, w)
    BY <1>1, <1>4, <1>5, WroteOld DEF FlowInv
  <1>7. /\ WritesOK' /\ \A q \in Put : Begun(q)' <=> Begun(q)
        /\ \A i \in Node : DOMAIN writes[i] \subseteq DOMAIN writes'[i]
    BY <1>1, <1>3, <1>5, <1>6, WroteMeans
  <1>8. Typed' /\ ClientsOK' /\ DeletesOK'
    BY <1>3, <1>7 DEF FlowInv, Typed, ClientsOK, DeletesOK
  <1>9. ManifestsOK'
    BY <1>3, <1>7 DEF FlowInv, ManifestsOK, Text, Manif
  <1>10. /\ DOMAIN there = DOMAIN data[n] \cup {m.body} /\ there[m.body] = p
         /\ \A x \in DOMAIN data[n] : x # m.body => there[x] = data[n][x]
    BY DEF With
  <1> HIDE DEF there
  <1>11. /\ DOMAIN data' = Node /\ data'[n] = there
         /\ \A i \in Node \ {n} : data'[i] = data[i]
    BY <1>1, <1>3 DEF FlowInv, DataOK
  <1>12. ASSUME NEW i \in Node, NEW x \in DOMAIN data'[i]
         PROVE  \/ x \in DOMAIN data[i] /\ data'[i][x] = data[i][x]
                \/ i = n /\ x = m.body /\ data'[i][x] = p
    BY <1>10, <1>11
  <1>13. DataOK'
    <2>1. ASSUME NEW i \in Node, NEW x \in DOMAIN data'[i]
          PROVE  (/\ data[i][x] \in Put /\ i = Via[data[i][x]] /\ Begun(data[i][x])
                  /\ \E t \in 0 .. segments[data[i][x]] - 1 :
                       x = <<NameOf[data[i][x]], t>>)'
      <3>1. PICK q \in Put : /\ data'[i][x] = q /\ i = Via[q] /\ Begun(q)
                             /\ \E t \in 0 .. segments[q] - 1 : x = <<NameOf[q], t>>
        <4>1. CASE x \in DOMAIN data[i] /\ data'[i][x] = data[i][x]
          BY <4>1 DEF FlowInv, DataOK
        <4>2. CASE i = n /\ x = m.body /\ data'[i][x] = p
          BY <1>1, <1>2, <4>2
        <4> QED
          BY <1>12, <4>1, <4>2
      <3> QED
        BY <1>3, <1>7, <3>1
    <2> QED
      BY <1>11, <2>1 DEF DataOK
  <1>14. ASSUME NEW k \in mail \ {m}
         PROVE  Good(k)'
    <2>1. Good(k) /\ k.by \in Client /\ k.to \in Node
      BY DEF FlowInv, MailOK, Good
    <2>2. k.verb = "info" => k.bound \in DOMAIN writes'[k.to]
      BY <1>7, <2>1 DEF Good
    <2>3. k.verb = "segment" /\ k.body \in DOMAIN data'[k.to] => data'[k.to][k.body] # k.by
      <3> SUFFICES ASSUME k.verb = "segment", k.body \in DOMAIN data'[k.to]
                   PROVE  data'[k.to][k.body] # k.by
        OBVIOUS
      <3>1. k.to = Via[k.by] /\ k = Message("segment", k.by, k.to, k.body, PutId(k.by))
        BY <2>1 DEF Good, Fits, FitsPut
      <3>2. CASE k.body \in DOMAIN data[k.to] /\ data'[k.to][k.body] = data[k.to][k.body]
        BY <2>1, <3>2 DEF Good
      <3>3. CASE k.to = n /\ k.body = m.body /\ data'[k.to][k.body] = p
        BY <1>1, <3>1, <3>3
      <3> QED
        BY <1>12, <2>1, <3>2, <3>3
    <2>4. k.by \in Put /\ k.verb \in Before => ~Begun(k.by)'
      BY <1>7, <2>1 DEF Good
    <2> QED
      BY <1>3, <1>7, <2>1, <2>2, <2>3, <2>4, GoodKept
  <1>15. MailOK'
    BY <1>3, <1>14 DEF Handle, MailOK
  <1>16. OneAtATime'
    BY <1>3, OneStays DEF FlowInv
  <1> QED
    BY <1>7, <1>8, <1>9, <1>13, <1>15, <1>16 DEF FlowInv

LEMMA ManifestData ==
  ASSUME FlowInv, NEW m \in mail, OnManifestData(m), UNCHANGED <<segments, stuck>>
  PROVE  FlowInv'
  <1> DEFINE p == m.by
             n == Owner[Key(NameOf[p])]
             h == GetHash(Key(NameOf[p]))
             there == With(manifests[n], h, Text(p))
  <1>1. p \in Put /\ m.to = n /\ n \in Node /\ m.body = Text(p) /\ Begun(p)
    BY DEF OnManifestData, FlowInv, MailOK, Good, Fits, FitsPut, After
  <1>2. /\ HashOf(FromJson(m.body)) = h /\ ToJson(FromJson(m.body)) = Text(p)
    BY <1>1, Texts
  <1>3. /\ UNCHANGED <<segments, client, writes, deletes, data, stuck, meant>>
        /\ manifests' = [manifests EXCEPT ![n] = there] /\ Handle(m, {})
    BY <1>1, <1>2 DEF OnManifestData
  <1>4. /\ DOMAIN there = DOMAIN manifests[n] \cup {h} /\ there[h] = Text(p)
        /\ \A x \in DOMAIN manifests[n] : x # h => there[x] = manifests[n][x]
    BY DEF With
  <1> HIDE DEF there
  <1>5. /\ DOMAIN manifests' = Node /\ manifests'[n] = there
        /\ \A i \in Node \ {n} : manifests'[i] = manifests[i]
    BY <1>1, <1>3 DEF FlowInv, ManifestsOK
  <1>6. /\ WritesOK' /\ \A q \in Put : (Begun(q)' <=> Begun(q)) /\ Text(q)' = Text(q)
    BY <1>3, Unbegun DEF FlowInv, Text, Manif
  <1>7. Steady
    BY <1>3, <1>6 DEF Steady
  <1>8. Typed' /\ ClientsOK' /\ DeletesOK' /\ DataOK'
    BY <1>3, <1>6, <1>7, DataStays DEF FlowInv, Typed, ClientsOK, DeletesOK, DataOK
  <1>9. ManifestsOK'
    <2>1. ASSUME NEW i \in Node, NEW x \in DOMAIN manifests'[i]
          PROVE  (\E q \in Put : /\ i = Owner[Key(NameOf[q])] /\ x = GetHash(Key(NameOf[q]))
                                 /\ manifests[i][x] = Text(q) /\ Begun(q))'
      <3>1. CASE i = n /\ x = h
        BY <1>1, <1>4, <1>5, <1>6, <3>1
      <3>2. CASE i # n \/ x # h
        <4>1. x \in DOMAIN manifests[i] /\ manifests'[i][x] = manifests[i][x]
          BY <1>4, <1>5, <3>2
        <4>2. PICK q \in Put : /\ i = Owner[Key(NameOf[q])] /\ x = GetHash(Key(NameOf[q]))
                               /\ manifests[i][x] = Text(q) /\ Begun(q)
          BY <4>1 DEF FlowInv, ManifestsOK
        <4> QED
          BY <1>6, <4>1, <4>2
      <3> QED
        BY <3>1, <3>2
    <2> QED
      BY <1>5, <2>1 DEF ManifestsOK
  <1> QED
    BY <1>3, <1>6, <1>7, <1>8, <1>9, Ends

-----------------------------------------------------------------------------
(* All steps.                                                              *)

LEMMA FlowBegins ==
  Init => FlowInv
  <1> SUFFICES ASSUME Init
               PROVE  FlowInv
    OBVIOUS
  <1>1. /\ segments \in Sizes /\ mail = {} /\ stuck = {}
        /\ client = [c \in Client |-> [at |-> "idle", id |-> Nothing, content |-> Nothing]]
        /\ meant = [d \in Delete |-> Nothing]
        /\ DOMAIN writes = Node /\ DOMAIN deletes = Node
        /\ DOMAIN manifests = Node /\ DOMAIN data = Node
        /\ \A n \in Node : /\ DOMAIN writes[n] = {} /\ DOMAIN deletes[n] = {}
                           /\ DOMAIN manifests[n] = {} /\ DOMAIN data[n] = {}
    BY DEF Init, Empty
  <1>2. \A p \in Put : ~Begun(p) /\ p \in Client
    BY <1>1, ClientsAssumption DEF Begun, Client
  <1>3. client \in [Client -> ClientState]
    <2>1. [at |-> "idle", id |-> Nothing, content |-> Nothing] \in ClientState
      BY DEF ClientState
    <2> QED
      BY <1>1, <2>1
  <1>4. Typed /\ ClientsOK
    BY <1>1, <1>2, <1>3 DEF Typed, ClientsOK
  <1>5. WritesOK /\ DeletesOK /\ ManifestsOK /\ DataOK
    BY <1>1 DEF WritesOK, DeletesOK, ManifestsOK, DataOK
  <1>6. MailOK /\ OneAtATime
    BY <1>1 DEF MailOK, OneAtATime
  <1> QED
    BY <1>4, <1>5, <1>6 DEF FlowInv

LEMMA Responds ==
  ASSUME FlowInv, NEW m \in mail, Respond(m), UNCHANGED <<segments, stuck>>
  PROVE  FlowInv'
  BY InsertCommand, FindCommand, FindResponse, InsertResponse, DataValidated, Timeout,
     PutFileInterest, SegmentData, CreateCommand, InfoCommand, ManifestData, CheckCommand,
     CheckResponse, GetInterest, GetResponse, DeleteCommand, DeleteManifestCommand,
     DeleteDataResponse, DeleteResponse
  DEF Respond

LEMMA FlowSteps ==
  FlowInv /\ [Next]_vars => FlowInv'
  <1>1. ASSUME FlowInv, Next
        PROVE  FlowInv'
    BY <1>1, Starts, StartsCheck, Responds, DeleteDataCommand DEF Next, Deliver
  <1>2. ASSUME FlowInv, UNCHANGED vars
        PROVE  FlowInv'
    <2>1. UNCHANGED <<segments, client, mail, writes, deletes, diskVars, stuck, meant>>
      BY <1>2 DEF vars
    <2>2. /\ Steady
          /\ Typed' /\ ClientsOK' /\ WritesOK' /\ DeletesOK' /\ ManifestsOK' /\ DataOK'
      BY <1>2, <2>1, QuietStep
    <2>3. MailOK'
      BY <1>2, <2>1, <2>2, GoodStays DEF FlowInv, MailOK
    <2>4. OneAtATime'
      BY <1>2, <2>1 DEF FlowInv, OneAtATime, Chained
    <2> QED
      BY <2>2, <2>3, <2>4 DEF FlowInv
  <1> QED
    BY <1>1, <1>2

\* Every message under way carries the names, hashes, ids and bounds that belong to its
\* client, and what the nodes keep is what puts that have begun have written.
THEOREM FlowAlways ==
  Spec => []FlowInv
  BY FlowBegins, FlowSteps, PTL DEF Spec

-----------------------------------------------------------------------------
(* Types, commands and gets.                                               *)

\* The variables have their types: a node has the Interests of clients under their 0 and
\* no hash with them, the processes of its own under ids that were drawn for the clients
\* they are for, and a manifest at the hash of its name.
THEOREM TypeAlways ==
  Spec => []TypeOK
  <1>1. FlowInv => TypeOK
    <2> SUFFICES ASSUME FlowInv
                 PROVE  TypeOK
      OBVIOUS
    <2>1. /\ segments \in Sizes /\ stuck \subseteq Node
          /\ meant \in [Delete -> Put \cup {Nothing}] /\ client \in [Client -> ClientState]
          /\ \A m \in mail : m.by \in Client /\ m.to \in Node
      BY DEF FlowInv, Typed, ClientsOK, MailOK, Good
    <2>2. ASSUME NEW n \in Node
          PROVE  DOMAIN writes[n] \subseteq {"insert"} \X Put
      BY DEF FlowInv, WritesOK, PutId, Drawn
    <2>5. ASSUME NEW n \in Node, NEW id \in DOMAIN deletes[n]
          PROVE  \/ id = Zero /\ deletes[n][id] \in [by : Delete, hash : {Nothing}]
                 \/ \E d \in Delete :
                      /\ id = Drawn("delete-manifest", d)
                      /\ deletes[n][id] \in [by : {d}, hash : {Nothing, GetHash(NameOf[d])}]
      <3> DEFINE process == deletes[n][id]
      <3>1. DeleteProcess(n, id, process)
        BY DEF FlowInv, DeletesOK
      <3> HIDE DEF process
      <3>2. ASSUME NEW d \in Delete, id = Zero, process = [by |-> d, hash |-> Nothing]
            PROVE  id = Zero /\ process \in [by : Delete, hash : {Nothing}]
        BY <3>2
      <3>3. ASSUME NEW d \in Delete, NEW h \in {Nothing, GetHash(NameOf[d])},
                   id = DelId(d), process = [by |-> d, hash |-> h]
            PROVE  /\ id = Drawn("delete-manifest", d)
                   /\ process \in [by : {d}, hash : {Nothing, GetHash(NameOf[d])}]
        BY <3>3 DEF DelId
      <3>4. \/ id = Zero /\ process \in [by : Delete, hash : {Nothing}]
            \/ \E d \in Delete :
                 /\ id = Drawn("delete-manifest", d)
                 /\ process \in [by : {d}, hash : {Nothing, GetHash(NameOf[d])}]
        BY <3>1, <3>2, <3>3 DEF DeleteProcess
      <3> QED
        BY <3>4 DEF process
    <2>3. ASSUME NEW n \in Node, NEW h \in DOMAIN manifests[n]
          PROVE  HashOf(FromJson(manifests[n][h])) = h
      <3>1. PICK q \in Put : h = GetHash(Key(NameOf[q])) /\ manifests[n][h] = Text(q)
        BY DEF FlowInv, ManifestsOK
      <3> QED
        BY <3>1, Texts
    <2>4. \A n \in Node : \A x \in DOMAIN data[n] : data[n][x] \in Put
      BY DEF FlowInv, DataOK
    <2> QED
      BY <2>1, <2>2, <2>3, <2>4, <2>5 DEF TypeOK, ClientState
  <1> QED
    BY <1>1, FlowAlways, PTL

\* Every command has the fields that its handler reads, but for the ProcessId that every
\* insert lacks and its handler reads, and passes its validator.
THEOREM CommandsFitAlways ==
  Spec => []CommandsFit
  <1>1. FlowInv => CommandsFit
    <2> SUFFICES ASSUME FlowInv, NEW m \in mail, IsCommand(m)
                 PROVE  /\ Reads(m.verb) \ DOMAIN Decode(m.body) =
                             IF m.verb = "insert" THEN {"ProcessId"} ELSE {}
                        /\ m.verb \in {"insert", "insert check", "delete"}
                             => ValidateRequest(m.verb, Decode(m.body))
      BY DEF CommandsFit
    <2>1. Good(m)
      BY DEF FlowInv, MailOK
    <2>2. CASE m.verb = "insert"
      <3>1. DOMAIN Decode(m.body) = {"Name"}
        BY <2>1, <2>2 DEF Good, Fits, FitsPut
      <3> QED
        BY <2>2, <3>1 DEF Reads, ValidateRequest, Validator
    <2>3. CASE m.verb = "insert check"
      <3>1. DOMAIN Decode(m.body) = {"Name", "ProcessId"}
        BY <2>1, <2>3 DEF Good, Fits, FitsPut
      <3> QED
        BY <2>3, <3>1 DEF Reads, ValidateRequest, Validator
    <2>4. CASE m.verb = "delete"
      <3>1. DOMAIN Decode(m.body) = {"Name", "ProcessId"}
        BY <2>1, <2>4 DEF Good, Fits, FitsDelete
      <3> QED
        BY <2>4, <3>1 DEF Reads, ValidateRequest, Validator, RangeOK
    <2>5. CASE m.verb = "delete-data"
      <3>1. DOMAIN Decode(m.body) = {"Name", "StartBlockId", "EndBlockId", "ProcessId"}
        BY <2>1, <2>5 DEF Good, Erases
      <3> QED
        BY <2>5, <3>1 DEF Reads
    <2>6. CASE m.verb \in {"find", "get", "delete-manifest"}
      <3>1. \/ "Name" \in DOMAIN Decode(m.body)
            \/ Decode(m.body) = [Name |-> NameOf[m.by]]
            \/ Decode(m.body) = [Name |-> HashName(NameOf[m.by]), ProcessId |-> Zero]
        BY <2>1, <2>6 DEF Good, Fits, FitsGet, FitsDelete
      <3> QED
        BY <2>6, <3>1 DEF Reads
    <2>7. CASE m.verb = "create"
      <3>1. DOMAIN Decode(m.body) = {"Name", "ClusterPrefix", "ProcessId"}
        BY <2>1, <2>7 DEF Good, Fits, FitsPut
      <3> QED
        BY <2>7, <3>1 DEF Reads
    <2>8. CASE m.verb = "write-info"
      <3>1. DOMAIN Decode(m.body) = {"Name", "ProcessId"}
        BY <2>1, <2>8 DEF Good, Fits, FitsPut
      <3> QED
        BY <2>8, <3>1 DEF Reads
    <2> QED
      BY <2>2, <2>3, <2>4, <2>5, <2>6, <2>7, <2>8 DEF IsCommand
  <1> QED
    BY <1>1, FlowAlways, PTL

\* Which handler a message comes to.
LEMMA Handlers ==
  ASSUME NEW m
  PROVE  /\ HandleInsertCommand(m) => m.verb = "insert"
         /\ OnFindResponse(m) => m.verb = "found" /\ m.by \in Put
         /\ OnInsertCommandResponse(m) => m.verb = "inserted"
         /\ OnDataValidated(m) => m.verb = "info"
         /\ OnTimeout(m) => m.verb = "info"
         /\ OnPutFileInterest(m) => m.verb = "segment"
         /\ OnSegmentData(m) => m.verb = "segment"
         /\ HandleCreateCommand(m) => m.verb = "create"
         /\ HandleInfoCommand(m) => m.verb = "write-info"
         /\ OnManifestData(m) => m.verb = "manifest"
         /\ HandleCheckCommand(m) => m.verb = "insert check"
         /\ OnCheckCommandResponse(m) => m.verb = "checked"
         /\ HandleFindCommand(m) => m.verb = "find"
         /\ OnGetInterest(m) => m.verb = "get"
         /\ OnGetCommandResponse(m) => m.verb = "found" /\ m.by \in Get
         /\ HandleDeleteCommand(m) => m.verb = "delete"
         /\ HandleDeleteManifestCommand(m) => m.verb = "delete-manifest"
         /\ HandleDeleteDataCommand(m) => m.verb = "delete-data"
         /\ OnDeleteDataCommandResponse(m) => m.verb = "data deleted"
         /\ OnDeleteCommandResponse(m) => m.verb = "deleted"
  BY Zenon DEF HandleInsertCommand, OnFindResponse, OnInsertCommandResponse, OnDataValidated,
     OnTimeout, OnPutFileInterest, OnSegmentData, HandleCreateCommand, HandleInfoCommand,
     OnManifestData, HandleCheckCommand, OnCheckCommandResponse, HandleFindCommand,
     OnGetInterest, OnGetCommandResponse, HandleDeleteCommand, HandleDeleteManifestCommand,
     HandleDeleteDataCommand, OnDeleteDataCommandResponse, OnDeleteCommandResponse

\* The messages of the three kinds of clients.
LEMMA VerbsBy ==
  ASSUME FlowInv, NEW m \in mail
  PROVE  /\ m.by \in Put \cup Get \cup Delete
         /\ m.verb \in {"insert", "inserted", "info", "create", "segment", "write-info",
                        "manifest", "insert check", "checked"}
              => m.by \in Put
         /\ m.verb = "get" => m.by \in Get
         /\ m.verb \in {"find", "found"} => m.by \in Put \cup Get
         /\ m.verb \in {"delete", "delete-manifest", "delete-data", "data deleted", "deleted"}
              => m.by \in Delete
  BY DEF FlowInv, MailOK, Good, Client, Fits, FitsPut, FitsGet, FitsDelete

LEMMA OfGet ==
  ASSUME FlowInv, NEW m \in mail, m.by \in Get, Deliver(m)
  PROVE  HandleFindCommand(m) \/ OnGetInterest(m) \/ OnGetCommandResponse(m)
  <1>1. m.by \notin Put /\ m.by \notin Delete
    BY ClientsAssumption
  <1> QED
    BY <1>1, Handlers, VerbsBy DEF Deliver, Respond

LEMMA OfDelete ==
  ASSUME FlowInv, NEW m \in mail, m.by \in Delete, Deliver(m)
  PROVE  \/ HandleDeleteCommand(m) \/ HandleDeleteManifestCommand(m)
         \/ HandleDeleteDataCommand(m) \/ OnDeleteDataCommandResponse(m)
         \/ OnDeleteCommandResponse(m)
  <1>1. m.by \notin Put /\ m.by \notin Get
    BY ClientsAssumption
  <1> QED
    BY <1>1, Handlers, VerbsBy DEF Deliver, Respond

LEMMA OfPut ==
  ASSUME FlowInv, NEW m \in mail, m.by \in Put, Deliver(m)
  PROVE  \/ HandleInsertCommand(m) \/ HandleFindCommand(m) \/ OnFindResponse(m)
         \/ OnInsertCommandResponse(m) \/ OnDataValidated(m) \/ OnTimeout(m)
         \/ OnPutFileInterest(m) \/ OnSegmentData(m) \/ HandleCreateCommand(m)
         \/ HandleInfoCommand(m) \/ OnManifestData(m) \/ HandleCheckCommand(m)
         \/ OnCheckCommandResponse(m)
  <1>1. m.by \notin Delete /\ m.by \notin Get
    BY ClientsAssumption
  <1> QED
    BY <1>1, Handlers, VerbsBy DEF Deliver, Respond

\* Only the client on behalf of whom a message was sent is changed, and only messages
\* on its behalf are sent.
LEMMA OthersWait ==
  ASSUME FlowInv, NEW m \in mail, Deliver(m)
  PROVE  /\ \A c \in Client : c # m.by => client'[c] = client[c]
         /\ UNCHANGED meant
  <1> DEFINE Moved == UNCHANGED client \/ \E r : client' = [client EXCEPT ![m.by] = r]
  <1>1. DOMAIN client = Client
    BY DEF FlowInv, ClientsOK
  <1>2. OnInsertCommandResponse(m) => Moved /\ UNCHANGED meant
    BY Zenon DEF OnInsertCommandResponse
  <1>3. OnGetCommandResponse(m) => Moved /\ UNCHANGED meant
    BY Zenon DEF OnGetCommandResponse
  <1>4. OnPutFileInterest(m) => Moved /\ UNCHANGED meant
    BY Zenon DEF OnPutFileInterest
  <1>5. OnCheckCommandResponse(m) => Moved /\ UNCHANGED meant
    BY Zenon DEF OnCheckCommandResponse
  <1>6. OnDeleteCommandResponse(m) => Moved /\ UNCHANGED meant
    BY Zenon DEF OnDeleteCommandResponse
  <1>7. Deliver(m) => Moved /\ UNCHANGED meant
    <2>1. \/ HandleInsertCommand(m) \/ HandleFindCommand(m) \/ OnFindResponse(m)
          \/ OnDataValidated(m) \/ OnTimeout(m) \/ OnSegmentData(m) \/ HandleCreateCommand(m)
          \/ HandleInfoCommand(m) \/ OnManifestData(m) \/ HandleCheckCommand(m)
          \/ OnGetInterest(m) \/ HandleDeleteCommand(m) \/ HandleDeleteManifestCommand(m)
          \/ OnDeleteDataCommandResponse(m) \/ HandleDeleteDataCommand(m)
          => UNCHANGED <<client, meant>>
      BY Zenon DEF HandleInsertCommand, OnFindResponse, OnDataValidated, OnTimeout,
         OnSegmentData, HandleCreateCommand, HandleInfoCommand, OnManifestData,
         HandleCheckCommand, HandleFindCommand, OnGetInterest, HandleDeleteCommand,
         HandleDeleteManifestCommand, HandleDeleteDataCommand, OnDeleteDataCommandResponse
    <2> QED
      BY <1>2, <1>3, <1>4, <1>5, <1>6, <2>1 DEF Deliver, Respond
  <1> QED
    BY <1>1, <1>7

\* What a get prints was read by the manifest of a put of its name.
LEMMA GetMoves ==
  ASSUME FlowInv, NEW m \in mail, Deliver(m), m.by \in Get, client'[m.by].at = "done",
         client'[m.by] # client[m.by]
  PROVE  client'[m.by].content \in Put /\ NameOf[client'[m.by].content] = NameOf[m.by]
  <1> DEFINE g == m.by
             read == ReadBy(m.body)
             failed == [client[g] EXCEPT !.at = "failed"]
             done == [client[g] EXCEPT !.at = "done", !.content = read]
  <1>1. OnGetCommandResponse(m)
    <2>1. HandleFindCommand(m) \/ OnGetInterest(m) => UNCHANGED client
      BY Zenon DEF HandleFindCommand, OnGetInterest
    <2> QED
      BY <2>1, OfGet
  <1>2. client' = [client EXCEPT ![g] =
          IF read = Nothing THEN [@ EXCEPT !.at = "failed"]
          ELSE [@ EXCEPT !.at = "done", !.content = read]]
    BY Zenon, <1>1 DEF OnGetCommandResponse
  <1>3. /\ m.body = Nothing \/ \E q \in Put : m.body = Text(q) /\ Key(NameOf[q]) = NameOf[g]
        /\ g \in Client /\ client[g] \in ClientState /\ DOMAIN client = Client
    BY <1>1, HeardBy, Handlers DEF FlowInv, MailOK, Good, Fits, FitsGet, ClientsOK
  <1>4. read # Nothing => read \in Put /\ NameOf[read] = NameOf[g]
    BY <1>3, ReadsNothing, ReadsWhole
  <1> HIDE DEF read
  <1>5. client'[g] = failed \/ (read # Nothing /\ client'[g] = done)
    BY <1>2, <1>3
  <1>6. failed.at = "failed" /\ done.content = read
    BY <1>3 DEF ClientState
  <1> QED
    BY <1>4, <1>5, <1>6

LEMMA ClientOf ==
  ASSUME FlowInv, NEW c \in Client
  PROVE  client[c] \in ClientState
  BY DEF FlowInv, ClientsOK

GetInv ==
  \A g \in Get : client[g].at = "done" =>
    client[g].content \in Put /\ NameOf[client[g].content] = NameOf[g]

\* A get prints only what a put of that very name has written.
THEOREM GetsItsNameAlways ==
  Spec => []GetsItsName
  <1>1. Init => GetInv
    BY DEF Init, GetInv, Client
  <1>2. FlowInv /\ GetInv /\ [Next]_vars => GetInv'
    <2> SUFFICES ASSUME FlowInv, GetInv, [Next]_vars, NEW g \in Get, client'[g].at = "done"
                 PROVE  /\ client'[g].content \in Put
                        /\ NameOf[client'[g].content] = NameOf[g]
      BY DEF GetInv
    <2>1. g \in Client /\ DOMAIN client = Client
      BY DEF Client, FlowInv, ClientsOK
    <2>2. CASE client'[g] = client[g]
      BY <2>2 DEF GetInv
    <2>3. ASSUME NEW c \in Client, client' = [client EXCEPT ![c].at = "asking"]
          PROVE  client'[g] = client[g]
      <3>1. c = g => client'[g].at = "asking" \/ client'[g] = client[g]
        BY <2>1, <2>3, ClientOf DEF ClientState
      <3> QED
        BY <2>1, <2>3, <3>1
    <2>4. Start => client'[g] = client[g]
      BY <2>3 DEF Start, PutFileStartInsertCommand, GetFile, DeleteFile, Client
    <2>5. \A p \in Put : PutFileStartCheckCommand(p) => client'[g] = client[g]
      BY <2>3 DEF PutFileStartCheckCommand, Client
    <2>6. ASSUME NEW m \in mail, Deliver(m), client'[g] # client[g]
          PROVE  /\ client'[g].content \in Put
                 /\ NameOf[client'[g].content] = NameOf[g]
      <3>1. m.by = g
        BY <2>1, <2>6, OthersWait
      <3> QED
        BY <2>6, <3>1, GetMoves
    <2>7. UNCHANGED vars => client'[g] = client[g]
      BY DEF vars
    <2> QED
      BY <2>2, <2>4, <2>5, <2>6, <2>7 DEF Next
  <1>3. GetInv => GetsItsName
    BY DEF GetInv, GetsItsName
  <1> QED
    BY <1>1, <1>2, <1>3, FlowAlways, PTL DEF Spec

-----------------------------------------------------------------------------
(* A put that has begun is not forgotten.                                  *)

LEMMA WroteOthers ==
  ASSUME NEW p \in Put, NEW q \in Put, NEW w, Wrote(p, w), q # p
  PROVE  Begun(q)' <=> Begun(q)
  <1>1. Via[q] \in Node /\ PutId(q) # PutId(p)
    BY PutIdsDiffer, ClientsAssumption DEF Client
  <1> QED
    BY <1>1 DEF Wrote, Begun

\* Where a process changes it is that of the message's client, and stays begun.
LEMMA WritesMove ==
  ASSUME FlowInv, NEW m \in mail, Deliver(m), writes' # writes
  PROVE  /\ m.by \in Put
         /\ \/ ~Begun(m.by) /\ \A q \in Put : q # m.by => (Begun(q)' <=> Begun(q))
            \/ \E w : Wrote(m.by, w) /\ (Begun(m.by) => w.begun = TRUE)
  <1> DEFINE p == m.by
             n == Via[p]
             id == PutId(p)
             old == writes[n][id]
  <1>0. WritesOK /\ Good(m)
    BY DEF FlowInv, MailOK
  <1>1. CASE OnFindResponse(m)
    <2> DEFINE w == [code |-> 300, count |-> 0, begun |-> FALSE, manifest |-> Nothing]
    <2>1. p \in Put /\ m.to = n /\ ~Begun(p)
      BY <1>0, <1>1, Handlers DEF Good, Fits, FitsGet, Before
    <2>2. writes' = [writes EXCEPT ![n] = With(@, id, w)]
      BY <1>1, <2>1 DEF OnFindResponse, PutId
    <2> HIDE DEF w
    <2>3. Wrote(p, w)
      BY <1>0, <2>1, <2>2, WroteNew
    <2> QED
      BY <2>1, <2>3
  <1>2. CASE OnDataValidated(m)
    <2>1. p \in Put /\ m.to = n /\ m.bound = id /\ ~Begun(p) /\ id \in DOMAIN writes[n]
      BY <1>0, <1>2, Handlers DEF Good, Fits, FitsPut, Before
    <2>2. \E x : writes' = [writes EXCEPT ![m.to][m.bound] = x]
      BY <1>2 DEF OnDataValidated
    <2>3. \E x : Wrote(p, x)
      BY <1>0, <2>1, <2>2, WroteOld
    <2> QED
      BY <2>1, <2>3
  <1>3. CASE OnTimeout(m)
    <2>1. p \in Put /\ m.to = n /\ n \in Node /\ m.bound = id /\ ~Begun(p)
      BY <1>0, <1>3, Handlers DEF Good, Fits, FitsPut, Before
    <2>2. writes' = [writes EXCEPT ![n] = But(@, {id})]
      BY <1>3, <2>1 DEF OnTimeout
    <2>3. ASSUME NEW q \in Put, q # p
          PROVE  Begun(q)' <=> Begun(q)
      <3>1. Via[q] \in Node /\ PutId(q) # id
        BY <2>3, PutIdsDiffer, ClientsAssumption DEF Client
      <3> QED
        BY <1>0, <2>1, <2>2, <3>1 DEF Begun, But, WritesOK
    <2> QED
      BY <2>1, <2>3
  <1>4. CASE OnSegmentData(m)
    <2> DEFINE w == [old EXCEPT !.count = old.count + 1]
    <2>1. p \in Put /\ m.to = n /\ m.bound = id /\ Begun(p)
      BY <1>0, <1>4, Handlers DEF Good, Fits, FitsPut
    <2>2. writes' = [writes EXCEPT ![n][id] = w]
      BY <1>4, <2>1 DEF OnSegmentData
    <2>3. id \in DOMAIN writes[n] /\ old \in WriteProcess(p) /\ old.begun = TRUE
      BY <1>0, <2>1, ProcessOf DEF Begun
    <2>4. w.begun = TRUE
      <3> HIDE DEF old
      <3> QED
        BY <2>3 DEF WriteProcess
    <2> HIDE DEF w, old
    <2>5. Wrote(p, w)
      BY <1>0, <2>1, <2>2, <2>3, WroteOld
    <2> QED
      BY <2>1, <2>4, <2>5
  <1>5. CASE HandleCheckCommand(m)
    <2>1. /\ p \in Put /\ m.to = n
          /\ Decode(m.body) = [Name |-> NameOf[p], ProcessId |-> id]
      BY <1>0, <1>5, Handlers DEF Good, Fits, FitsPut
    <2>2. Decode(m.body).ProcessId = id
      BY <2>1
    <2>3. /\ Decode(m.body).ProcessId \in DOMAIN writes[m.to]
          /\ \E x : writes' = [writes EXCEPT ![m.to][Decode(m.body).ProcessId].code = x]
      BY Zenon, <1>5 DEF HandleCheckCommand
    <2>4. PICK x : writes' = [writes EXCEPT ![n][id].code = x]
      BY <2>1, <2>2, <2>3
    <2> DEFINE w == [old EXCEPT !.code = x]
    <2>5. writes' = [writes EXCEPT ![n][id] = w]
      BY <2>4
    <2>6. id \in DOMAIN writes[n] /\ old \in WriteProcess(p)
      BY <1>0, <2>1, <2>2, <2>3, ProcessOf
    <2>7. Begun(p) => w.begun = TRUE
      <3>1. Begun(p) => old.begun = TRUE
        BY DEF Begun
      <3> HIDE DEF old
      <3> QED
        BY <2>6, <3>1 DEF WriteProcess
    <2> HIDE DEF w, old
    <2>8. Wrote(p, w)
      BY <1>0, <2>1, <2>5, <2>6, WroteOld
    <2> QED
      BY <2>1, <2>7, <2>8
  <1>6. \/ HandleInsertCommand(m) \/ HandleFindCommand(m) \/ OnInsertCommandResponse(m)
        \/ OnPutFileInterest(m) \/ HandleCreateCommand(m) \/ HandleInfoCommand(m)
        \/ OnManifestData(m) \/ OnCheckCommandResponse(m) \/ OnGetInterest(m)
        \/ OnGetCommandResponse(m) \/ HandleDeleteCommand(m)
        \/ HandleDeleteManifestCommand(m) \/ OnDeleteDataCommandResponse(m)
        \/ OnDeleteCommandResponse(m) \/ HandleDeleteDataCommand(m)
        => UNCHANGED writes
    BY Zenon DEF HandleInsertCommand, HandleFindCommand, OnInsertCommandResponse,
       OnPutFileInterest, HandleCreateCommand, HandleInfoCommand, OnManifestData,
       OnCheckCommandResponse, OnGetInterest, OnGetCommandResponse, HandleDeleteCommand,
       HandleDeleteManifestCommand, OnDeleteDataCommandResponse, OnDeleteCommandResponse,
       HandleDeleteDataCommand
  <1> QED
    BY <1>1, <1>2, <1>3, <1>4, <1>5, <1>6 DEF Deliver, Respond

LEMMA BegunStays ==
  ASSUME FlowInv, [Next]_vars, NEW q \in Put, Begun(q)
  PROVE  Begun(q)'
  <1>1. UNCHANGED writes => Begun(q)'
    BY DEF Begun
  <1>2. Start \/ (\E p \in Put : PutFileStartCheckCommand(p)) \/ UNCHANGED vars
        => UNCHANGED writes
    BY Zenon DEF Start, PutFileStartInsertCommand, GetFile, DeleteFile,
                 PutFileStartCheckCommand, vars
  <1>3. ASSUME NEW m \in mail, Deliver(m), writes' # writes
        PROVE  Begun(q)'
    <2>1. ASSUME NEW w, Wrote(m.by, w), Begun(m.by) => w.begun = TRUE, m.by \in Put
          PROVE  Begun(q)'
      <3>1. CASE q = m.by
        BY <2>1, <3>1 DEF Wrote, Begun
      <3>2. CASE q # m.by
        BY <2>1, <3>2, WroteOthers
      <3> QED
        BY <3>1, <3>2
    <2> QED
      BY <1>3, <2>1, WritesMove
  <1> QED
    BY <1>1, <1>2, <1>3 DEF Next

-----------------------------------------------------------------------------
(* Deletes: one message at a time.                                         *)

LEMMA MessageBy ==
  ASSUME NEW v, NEW c, NEW n, NEW b, NEW d
  PROVE  /\ Message(v, c, n, b, d).by = c /\ Message(v, c, n, b, d).verb = v
         /\ Message(v, c, n, b, d).to = n
         /\ Command(v, c, n, b, d).by = c /\ Command(v, c, n, b, d).verb = v
  BY DEF Message, Command

Deletes(k) == k.verb \in {"delete-manifest", "delete-data", "data deleted", "deleted"}

LEMMA DeleteMoves ==
  ASSUME FlowInv, NEW m \in mail, m.by \in Delete, Deliver(m)
  PROVE  \E S : /\ Handle(m, S) /\ (S # {} => UNCHANGED client)
                /\ \A k, l \in S : k = l /\ k.by = m.by /\ Deletes(k)
  <1> DEFINE Goal == \E S : /\ Handle(m, S) /\ (S # {} => UNCHANGED client)
                            /\ \A k, l \in S : k = l /\ k.by = m.by /\ Deletes(k)
  <1>1. ASSUME NEW k, k.by = m.by, Deletes(k), UNCHANGED client, Handle(m, {k})
        PROVE  Goal
    BY <1>1
  <1>2. Handle(m, {}) => Goal
    OBVIOUS
  <1> HIDE DEF Goal
  <1>3. CASE HandleDeleteCommand(m)
    <2>1. PICK n, b : /\ Handle(m, {Command("delete-manifest", m.by, n, b, Nothing)})
                      /\ UNCHANGED client
      BY Zenon, <1>3 DEF HandleDeleteCommand
    <2> DEFINE k == Command("delete-manifest", m.by, n, b, Nothing)
    <2>2. k.by = m.by /\ Deletes(k)
      BY DEF Message, Command, Deletes
    <2> HIDE DEF k
    <2> QED
      BY <1>1, <2>1, <2>2 DEF k
  <1>4. CASE HandleDeleteManifestCommand(m)
    <2> DEFINE none == Deleted(m.by, 405)
               json == Stored(m.to, Decode(m.body).Name[1])
               some == DeleteData(m, DeleteId(m), FromJson(json))
    <2>1. UNCHANGED client /\ (Handle(m, {none}) \/ Handle(m, {some}))
      BY Zenon, <1>4 DEF HandleDeleteManifestCommand
    <2>2. none.by = m.by /\ some.by = m.by /\ Deletes(none) /\ Deletes(some)
      BY DEF Deleted, DeleteData, Deletes, Message, Command
    <2> HIDE DEF none, some
    <2> QED
      BY <1>1, <2>1, <2>2
  <1>5. CASE HandleDeleteDataCommand(m)
    <2> DEFINE k == Message("data deleted", m.by, m.bound.at,
                            EncodeResponse([StatusCode |-> 200]), m.bound.id)
    <2>1. UNCHANGED client /\ (Handle(m, {}) \/ Handle(m, {k}))
      BY <1>5 DEF HandleDeleteDataCommand
    <2>2. k.by = m.by /\ Deletes(k)
      BY DEF Message, Deletes
    <2> HIDE DEF k
    <2> QED
      BY <1>1, <1>2, <2>1, <2>2
  <1>6. CASE OnDeleteDataCommandResponse(m)
    <2>1. m.bound = DelId(m.by) /\ m.to \in Node
      BY <1>6, Handlers DEF FlowInv, MailOK, Good, Fits, FitsDelete
    <2>2. m.bound \in DOMAIN deletes[m.to] => deletes[m.to][m.bound].by = m.by
      <3> SUFFICES ASSUME m.bound \in DOMAIN deletes[m.to]
                   PROVE  deletes[m.to][m.bound].by = m.by
        OBVIOUS
      <3> QED
        BY <2>1, ProcessOfDelete DEF FlowInv
    <2> DEFINE k == Deleted(deletes[m.to][m.bound].by, 200)
    <2>3. /\ UNCHANGED client
          /\ Handle(m, {}) \/ (m.bound \in DOMAIN deletes[m.to] /\ Handle(m, {k}))
      BY Zenon, <1>6 DEF OnDeleteDataCommandResponse
    <2>4. Deletes(k) /\ (m.bound \in DOMAIN deletes[m.to] => k.by = m.by)
      BY <2>2 DEF Deleted, Deletes, Message
    <2> HIDE DEF k
    <2> QED
      BY <1>1, <1>2, <2>3, <2>4
  <1>7. CASE OnDeleteCommandResponse(m)
    BY <1>2, <1>7 DEF OnDeleteCommandResponse
  <1> QED
    BY <1>3, <1>4, <1>5, <1>6, <1>7, OfDelete DEF Goal

\* Whoever handles a message sends others on behalf of the same client; the info of a
\* put has the segments asked for, and its check is answered.
Due(k, m) ==
  /\ k.by = m.by
  /\ k.verb = "segment" => m.verb = "info"
  /\ k.verb = "checked" => HandleCheckCommand(m)

LEMMA OnBehalf ==
  ASSUME FlowInv, NEW m \in mail, Deliver(m)
  PROVE  \E S : Handle(m, S) /\ \A k \in S : Due(k, m)
  <1> DEFINE Goal == \E S : Handle(m, S) /\ \A k \in S : Due(k, m)
  <1>1. ASSUME NEW v, NEW n, NEW b, NEW d, v # "segment",
               v # "checked" \/ HandleCheckCommand(m),
               \/ Handle(m, {Command(v, m.by, n, b, d)})
               \/ Handle(m, {Message(v, m.by, n, b, d)})
        PROVE  Goal
    <2>1. ASSUME NEW k, Due(k, m), Handle(m, {k})
          PROVE  Goal
      BY <2>1
    <2>2. Due(Command(v, m.by, n, b, d), m) /\ Due(Message(v, m.by, n, b, d), m)
      BY <1>1, MessageBy DEF Due
    <2> HIDE DEF Goal
    <2> QED
      BY <1>1, <2>1, <2>2
  <1>2. Handle(m, {}) => Goal
    OBVIOUS
  <1>3. CASE m.by \in Delete
    <2>1. PICK S : Handle(m, S) /\ \A k, l \in S : k = l /\ k.by = m.by /\ Deletes(k)
      BY <1>3, DeleteMoves
    <2>2. \A k \in S : Due(k, m)
      BY <2>1 DEF Due, Deletes
    <2> QED
      BY <2>1, <2>2
  <1>4. CASE OnFindResponse(m)
    <2> DEFINE id == Drawn("insert", m.by)
               refused == EncodeResponse([StatusCode |-> 403])
               made == EncodeResponse([StatusCode |-> 100, ProcessId |-> id, InsertNum |-> 0])
               taken == Message("inserted", m.by, m.to, refused, Nothing)
               free == Message("inserted", m.by, m.to, made, Nothing)
               info == Message("info", m.by, m.to, m.bound.parameters.Name, id)
    <2>1. Handle(m, {taken}) \/ Handle(m, {free, info})
      BY Zenon, <1>4 DEF OnFindResponse
    <2>2. Due(taken, m) /\ Due(free, m) /\ Due(info, m)
      BY DEF Message, Due
    <2> HIDE DEF taken, free, info
    <2>3. /\ \A k \in {taken} : Due(k, m)
          /\ \A k \in {free, info} : Due(k, m)
      BY <2>2
    <2>4. ASSUME NEW S, Handle(m, S), \A k \in S : Due(k, m)
          PROVE  Goal
      BY <2>4
    <2> HIDE DEF Goal
    <2> QED
      BY <2>1, <2>3, <2>4
  <1>5. CASE OnDataValidated(m)
    <2> DEFINE info == FromInfoJson(ToInfoJson(NewManifest(m.body, 0, segments[m.by] - 1)))
               manifest == ManifestOf(info, m.to)
               create == Command("create", m.by, Owner[HashOf(manifest).hashOf],
                                 [Name |-> <<HashOf(manifest)>>, ClusterPrefix |-> m.to,
                                  ProcessId |-> m.bound], Nothing)
               Asked == {Message("segment", m.by, m.to, <<info.name, s>>, m.bound)
                           : s \in {0} \cup 0 .. info.end}
    <2>1. Handle(m, {create} \cup Asked)
      BY Zenon, <1>5 DEF OnDataValidated
    <2>2. Due(create, m) /\ \A k \in Asked : k.by = m.by /\ k.verb = "segment"
      <3> HIDE DEF info, manifest
      <3> QED
        BY DEF Message, Command, Due
    <2> HIDE DEF create, Asked
    <2>3. \A k \in {create} \cup Asked : Due(k, m)
      BY <1>5, <2>2, Handlers DEF Due
    <2> QED
      BY Zenon, <2>1, <2>3
  <1>6. CASE HandleInfoCommand(m)
    <2> DEFINE S == {Message("manifest", m.by, m.bound, ToJson(writes[m.to][x].manifest), Nothing)
                       : x \in DOMAIN writes[m.to] \cap {Decode(m.body).ProcessId}}
    <2>1. Handle(m, S)
      BY Zenon, <1>6 DEF HandleInfoCommand
    <2>2. \A k \in S : Due(k, m)
      BY DEF Message, Due
    <2> QED
      BY <2>1, <2>2
  <1> HIDE DEF Goal
  <1>7. OnInsertCommandResponse(m) \/ OnTimeout(m) \/ OnPutFileInterest(m) \/ OnSegmentData(m)
        \/ OnManifestData(m) \/ OnCheckCommandResponse(m) \/ OnGetCommandResponse(m) => Goal
    BY Zenon, <1>2 DEF OnInsertCommandResponse, OnTimeout, OnPutFileInterest, OnSegmentData,
       OnManifestData, OnCheckCommandResponse, OnGetCommandResponse
  <1>8. HandleInsertCommand(m) \/ HandleCreateCommand(m) \/ HandleFindCommand(m)
        \/ OnGetInterest(m) => Goal
    <2>1. ASSUME HandleInsertCommand(m)
          PROVE  \E n, b, d : Handle(m, {Command("find", m.by, n, b, d)})
      BY Zenon, <2>1 DEF HandleInsertCommand
    <2>2. ASSUME HandleCreateCommand(m)
          PROVE  \E n, b, d : Handle(m, {Command("write-info", m.by, n, b, d)})
      BY Zenon, <2>2 DEF HandleCreateCommand
    <2>3. ASSUME HandleFindCommand(m)
          PROVE  \E n, b, d : Handle(m, {Message("found", m.by, n, b, d)})
      BY Zenon, <2>3 DEF HandleFindCommand
    <2>4. ASSUME OnGetInterest(m)
          PROVE  \E n, b, d : Handle(m, {Command("find", m.by, n, b, d)})
      BY Zenon, <2>4 DEF OnGetInterest
    <2>5. ASSUME NEW v \in {"find", "found", "write-info"}, NEW n, NEW b, NEW d,
                 \/ Handle(m, {Command(v, m.by, n, b, d)})
                 \/ Handle(m, {Message(v, m.by, n, b, d)})
          PROVE  Goal
      <3>1. v # "segment" /\ v # "checked"
        OBVIOUS
      <3> QED
        BY <1>1, <2>5, <3>1
    <2> QED
      BY <2>1, <2>2, <2>3, <2>4, <2>5
  <1>9. HandleCheckCommand(m) => Goal
    <2> DEFINE id == Decode(m.body).ProcessId
               process == writes[m.to][id]
               code == IF process.begun THEN process.code ELSE 405
               b == EncodeResponse([ProcessId |-> id, InsertNum |-> process.count,
                      StatusCode |-> IF process.count = 0 THEN 100 ELSE code])
    <2>1. HandleCheckCommand(m) => Handle(m, {Message("checked", m.by, m.to, b, Nothing)})
      BY Zenon DEF HandleCheckCommand
    <2> HIDE DEF b
    <2> QED
      BY <1>1, <2>1
  <1>10. m.by \in Put \cup Get \cup Delete
    BY VerbsBy
  <1> QED
    BY <1>3, <1>4, <1>5, <1>6, <1>7, <1>8, <1>9, <1>10, OfPut, OfGet DEF Goal

\* A client asks: one that is idle, or a put that checks.
LEMMA Asks ==
  ASSUME FlowInv, Start \/ \E p \in Put : PutFileStartCheckCommand(p)
  PROVE  \E c, k :
           /\ c \in Client
           /\ client[c].at = "idle" \/ c \in Put
           /\ client' = [client EXCEPT ![c].at = "asking"] /\ client'[c].at = "asking"
           /\ \A e \in Client : e # c => client'[e] = client[e]
           /\ mail' = mail \cup {k} /\ k.by = c
           /\ k.verb \in {"insert", "get", "delete", "insert check"}
           /\ UNCHANGED <<writes, deletes, diskVars>>
  <1> DEFINE Goal(c, k) ==
        /\ c \in Client
        /\ client[c].at = "idle" \/ c \in Put
        /\ client' = [client EXCEPT ![c].at = "asking"] /\ client'[c].at = "asking"
        /\ \A e \in Client : e # c => client'[e] = client[e]
        /\ mail' = mail \cup {k} /\ k.by = c
        /\ k.verb \in {"insert", "get", "delete", "insert check"}
        /\ UNCHANGED <<writes, deletes, diskVars>>
  <1>1. ASSUME NEW c \in Client, client' = [client EXCEPT ![c].at = "asking"]
        PROVE  client'[c].at = "asking" /\ \A e \in Client : e # c => client'[e] = client[e]
    <2>1. DOMAIN client = Client /\ client[c] \in ClientState
      BY DEF FlowInv, ClientsOK
    <2> QED
      BY <1>1, <2>1 DEF ClientState
  <1>2. ASSUME NEW p \in Put, PutFileStartInsertCommand(p)
        PROVE  \E c, k : Goal(c, k)
    <2> DEFINE k == Command("insert", p, Via[p], [Name |-> NameOf[p]], Nothing)
    <2>1. /\ client[p].at = "idle" /\ client' = [client EXCEPT ![p].at = "asking"]
          /\ mail' = mail \cup {k} /\ UNCHANGED <<writes, deletes, diskVars>> /\ p \in Client
      BY <1>2 DEF PutFileStartInsertCommand, Client
    <2>2. k.by = p /\ k.verb = "insert"
      BY DEF Message, Command
    <2> HIDE DEF k
    <2>3. Goal(p, k)
      BY <1>1, <2>1, <2>2
    <2> HIDE DEF Goal
    <2> QED
      BY <2>3
  <1>3. ASSUME NEW g \in Get, GetFile(g)
        PROVE  \E c, k : Goal(c, k)
    <2> DEFINE k == Command("get", g, Via[g], [Name |-> NameOf[g]], Nothing)
    <2>1. /\ client[g].at = "idle" /\ client' = [client EXCEPT ![g].at = "asking"]
          /\ mail' = mail \cup {k} /\ UNCHANGED <<writes, deletes, diskVars>> /\ g \in Client
      BY <1>3 DEF GetFile, Client
    <2>2. k.by = g /\ k.verb = "get"
      BY DEF Message, Command
    <2> HIDE DEF k
    <2>3. Goal(g, k)
      BY <1>1, <2>1, <2>2
    <2> HIDE DEF Goal
    <2> QED
      BY <2>3
  <1>4. ASSUME NEW d \in Delete, DeleteFile(d)
        PROVE  \E c, k : Goal(c, k)
    <2> DEFINE k == Command("delete", d, Via[d], DeleteFields(d), Nothing)
    <2>1. /\ client[d].at = "idle" /\ client' = [client EXCEPT ![d].at = "asking"]
          /\ mail' = mail \cup {k} /\ UNCHANGED <<writes, deletes, diskVars>> /\ d \in Client
      BY <1>4 DEF DeleteFile, Client
    <2>2. k.by = d /\ k.verb = "delete"
      BY DEF Message, Command
    <2> HIDE DEF k
    <2>3. Goal(d, k)
      BY <1>1, <2>1, <2>2
    <2> HIDE DEF Goal
    <2> QED
      BY <2>3
  <1>5. ASSUME NEW p \in Put, PutFileStartCheckCommand(p)
        PROVE  \E c, k : Goal(c, k)
    <2> DEFINE k == Command("insert check", p, Via[p],
                            [Name |-> NameOf[p], ProcessId |-> client[p].id], Nothing)
    <2>1. /\ client' = [client EXCEPT ![p].at = "asking"]
          /\ mail' = mail \cup {k} /\ UNCHANGED <<writes, deletes, diskVars>> /\ p \in Client
      BY <1>5 DEF PutFileStartCheckCommand, Client
    <2>2. k.by = p /\ k.verb = "insert check"
      BY DEF Message, Command
    <2> HIDE DEF k
    <2>3. Goal(p, k)
      BY <1>1, <2>1, <2>2
    <2> HIDE DEF Goal
    <2> QED
      BY <2>3
  <1> HIDE DEF Goal
  <1>6. \E c, k : Goal(c, k)
    BY <1>2, <1>3, <1>4, <1>5 DEF Start
  <1> QED
    BY <1>6 DEF Goal

\* A delete has one message under way at most, and waits for as long as it has.
DeleteInv ==
  /\ \A m, k \in mail : m.by \in Delete /\ m.by = k.by => m = k
  /\ \A m \in mail : m.by \in Delete => client[m.by].at = "asking"

LEMMA DeleteSteps ==
  ASSUME FlowInv, DeleteInv, [Next]_vars
  PROVE  DeleteInv'
  <1>0. \A d \in Delete : d \in Client /\ d \notin Put
    BY ClientsAssumption DEF Client
  <1>1. CASE Start \/ \E p \in Put : PutFileStartCheckCommand(p)
    <2>1. PICK c, k :
            /\ c \in Client
            /\ client[c].at = "idle" \/ c \in Put
            /\ client'[c].at = "asking" /\ \A e \in Client : e # c => client'[e] = client[e]
            /\ mail' = mail \cup {k} /\ k.by = c
      BY <1>1, Asks
    <2>2. c \in Delete => \A m \in mail : m.by # c
      BY <1>0, <2>1, HeardBy
    <2> QED
      BY <1>0, <2>1, <2>2 DEF DeleteInv
  <1>2. ASSUME NEW m \in mail, Deliver(m)
        PROVE  DeleteInv'
    <2>1. \A c \in Client : c # m.by => client'[c] = client[c]
      BY <1>2, OthersWait
    <2>2. CASE m.by \in Delete
      <3>1. PICK S : /\ Handle(m, S) /\ (S # {} => UNCHANGED client)
                     /\ \A k, l \in S : k = l /\ k.by = m.by
        BY <1>2, <2>2, DeleteMoves DEF Deletes
      <3>2. \A k \in mail \ {m} : k.by # m.by
        BY <2>2 DEF DeleteInv
      <3>3. mail' = (mail \ {m}) \cup S
        BY <3>1 DEF Handle
      <3> QED
        BY <1>0, <2>1, <2>2, <3>1, <3>2, <3>3 DEF DeleteInv
    <2>3. CASE m.by \notin Delete
      <3>1. PICK S : Handle(m, S) /\ \A k \in S : k.by = m.by
        BY <1>2, OnBehalf DEF Due
      <3>2. \A k \in mail' : k.by \in Delete => k \in mail
        BY <2>3, <3>1 DEF Handle
      <3> QED
        BY <1>0, <2>1, <2>3, <3>2 DEF DeleteInv
    <2> QED
      BY <2>2, <2>3
  <1>3. CASE UNCHANGED vars
    BY <1>3 DEF vars, DeleteInv
  <1> QED
    BY <1>1, <1>2, <1>3 DEF Next

LEMMA DeleteBegins ==
  Init => DeleteInv
  BY DEF Init, DeleteInv

\* Nothing is under way on behalf of c.
NoMail(c) == \A m \in mail : m.by # c

\* A node has stopped over an empty file that had begun, and its delete waits for ever.
StoppedBy(p, d) ==
  /\ segments[p] = 0 /\ Begun(p) /\ Key(NameOf[p]) = NameOf[d]
  /\ client[d].at = "asking" /\ NoMail(d)

StuckInv == stuck # {} => \E p \in Put, d \in Delete : StoppedBy(p, d)

LEMMA StoppedStays ==
  ASSUME FlowInv, [Next]_vars, NEW p \in Put, NEW d \in Delete, StoppedBy(p, d)
  PROVE  StoppedBy(p, d)'
  <1>1. segments' = segments /\ Begun(p)'
    BY BegunStays DEF Next, vars, StoppedBy
  <1>2. d \in Client /\ d \notin Put
    BY ClientsAssumption DEF Client
  <1>3. client'[d].at = "asking" /\ NoMail(d)'
    <2>1. CASE Start \/ \E q \in Put : PutFileStartCheckCommand(q)
      <3>1. PICK c, k :
              /\ c \in Client
              /\ client[c].at = "idle" \/ c \in Put
              /\ \A e \in Client : e # c => client'[e] = client[e]
              /\ mail' = mail \cup {k} /\ k.by = c
        BY <2>1, Asks
      <3>2. c # d
        BY <1>2, <3>1 DEF StoppedBy
      <3> QED
        BY <1>2, <3>1, <3>2 DEF StoppedBy, NoMail
    <2>2. ASSUME NEW m \in mail, Deliver(m)
          PROVE  client'[d].at = "asking" /\ NoMail(d)'
      <3>1. m.by # d /\ client[d].at = "asking"
        BY DEF StoppedBy, NoMail
      <3>2. client'[d] = client[d]
        BY <1>2, <2>2, <3>1, OthersWait
      <3>3. PICK S : Handle(m, S) /\ \A k \in S : k.by = m.by
        BY <2>2, OnBehalf DEF Due
      <3> QED
        BY <3>1, <3>2, <3>3 DEF StoppedBy, NoMail, Handle
    <2>3. CASE UNCHANGED vars
      BY <2>3 DEF vars, StoppedBy, NoMail
    <2> QED
      BY <2>1, <2>2, <2>3 DEF Next
  <1> QED
    BY <1>1, <1>3 DEF StoppedBy

\* What delete-data erases: the segments of a put of the name that has begun.
LEMMA Erased ==
  ASSUME FlowInv, NEW m \in mail, HandleDeleteDataCommand(m)
  PROVE  /\ m.by \in Delete /\ m.to \in Node
         /\ \E q \in Put :
              /\ Begun(q) /\ Key(NameOf[q]) = NameOf[m.by] /\ m.to = Via[q]
              /\ Decode(m.body).Name = NameOf[m.by]
              /\ Decode(m.body).StartBlockId = 0
              /\ segments[q] = 0 => Decode(m.body).EndBlockId = Word - 1
              /\ segments[q] # 0 => Decode(m.body).EndBlockId = segments[q] - 1
                                    /\ segments[q] - 1 < Word - 1
  <1>1. m.verb = "delete-data" /\ Good(m)
    BY Handlers DEF FlowInv, MailOK
  <1>2. PICK q \in Put : Begun(q) /\ Erases(m, q)
    BY <1>1 DEF Good
  <1>3. /\ Decode(m.body).Name = NameOf[m.by]
        /\ Decode(m.body).StartBlockId = SegmentNo(0)
        /\ Decode(m.body).EndBlockId = SegmentNo(segments[q] - 1)
    BY <1>2 DEF Erases
  <1>4. segments[q] \in Nat /\ segments[q] < Word /\ Word \in Nat \ {0}
    BY SizeOf, ClientsAssumption DEF FlowInv
  <1>5. /\ SegmentNo(0) = 0
        /\ segments[q] = 0 => SegmentNo(segments[q] - 1) = Word - 1
        /\ segments[q] # 0 => SegmentNo(segments[q] - 1) = segments[q] - 1
    BY <1>4 DEF SegmentNo
  <1> QED
    BY <1>1, <1>2, <1>3, <1>4, <1>5 DEF Good, Fits, FitsDelete, Erases

LEMMA StuckSteps ==
  ASSUME FlowInv, DeleteInv, StuckInv, [Next]_vars
  PROVE  StuckInv'
  <1>1. CASE stuck' = stuck
    <2> SUFFICES ASSUME stuck # {}
                 PROVE  \E p \in Put, d \in Delete : StoppedBy(p, d)'
      BY <1>1 DEF StuckInv
    <2> QED
      BY StoppedStays DEF StuckInv
  <1>2. CASE stuck' # stuck
    <2>1. PICK m \in mail : Deliver(m) /\ HandleDeleteDataCommand(m)
      BY <1>2 DEF Next, Deliver, vars
    <2>2. PICK q \in Put :
            /\ Begun(q) /\ Key(NameOf[q]) = NameOf[m.by]
            /\ segments[q] # 0 => Decode(m.body).EndBlockId = segments[q] - 1
                                  /\ segments[q] - 1 < Word - 1
      BY <2>1, Erased
    <2>3. /\ Decode(m.body).EndBlockId = Word - 1
          /\ UNCHANGED client /\ Handle(m, {})
      BY <1>2, <2>1 DEF HandleDeleteDataCommand
    <2>4. m.by \in Delete
      BY <2>1, Erased
    <2>5. segments[q] = 0
      <3>1. segments[q] \in Nat /\ Word \in Nat
        BY SizeOf, ClientsAssumption DEF FlowInv
      <3> QED
        BY <2>2, <2>3, <3>1
    <2>6. segments' = segments /\ Begun(q)'
      BY <2>2, BegunStays DEF Next, vars
    <2>7. client'[m.by].at = "asking" /\ NoMail(m.by)'
      BY <2>3, <2>4 DEF DeleteInv, NoMail, Handle
    <2>8. StoppedBy(q, m.by)'
      BY <2>2, <2>5, <2>6, <2>7 DEF StoppedBy
    <2> QED
      BY <2>4, <2>8 DEF StuckInv
  <1> QED
    BY <1>1, <1>2

\* A node stands still only when an empty file was put and a client waits for its
\* deletion.
THEOREM StuckHasCauseAlways ==
  Spec => []StuckHasCause
  <1>1. Init => StuckInv
    BY DEF Init, StuckInv
  <1>2. FlowInv /\ StuckInv => StuckHasCause
    BY DEF FlowInv, ClientsOK, StuckInv, StoppedBy, StuckHasCause
  <1> QED
    BY <1>1, <1>2, DeleteBegins, DeleteSteps, StuckSteps, FlowAlways, PTL DEF Spec

-----------------------------------------------------------------------------
(* What a confirmed delete has erased.                                     *)

\* Which handlers move segments, and which manifests.
LEMMA DiskWaits ==
  ASSUME NEW m, Deliver(m)
  PROVE  /\ OnSegmentData(m) \/ HandleDeleteDataCommand(m) \/ UNCHANGED data
         /\ OnManifestData(m) \/ OnDeleteDataCommandResponse(m) \/ UNCHANGED manifests
  <1>1. \/ HandleInsertCommand(m) \/ HandleFindCommand(m) \/ OnFindResponse(m)
        \/ OnInsertCommandResponse(m) \/ OnDataValidated(m) \/ OnTimeout(m)
        \/ OnPutFileInterest(m) \/ HandleCreateCommand(m) \/ HandleInfoCommand(m)
        \/ HandleCheckCommand(m) \/ OnCheckCommandResponse(m)
        \/ OnGetInterest(m) \/ OnGetCommandResponse(m) \/ HandleDeleteCommand(m)
        \/ HandleDeleteManifestCommand(m) \/ OnDeleteCommandResponse(m)
        => UNCHANGED <<manifests, data>>
    BY Zenon DEF HandleInsertCommand, HandleFindCommand, OnFindResponse,
       OnInsertCommandResponse, OnDataValidated, OnTimeout, OnPutFileInterest,
       HandleCreateCommand, HandleInfoCommand, HandleCheckCommand,
       OnCheckCommandResponse, OnGetInterest, OnGetCommandResponse, HandleDeleteCommand,
       HandleDeleteManifestCommand, OnDeleteCommandResponse, diskVars
  <1>2. /\ OnManifestData(m) \/ OnDeleteDataCommandResponse(m) => UNCHANGED data
        /\ OnSegmentData(m) \/ HandleDeleteDataCommand(m) => UNCHANGED manifests
    BY Zenon DEF OnManifestData, OnDeleteDataCommandResponse, OnSegmentData,
       HandleDeleteDataCommand
  <1> QED
    BY <1>1, <1>2 DEF Deliver, Respond

\* Segments come only from the client of the put that they are of.
LEMMA DataMoves ==
  ASSUME FlowInv, NEW m \in mail, Deliver(m), NEW n \in Node, NEW x \in DOMAIN data'[n]
  PROVE  \/ x \in DOMAIN data[n] /\ data'[n][x] = data[n][x]
         \/ /\ OnSegmentData(m) /\ n = m.to /\ x = m.body /\ data'[n][x] = m.by
  <1>1. m.to \in Node /\ DOMAIN data = Node
    BY DEF FlowInv, MailOK, Good, DataOK
  <1>2. CASE OnSegmentData(m)
    <2> DEFINE there == With(data[m.to], m.body, m.by)
    <2>1. data' = [data EXCEPT ![m.to] = there]
      BY <1>2 DEF OnSegmentData
    <2>2. /\ DOMAIN there = DOMAIN data[m.to] \cup {m.body} /\ there[m.body] = m.by
          /\ \A y \in DOMAIN data[m.to] : y # m.body => there[y] = data[m.to][y]
      BY DEF With
    <2> HIDE DEF there
    <2> QED
      BY <1>1, <1>2, <2>1, <2>2
  <1>3. CASE HandleDeleteDataCommand(m)
    <2> DEFINE par == Decode(m.body)
               gone == {par.Name} \X (par.StartBlockId .. par.EndBlockId)
    <2>1. data' = [data EXCEPT ![m.to] = But(@, gone)]
      BY <1>3 DEF HandleDeleteDataCommand
    <2> HIDE DEF gone
    <2> QED
      BY <1>1, <2>1 DEF But
  <1> QED
    BY <1>2, <1>3, DiskWaits

\* All segments of q have been stored, or will not be.
Fetched(q) == Begun(q) /\ \A m \in mail : m.verb = "segment" => m.by # q
NoneOf(q) == \A n \in Node : \A x \in DOMAIN data[n] : data[n][x] # q

LEMMA FetchedStays ==
  ASSUME FlowInv, [Next]_vars, NEW q \in Put, Fetched(q)
  PROVE  Fetched(q)' /\ (NoneOf(q) => NoneOf(q)')
  <1>1. Begun(q)'
    BY BegunStays DEF Fetched
  <1>2. CASE Start \/ \E p \in Put : PutFileStartCheckCommand(p)
    <2>1. PICK k : /\ mail' = mail \cup {k}
                   /\ k.verb \in {"insert", "get", "delete", "insert check"}
                   /\ UNCHANGED <<writes, deletes, diskVars>>
      BY <1>2, Asks
    <2> QED
      BY <1>1, <2>1 DEF Fetched, NoneOf, diskVars
  <1>3. ASSUME NEW m \in mail, Deliver(m)
        PROVE  Fetched(q)' /\ (NoneOf(q) => NoneOf(q)')
    <2>1. PICK S : /\ Handle(m, S)
                   /\ \A k \in S : k.by = m.by /\ (k.verb = "segment" => m.verb = "info")
      BY <1>3, OnBehalf DEF Due
    <2>2. m.verb = "info" => m.by # q
      BY VerbsBy DEF FlowInv, MailOK, Good, Before, Fetched
    <2>3. Fetched(q)'
      BY <1>1, <2>1, <2>2 DEF Fetched, Handle
    <2>4. NoneOf(q) => NoneOf(q)'
      <3>1. OnSegmentData(m) => m.by # q
        BY Handlers DEF Fetched
      <3> QED
        BY <1>3, <3>1, DataMoves DEF NoneOf
    <2> QED
      BY <2>3, <2>4
  <1>4. CASE UNCHANGED vars
    BY <1>1, <1>4 DEF vars, diskVars, Fetched, NoneOf
  <1> QED
    BY <1>2, <1>3, <1>4 DEF Next

\* m says that the segments have been erased.
Confirms(m) ==
  \/ m.verb = "data deleted"
  \/ m.verb = "deleted" /\ DecodeResponse(m.body).StatusCode = 200

\* Only delete-data brings about what a confirmation says; the others pass it on.
LEMMA ConfirmMoves ==
  ASSUME FlowInv, NEW m \in mail, m.by \in Delete, Deliver(m),
         ~HandleDeleteDataCommand(m), ~Confirms(m)
  PROVE  /\ \A k \in mail' : Confirms(k) => k \in mail
         /\ client'[m.by].at = "done" => client[m.by].at = "done"
  <1>1. CASE HandleDeleteCommand(m)
    <2>1. PICK n, b : /\ Handle(m, {Command("delete-manifest", m.by, n, b, Nothing)})
                      /\ UNCHANGED client
      BY Zenon, <1>1 DEF HandleDeleteCommand
    <2>2. ~Confirms(Command("delete-manifest", m.by, n, b, Nothing))
      BY DEF Confirms, Message, Command
    <2> QED
      BY <2>1, <2>2 DEF Handle
  <1>2. CASE HandleDeleteManifestCommand(m)
    <2> DEFINE none == Deleted(m.by, 405)
               json == Stored(m.to, Decode(m.body).Name[1])
               some == DeleteData(m, DeleteId(m), FromJson(json))
    <2>1. UNCHANGED client /\ (Handle(m, {none}) \/ Handle(m, {some}))
      BY Zenon, <1>2 DEF HandleDeleteManifestCommand
    <2>2. some.verb = "delete-data"
      BY DEF DeleteData, Message, Command
    <2>3. none.verb = "deleted" /\ DecodeResponse(none.body).StatusCode = 405
      <3> DEFINE b == EncodeResponse([StatusCode |-> 405])
      <3>1. DecodeResponse(b) = [StatusCode |-> 405]
        BY CodeDecodes
      <3>2. none = Message("deleted", m.by, Via[m.by], b, Zero)
        BY DEF Deleted
      <3> HIDE DEF b, none
      <3> QED
        BY <3>1, <3>2 DEF Message
    <2> HIDE DEF none, some
    <2>4. ~Confirms(some)
      BY <2>2 DEF Confirms
    <2>5. ~Confirms(none)
      <3>1. DecodeResponse(none.body).StatusCode # 200
        BY <2>3
      <3> QED
        BY <2>3, <3>1 DEF Confirms
    <2> QED
      BY <2>1, <2>4, <2>5 DEF Handle
  <1>3. CASE OnDeleteDataCommandResponse(m)
    BY <1>3, Handlers DEF Confirms
  <1>4. CASE OnDeleteCommandResponse(m)
    <2>1. /\ Handle(m, {}) /\ m.verb = "deleted"
          /\ client' = [client EXCEPT ![m.by].at =
                          IF DecodeResponse(m.body).StatusCode = 200 THEN "done" ELSE "failed"]
      BY <1>4 DEF OnDeleteCommandResponse
    <2>2. client' = [client EXCEPT ![m.by].at = "failed"]
      BY <2>1 DEF Confirms
    <2>3. m.by \in Client /\ client[m.by] \in ClientState /\ DOMAIN client = Client
      BY HeardBy DEF FlowInv, ClientsOK
    <2>4. client'[m.by].at = "failed"
      BY <2>2, <2>3 DEF ClientState
    <2> QED
      BY <2>1, <2>4 DEF Handle
  <1> QED
    BY <1>1, <1>2, <1>3, <1>4, OfDelete

\* Puts that have begun have different last components in their names.
OneOfAKey ==
  \A p, q \in Put :
    Begun(p) /\ Begun(q) /\ Key(NameOf[p]) = Key(NameOf[q]) => p = q

\* q, which the delete d found when it began, is gone once d is confirmed.
Meant(d, q) ==
  /\ NameOf[q] = NameOf[d] /\ Key(NameOf[q]) = NameOf[q] /\ Fetched(q)
  /\ client[d].at = "done" => NoneOf(q)
  /\ \A m \in mail : m.by = d /\ Confirms(m) => NoneOf(q)

GoneInv == \A d \in Delete, q \in Put : meant[d] = q => Meant(d, q)

\* delete-data erases all segments of a put whose segments have come.
LEMMA ErasesAll ==
  ASSUME FlowInv, OneOfAKey, NEW m \in mail, HandleDeleteDataCommand(m), NEW q \in Put,
         Begun(q), Key(NameOf[q]) = NameOf[m.by], NameOf[q] = NameOf[m.by]
  PROVE  NoneOf(q)'
  <1> DEFINE par == Decode(m.body)
             gone == {par.Name} \X (par.StartBlockId .. par.EndBlockId)
             left == But(data[m.to], gone)
  <1>1. /\ m.to = Via[q] /\ m.to \in Node /\ par.Name = NameOf[q] /\ par.StartBlockId = 0
        /\ segments[q] # 0 => par.EndBlockId = segments[q] - 1
    BY Erased DEF OneOfAKey
  <1>2. data' = [data EXCEPT ![m.to] = left]
    BY DEF HandleDeleteDataCommand
  <1>3. /\ DOMAIN left = DOMAIN data[m.to] \ gone
        /\ \A x \in DOMAIN left : left[x] = data[m.to][x]
    BY DEF But
  <1> HIDE DEF left
  <1>4. DOMAIN data = Node
    BY DEF FlowInv, DataOK
  <1>5. ASSUME NEW n \in Node, NEW x \in DOMAIN data'[n], data'[n][x] = q
        PROVE  FALSE
    <2>1. x \in DOMAIN data[n] /\ data[n][x] = q /\ (n = m.to => x \notin gone)
      BY <1>1, <1>2, <1>3, <1>4, <1>5
    <2>2. n = Via[q] /\ \E s \in 0 .. segments[q] - 1 : x = <<NameOf[q], s>>
      BY <2>1 DEF FlowInv, DataOK
    <2>3. segments[q] \in Nat
      BY SizeOf DEF FlowInv
    <2> HIDE DEF par
    <2> QED
      BY <1>1, <2>1, <2>2, <2>3
  <1> QED
    BY <1>5 DEF NoneOf

\* What is read when a delete begins.
LEMMA MeansWhatIsRead ==
  ASSUME FlowInv, NEW d \in Delete, ReadableOf(NameOf[d]) # Nothing
  PROVE  LET q == ReadableOf(NameOf[d])
         IN  /\ q \in Put /\ NameOf[q] = NameOf[d] /\ Key(NameOf[q]) = NameOf[q] /\ Fetched(q)
             /\ ~NoneOf(q)
  <1> DEFINE q == ReadableOf(NameOf[d])
  <1>1. d \in Client
    BY DEF Client
  <1>2. PICK o \in Put : /\ Stored(Owner[NameOf[d]], GetHash(NameOf[d])) = Text(o)
                         /\ Key(NameOf[o]) = NameOf[d]
    BY <1>1, ReadsItsName
  <1>3. q = ReadBy(Text(o)) /\ q # Nothing
    BY <1>2 DEF ReadableOf
  <1> HIDE DEF q
  <1>4. /\ q \in Put /\ NameOf[q] = NameOf[d] /\ Begun(q) /\ Via[q] \in Node /\ 0 < segments[q]
        /\ \A s \in 0 .. segments[q] - 1 : /\ <<NameOf[q], s>> \in DOMAIN data[Via[q]]
                                           /\ data[Via[q]][<<NameOf[q], s>>] = q
    BY <1>2, <1>3, ReadsWhole
  <1>5. Key(NameOf[q]) = NameOf[q]
    BY <1>2, <1>4, KeyOfKey
  <1>6. segments[q] \in Nat
    BY <1>4, SizeOf DEF FlowInv
  <1>7. ASSUME NEW m \in mail, m.verb = "segment", m.by = q
        PROVE  FALSE
    <2>1. m.to = Via[q] /\ \E s \in Wanted(q) : m.body = <<NameOf[q], s>>
      BY <1>7 DEF FlowInv, MailOK, Good, Fits, FitsPut
    <2>2. m.body \in DOMAIN data[m.to] /\ data[m.to][m.body] = q
      BY <1>4, <1>6, <2>1 DEF Wanted
    <2> QED
      BY <1>7, <2>2 DEF FlowInv, MailOK, Good
  <1>8. ~NoneOf(q)
    <2>1. 0 \in 0 .. segments[q] - 1
      BY <1>4, <1>6
    <2> QED
      BY <1>4, <2>1 DEF NoneOf
  <1> QED
    BY <1>4, <1>5, <1>7, <1>8 DEF Fetched, q

LEMMA MeantStays ==
  ASSUME FlowInv, DeleteInv, OneOfAKey, [Next]_vars, NEW d \in Delete, NEW q \in Put,
         Meant(d, q)
  PROVE  Meant(d, q)'
  <1>1. d \in Client /\ d \notin Put
    BY ClientsAssumption DEF Client
  <1>2. Fetched(q)' /\ (NoneOf(q) => NoneOf(q)')
    BY FetchedStays DEF Meant
  <1>3. CASE Start \/ \E p \in Put : PutFileStartCheckCommand(p)
    <2>1. PICK c, k :
            /\ c \in Client
            /\ client'[c].at = "asking" /\ \A e \in Client : e # c => client'[e] = client[e]
            /\ mail' = mail \cup {k} /\ k.verb \in {"insert", "get", "delete", "insert check"}
      BY <1>3, Asks
    <2>2. ~Confirms(k)
      BY <2>1 DEF Confirms
    <2> QED
      BY <1>1, <1>2, <2>1, <2>2 DEF Meant
  <1>4. ASSUME NEW m \in mail, Deliver(m)
        PROVE  Meant(d, q)'
    <2>1. PICK S : Handle(m, S) /\ \A k \in S : k.by = m.by
      BY <1>4, OnBehalf DEF Due
    <2>2. \A c \in Client : c # m.by => client'[c] = client[c]
      BY <1>4, OthersWait
    <2>3. CASE m.by # d
      <3>1. \A k \in mail' : k.by = d => k \in mail
        BY <2>1, <2>3 DEF Handle
      <3>2. client'[d] = client[d]
        BY <1>1, <2>2, <2>3
      <3> QED
        BY <1>2, <3>1, <3>2 DEF Meant
    <2>4. CASE m.by = d /\ HandleDeleteDataCommand(m)
      <3>1. NoneOf(q)'
        BY <2>4, ErasesAll DEF Meant, Fetched
      <3> QED
        BY <1>2, <3>1 DEF Meant
    <2>5. CASE m.by = d /\ Confirms(m)
      BY <1>2, <2>5 DEF Meant
    <2>6. CASE m.by = d /\ ~HandleDeleteDataCommand(m) /\ ~Confirms(m)
      BY <1>2, <1>4, <2>6, ConfirmMoves DEF Meant
    <2> QED
      BY <2>3, <2>4, <2>5, <2>6
  <1>5. CASE UNCHANGED vars
    BY <1>2, <1>5 DEF vars, Meant
  <1> QED
    BY <1>3, <1>4, <1>5 DEF Next

LEMMA GoneSteps ==
  ASSUME FlowInv, DeleteInv, OneOfAKey, GoneInv, [Next]_vars
  PROVE  GoneInv'
  <1> SUFFICES ASSUME NEW d \in Delete, NEW q \in Put, meant'[d] = q
               PROVE  Meant(d, q)'
    BY DEF GoneInv
  <1>0. q # Nothing
    BY ClientsAssumption DEF Client
  <1>1. CASE meant'[d] = meant[d]
    BY <1>1, MeantStays DEF GoneInv
  <1>2. CASE meant'[d] # meant[d]
    <2>1. PICK e \in Delete : DeleteFile(e)
      <3>1. \A m \in mail : Deliver(m) => UNCHANGED meant
        BY OthersWait
      <3>2. \A p \in Put : PutFileStartInsertCommand(p) => UNCHANGED meant
        BY DEF PutFileStartInsertCommand
      <3>3. \A p \in Put : PutFileStartCheckCommand(p) => UNCHANGED meant
        BY DEF PutFileStartCheckCommand
      <3>4. \A g \in Get : GetFile(g) => UNCHANGED meant
        BY DEF GetFile
      <3> QED
        BY <1>2, <3>1, <3>2, <3>3, <3>4 DEF Next, Start, vars
    <2> DEFINE read == ReadableOf(NameOf[e])
    <2>2. /\ meant' = [meant EXCEPT ![e] = read] /\ UNCHANGED <<writes, deletes, diskVars>>
          /\ client' = [client EXCEPT ![e].at = "asking"] /\ client[e].at = "idle"
          /\ mail' = mail \cup {Command("delete", e, Via[e], DeleteFields(e), Nothing)}
      BY <2>1 DEF DeleteFile
    <2> HIDE DEF read
    <2>3. e = d /\ meant'[d] = read
      BY <1>2, <2>2 DEF FlowInv, Typed
    <2>4. NameOf[q] = NameOf[d] /\ Key(NameOf[q]) = NameOf[q] /\ Fetched(q)
      BY <1>0, <2>3, MeansWhatIsRead DEF read
    <2>5. Fetched(q)'
      BY <2>4, FetchedStays
    <2>6. d \in Client /\ client'[d].at = "asking"
      BY <2>2, <2>3 DEF FlowInv, ClientsOK, ClientState, Client
    <2>7. \A m \in mail' : m.by = d => ~Confirms(m)
      <3>1. \A m \in mail : m.by # d
        BY <2>2, <2>3, HeardBy
      <3>2. ~Confirms(Command("delete", e, Via[e], DeleteFields(e), Nothing))
        BY DEF Confirms, Message, Command
      <3> QED
        BY <2>2, <3>1, <3>2
    <2> QED
      BY <2>4, <2>5, <2>6, <2>7 DEF Meant
  <1> QED
    BY <1>1, <1>2

\* When a delete is confirmed, all is gone that a reader could get when it began, if no
\* two puts of one last component have been under way.
THEOREM DeletedIsGoneAlways ==
  Spec /\ []OneOfAKey => []DeletedIsGone
  <1>1. Init => GoneInv
    BY ClientsAssumption DEF Init, GoneInv, Client
  <1>2. FlowInv /\ GoneInv => DeletedIsGone
    <2> SUFFICES ASSUME FlowInv, GoneInv, NEW d \in Delete,
                        client[d].at = "done", meant[d] # Nothing
                 PROVE  /\ ReadableOf(NameOf[d]) # meant[d]
                        /\ \A n \in Node : \A x \in DOMAIN data[n] : data[n][x] # meant[d]
      BY DEF DeletedIsGone
    <2>1. NoneOf(meant[d])
      BY DEF FlowInv, Typed, GoneInv, Meant
    <2>2. ReadableOf(NameOf[d]) # Nothing => ~NoneOf(ReadableOf(NameOf[d]))
      BY MeansWhatIsRead
    <2> QED
      BY <2>1, <2>2 DEF NoneOf
  <1>3. FlowInv /\ DeleteInv /\ OneOfAKey /\ GoneInv /\ [Next]_vars => GoneInv'
    BY GoneSteps
  <1> QED
    BY <1>1, <1>2, <1>3, DeleteBegins, DeleteSteps, FlowAlways, PTL DEF Spec

-----------------------------------------------------------------------------
(* What is kept of a put that no other client of its key disturbs.         *)

\* A client that has started is never idle again, and a put is done only when it is
\* told of as many segments as it has.
LEMMA ClientMoves ==
  ASSUME FlowInv, NEW m \in mail, Deliver(m)
  PROVE  /\ client'[m.by].at # "idle"
         /\ m.by \in Put /\ client'[m.by].at = "done" =>
              \/ client[m.by].at = "done"
              \/ m.verb = "checked" /\ DecodeResponse(m.body).InsertNum = segments[m.by]
  <1> DEFINE c == m.by
             old == client[c]
             r == client'[c]
  <1>1. c \in Client /\ old \in ClientState /\ old.at # "idle" /\ DOMAIN client = Client
    BY HeardBy DEF FlowInv, ClientsOK
  <1>2. \A at : LET x == [old EXCEPT !.at = at]
                IN  x.at = at /\ x.id = old.id
    BY <1>1 DEF ClientState
  <1>3. CASE OnInsertCommandResponse(m)
    <2> DEFINE id == DecodeResponse(m.body).ProcessId
               failed == [old EXCEPT !.at = "failed"]
               checking == [old EXCEPT !.at = "checking", !.id = id]
    <2>1. client' = [client EXCEPT ![c] =
            IF c \notin Running THEN @
            ELSE IF DecodeResponse(m.body).StatusCode >= 400 THEN [@ EXCEPT !.at = "failed"]
            ELSE [@ EXCEPT !.at = "checking", !.id = id]]
      BY Zenon, <1>3 DEF OnInsertCommandResponse
    <2> HIDE DEF id
    <2>2. r \in {old, failed, checking}
      BY <1>1, <2>1
    <2>3. failed.at = "failed" /\ checking.at = "checking"
      BY <1>1 DEF ClientState
    <2> QED
      BY <1>1, <2>2, <2>3
  <1>4. CASE OnGetCommandResponse(m)
    <2> DEFINE read == ReadBy(m.body)
               failed == [old EXCEPT !.at = "failed"]
               done == [old EXCEPT !.at = "done", !.content = read]
    <2>1. client' = [client EXCEPT ![c] =
            IF read = Nothing THEN [@ EXCEPT !.at = "failed"]
            ELSE [@ EXCEPT !.at = "done", !.content = read]]
      BY Zenon, <1>4 DEF OnGetCommandResponse
    <2> HIDE DEF read
    <2>2. r \in {failed, done}
      BY <1>1, <2>1
    <2>3. failed.at = "failed" /\ done.at = "done"
      BY <1>1 DEF ClientState
    <2>4. c \notin Put
      BY <1>4, Handlers, ClientsAssumption
    <2> QED
      BY <2>2, <2>3, <2>4
  <1>5. CASE OnPutFileInterest(m)
    <2>1. client' = [client EXCEPT ![c].at = IF c \in Running THEN "failed" ELSE @]
      BY <1>5 DEF OnPutFileInterest
    <2>2. r.at \in {old.at, "failed"}
      BY <1>1, <2>1 DEF ClientState
    <2> QED
      BY <1>1, <2>2
  <1>6. CASE OnCheckCommandResponse(m)
    <2> DEFINE num == DecodeResponse(m.body).InsertNum
    <2>1. /\ m.verb = "checked"
          /\ client' = [client EXCEPT ![c].at =
                          IF c \notin Running THEN @
                          ELSE IF DecodeResponse(m.body).StatusCode >= 400 THEN "failed"
                          ELSE IF num = segments[c] THEN "done" ELSE "checking"]
      BY <1>6 DEF OnCheckCommandResponse
    <2> HIDE DEF num
    <2>2. r.at \in {old.at, "failed", "checking"} \/ (num = segments[c] /\ r.at = "done")
      BY <1>1, <2>1 DEF ClientState
    <2> QED
      BY <1>1, <2>1, <2>2 DEF num
  <1>7. CASE OnDeleteCommandResponse(m)
    <2>1. client' = [client EXCEPT ![c].at =
                       IF DecodeResponse(m.body).StatusCode = 200 THEN "done" ELSE "failed"]
      BY <1>7 DEF OnDeleteCommandResponse
    <2>2. r.at \in {"done", "failed"}
      BY <1>1, <2>1 DEF ClientState
    <2>3. c \in Delete /\ c \notin Put
      BY <1>7, Handlers, VerbsBy, ClientsAssumption
    <2> QED
      BY <2>2, <2>3
  <1>8. \/ HandleInsertCommand(m) \/ HandleFindCommand(m) \/ OnFindResponse(m)
        \/ OnDataValidated(m) \/ OnTimeout(m) \/ OnSegmentData(m) \/ HandleCreateCommand(m)
        \/ HandleInfoCommand(m) \/ OnManifestData(m) \/ HandleCheckCommand(m)
        \/ OnGetInterest(m) \/ HandleDeleteCommand(m) \/ HandleDeleteManifestCommand(m)
        \/ OnDeleteDataCommandResponse(m) \/ HandleDeleteDataCommand(m)
        => UNCHANGED client
    BY Zenon DEF HandleInsertCommand, OnFindResponse, OnDataValidated, OnTimeout,
       OnSegmentData, HandleCreateCommand, HandleInfoCommand, OnManifestData,
       HandleCheckCommand, HandleFindCommand, OnGetInterest, HandleDeleteCommand,
       HandleDeleteManifestCommand, HandleDeleteDataCommand, OnDeleteDataCommandResponse
  <1> QED
    BY <1>1, <1>3, <1>4, <1>5, <1>6, <1>7, <1>8 DEF Deliver, Respond

LEMMA NeverIdleAgain ==
  ASSUME FlowInv, [Next]_vars, NEW c \in Client, client[c].at # "idle"
  PROVE  client'[c].at # "idle"
  <1>1. CASE Start \/ \E p \in Put : PutFileStartCheckCommand(p)
    BY <1>1, Asks
  <1>2. ASSUME NEW m \in mail, Deliver(m)
        PROVE  client'[c].at # "idle"
    BY <1>2, OthersWait, ClientMoves
  <1> QED
    BY <1>1, <1>2 DEF Next, vars

\* A delete that cannot erase anything any more, or has not yet been told what.
Harmless(d) ==
  \/ client[d].at \in {"idle", "failed"}
  \/ \E m \in mail : /\ m.by = d /\ m.verb \in {"delete", "delete-manifest", "deleted"}
                     /\ ~Confirms(m)

\* No other put of its last component has stored anything, and no delete of it erases.
Undisturbed(p) ==
  /\ \A q \in Put \ {p} : Key(NameOf[q]) = Key(NameOf[p]) => ~Begun(q)
  /\ \A d \in Delete : NameOf[d] = Key(NameOf[p]) => Harmless(d)

LEMMA AloneUndisturbed ==
  ASSUME NEW p \in Put, Alone(p)
  PROVE  Undisturbed(p)
  BY DEF Alone, Undisturbed, Harmless, Begun, PutId

LEMMA HarmStays ==
  ASSUME FlowInv, DeleteInv, [Next]_vars, NEW d \in Delete, ~Harmless(d)
  PROVE  ~Harmless(d)'
  <1>1. d \in Client /\ d \notin Put /\ client[d].at \notin {"idle", "failed"}
    BY ClientsAssumption DEF Client, Harmless
  <1>2. CASE Start \/ \E q \in Put : PutFileStartCheckCommand(q)
    <2>1. PICK c, k :
            /\ client[c].at = "idle" \/ c \in Put
            /\ \A e \in Client : e # c => client'[e] = client[e]
            /\ mail' = mail \cup {k} /\ k.by = c
      BY <1>2, Asks
    <2>2. c # d
      BY <1>1, <2>1
    <2> QED
      BY <1>1, <2>1, <2>2 DEF Harmless, Confirms
  <1>3. ASSUME NEW m \in mail, Deliver(m)
        PROVE  ~Harmless(d)'
    <2>1. CASE m.by # d
      <3>1. client'[d] = client[d]
        BY <1>1, <1>3, <2>1, OthersWait
      <3>2. \A k \in mail' : k.by = d => k \in mail
        BY <1>3, <2>1, OnBehalf DEF Due, Handle
      <3> QED
        BY <3>1, <3>2 DEF Harmless, Confirms
    <2>2. CASE m.by = d
      <3>1. m.verb \in {"delete", "delete-manifest", "deleted"} => Confirms(m)
        BY <2>2 DEF Harmless
      <3>2. \A k \in mail \ {m} : k.by # d
        BY <2>2 DEF DeleteInv
      <3>3. ASSUME NEW S, Handle(m, S), client'[d].at \notin {"idle", "failed"},
                   \A k \in S : k.verb = "data deleted" \/ Confirms(k)
            PROVE  ~Harmless(d)'
        <4>1. \A k \in mail' : k.by = d => k.verb = "data deleted" \/ Confirms(k)
          BY <3>2, <3>3 DEF Handle
        <4> QED
          BY <3>3, <4>1 DEF Harmless, Confirms
      <3>4. ASSUME Handle(m, {}), client'[d].at \notin {"idle", "failed"}
            PROVE  ~Harmless(d)'
        <4> DEFINE S == {}
        <4>1. Handle(m, S) /\ \A e \in S : e.verb = "data deleted" \/ Confirms(e)
          BY <3>4
        <4> HIDE DEF S
        <4> QED
          BY <3>3, <3>4, <4>1
      <3>5. ASSUME NEW k, Handle(m, {k}), client'[d].at \notin {"idle", "failed"},
                   k.verb = "data deleted" \/ Confirms(k)
            PROVE  ~Harmless(d)'
        <4> DEFINE S == {k}
        <4>1. Handle(m, S) /\ \A e \in S : e.verb = "data deleted" \/ Confirms(e)
          BY <3>5
        <4> HIDE DEF S
        <4> QED
          BY <3>3, <3>5, <4>1
      <3>6. CASE HandleDeleteDataCommand(m)
        <4> DEFINE k == Message("data deleted", m.by, m.bound.at,
                                EncodeResponse([StatusCode |-> 200]), m.bound.id)
        <4>1. UNCHANGED client /\ (Handle(m, {}) \/ Handle(m, {k}))
          BY <3>6 DEF HandleDeleteDataCommand
        <4>2. k.verb = "data deleted"
          BY DEF Message
        <4> HIDE DEF k
        <4>3. client'[d].at \notin {"idle", "failed"}
          BY <1>1, <4>1
        <4> QED
          BY <3>4, <3>5, <4>1, <4>2, <4>3
      <3>7. CASE OnDeleteDataCommandResponse(m)
        <4> DEFINE b == EncodeResponse([StatusCode |-> 200])
                   by == deletes[m.to][m.bound].by
                   k == Message("deleted", by, Via[by], b, Zero)
        <4>1. UNCHANGED client /\ (Handle(m, {}) \/ Handle(m, {k}))
          BY Zenon, <3>7 DEF OnDeleteDataCommandResponse, Deleted
        <4>2. DecodeResponse(b) = [StatusCode |-> 200]
          BY CodeDecodes
        <4> HIDE DEF b, by
        <4>3. k.verb = "deleted" /\ k.body = b
          BY DEF Message
        <4> HIDE DEF k
        <4>4. Confirms(k)
          BY <4>2, <4>3 DEF Confirms
        <4>5. client'[d].at \notin {"idle", "failed"}
          BY <1>1, <4>1
        <4> QED
          BY <3>4, <3>5, <4>1, <4>4, <4>5
      <3>8. CASE OnDeleteCommandResponse(m)
        <4>1. m.verb = "deleted" /\ Confirms(m)
          BY <3>1, <3>8, Handlers
        <4>2. DecodeResponse(m.body).StatusCode = 200
          BY <4>1 DEF Confirms
        <4>3. Handle(m, {}) /\ client' = [client EXCEPT ![d].at = "done"]
          BY <2>2, <3>8, <4>2 DEF OnDeleteCommandResponse
        <4>4. client'[d].at = "done"
          BY <1>1, <4>3, ClientOf DEF FlowInv, ClientsOK, ClientState
        <4> QED
          BY <3>4, <4>3, <4>4
      <3>9. m.verb \notin {"delete", "delete-manifest"}
        BY <3>1 DEF Confirms
      <3> QED
        BY <1>3, <2>2, <3>6, <3>7, <3>8, <3>9, OfDelete, Handlers
    <2> QED
      BY <2>1, <2>2
  <1>4. CASE UNCHANGED vars
    BY <1>4 DEF vars, Harmless, Confirms
  <1> QED
    BY <1>2, <1>3, <1>4 DEF Next

LEMMA UndisturbedBefore ==
  ASSUME FlowInv, DeleteInv, [Next]_vars, NEW p \in Put, Undisturbed(p)'
  PROVE  Undisturbed(p)
  BY BegunStays, HarmStays DEF Undisturbed

\* The answer to a check has the count of a process that has begun, if it is not 0.
LEMMA CheckAnswers ==
  ASSUME FlowInv, NEW m \in mail, HandleCheckCommand(m)
  PROVE  /\ m.by \in Put
         /\ \E k : /\ Handle(m, {k}) /\ k.by = m.by
                   /\ DecodeResponse(k.body).InsertNum # 0 => Begun(m.by)
  <1> DEFINE p == m.by
             id == Decode(m.body).ProcessId
             process == writes[m.to][id]
             code == IF process.begun THEN process.code ELSE 405
             status == IF process.count = 0 THEN 100 ELSE code
             answer == [ProcessId |-> id, InsertNum |-> process.count, StatusCode |-> status]
             b == EncodeResponse(answer)
             k == Message("checked", p, m.to, b, Nothing)
  <1>1. Handle(m, {k}) /\ id \in DOMAIN writes[m.to]
    BY Zenon DEF HandleCheckCommand
  <1>2. /\ p \in Put /\ m.to = Via[p]
        /\ Decode(m.body) = [Name |-> NameOf[p], ProcessId |-> PutId(p)]
    BY Handlers DEF FlowInv, MailOK, Good, Fits, FitsPut
  <1>3. id = PutId(p)
    BY <1>2
  <1>4. process.count # 0 => Begun(p)
    <2>1. process = writes[Via[p]][PutId(p)] /\ PutId(p) \in DOMAIN writes[Via[p]]
      BY <1>1, <1>2, <1>3
    <2> HIDE DEF process
    <2> QED
      BY <1>2, <2>1, ProcessOf DEF FlowInv, Begun
  <1>5. DecodeResponse(b).InsertNum = process.count
    <2>1. DecodeResponse(b) = answer
      BY CountDecodes
    <2> HIDE DEF b
    <2> QED
      BY <2>1
  <1> HIDE DEF b
  <1>6. k.by = p /\ k.body = b
    BY DEF Message
  <1> HIDE DEF k
  <1> QED
    BY <1>1, <1>2, <1>4, <1>5, <1>6

\* A put is told of segments only when it has begun.
CheckedInv ==
  /\ \A m \in mail :
       m.verb = "checked" /\ DecodeResponse(m.body).InsertNum # 0 => Begun(m.by)
  /\ \A p \in Put : client[p].at = "done" /\ segments[p] # 0 => Begun(p)

LEMMA CheckedSteps ==
  ASSUME FlowInv, CheckedInv, [Next]_vars
  PROVE  CheckedInv'
  <1>1. \A p \in Put : Begun(p) => Begun(p)'
    BY BegunStays
  <1>2. segments' = segments /\ \A p \in Put : p \in Client
    BY DEF Next, vars, Client
  <1>3. \A m \in mail : m.verb = "checked" => m.by \in Put
    BY VerbsBy
  <1>4. CASE Start \/ \E p \in Put : PutFileStartCheckCommand(p)
    <2>1. PICK c, k :
            /\ c \in Client
            /\ client'[c].at = "asking" /\ \A e \in Client : e # c => client'[e] = client[e]
            /\ mail' = mail \cup {k} /\ k.verb \in {"insert", "get", "delete", "insert check"}
      BY <1>4, Asks
    <2>2. k.verb # "checked"
      BY <2>1
    <2> QED
      BY <1>1, <1>2, <1>3, <2>1, <2>2 DEF CheckedInv
  <1>5. ASSUME NEW m \in mail, Deliver(m)
        PROVE  CheckedInv'
    <2>1. ASSUME NEW k \in mail', k.verb = "checked", DecodeResponse(k.body).InsertNum # 0
          PROVE  Begun(k.by)'
      <3>1. PICK S : Handle(m, S) /\ \A l \in S : Due(l, m)
        BY <1>5, OnBehalf
      <3>2. CASE k \in mail
        BY <1>1, <1>3, <2>1, <3>2 DEF CheckedInv
      <3>3. CASE k \notin mail
        <4>1. HandleCheckCommand(m)
          BY <2>1, <3>1, <3>3 DEF Handle, Due
        <4>2. m.by \in Put /\ k.by = m.by /\ Begun(m.by)
          BY <2>1, <3>3, <4>1, CheckAnswers DEF Handle
        <4> QED
          BY <1>1, <4>2
      <3> QED
        BY <3>2, <3>3
    <2>2. ASSUME NEW p \in Put, client'[p].at = "done", segments[p] # 0
          PROVE  Begun(p)'
      <3>1. client[p].at = "done"
            \/ \E k \in mail : /\ k.verb = "checked" /\ k.by = p
                               /\ DecodeResponse(k.body).InsertNum = segments[p]
        BY <1>2, <1>5, <2>2, OthersWait, ClientMoves
      <3> QED
        BY <1>1, <2>2, <3>1 DEF CheckedInv
    <2> QED
      BY <1>2, <2>1, <2>2 DEF CheckedInv
  <1>6. CASE UNCHANGED vars
    BY <1>1, <1>3, <1>6 DEF vars, CheckedInv
  <1> QED
    BY <1>4, <1>5, <1>6 DEF Next

\* A put begins when its info comes: with all its segments asked for, and its manifest
\* announced.
LEMMA BeginsThus ==
  ASSUME FlowInv, [Next]_vars, NEW p \in Put, ~Begun(p), Begun(p)'
  PROVE  \E m \in mail : OnDataValidated(m) /\ m.by = p
  <1>1. UNCHANGED writes => FALSE
    BY DEF Begun
  <1>2. Start \/ (\E q \in Put : PutFileStartCheckCommand(q)) \/ UNCHANGED vars
        => UNCHANGED writes
    BY Zenon DEF Start, PutFileStartInsertCommand, GetFile, DeleteFile,
                 PutFileStartCheckCommand, vars
  <1>3. PICK m \in mail : Deliver(m)
    BY <1>1, <1>2 DEF Next
  <1>4. m.by = p
    <2>1. ASSUME NEW w, Wrote(m.by, w), m.by \in Put, m.by # p
          PROVE  Begun(p)' <=> Begun(p)
      BY <2>1, WroteOthers
    <2> QED
      BY <1>1, <1>3, <2>1, WritesMove
  <1>5. /\ OnSegmentData(m) => Begun(m.by)
        /\ HandleCheckCommand(m) /\ Begun(m.by)' => Begun(m.by)
        /\ OnFindResponse(m) => ~Begun(m.by)'
        /\ OnTimeout(m) => ~Begun(m.by)'
    <2> DEFINE n == Via[p]
               id == PutId(p)
    <2>0. WritesOK /\ Good(m) /\ m.by \in Put /\ m.by = p /\ n \in Node
      BY <1>4, ClientsAssumption DEF FlowInv, MailOK, Client
    <2>1. OnSegmentData(m) => Begun(m.by)
      BY <2>0, Handlers DEF Good
    <2>2. ASSUME OnFindResponse(m)
          PROVE  ~Begun(p)'
      <3> DEFINE w == [code |-> 300, count |-> 0, begun |-> FALSE, manifest |-> Nothing]
      <3>1. m.to = n
        BY <2>0, <2>2, Handlers DEF Good, Fits, FitsGet
      <3>2. writes' = [writes EXCEPT ![n] = With(@, id, w)] \/ UNCHANGED writes
        BY <2>0, <2>2, <3>1 DEF OnFindResponse, PutId
      <3>3. w.begun = FALSE
        OBVIOUS
      <3> HIDE DEF w
      <3>4. Wrote(p, w)
        BY <1>1, <2>0, <3>2, WroteNew
      <3> QED
        BY <3>3, <3>4 DEF Wrote, Begun
    <2>3. ASSUME OnTimeout(m)
          PROVE  ~Begun(p)'
      <3>1. m.to = n /\ m.bound = id
        BY <2>0, <2>3, Handlers DEF Good, Fits, FitsPut
      <3>2. writes' = [writes EXCEPT ![n] = But(@, {id})]
        BY <2>3, <3>1 DEF OnTimeout
      <3> QED
        BY <2>0, <3>2 DEF Begun, But, WritesOK
    <2>4. ASSUME HandleCheckCommand(m), Begun(p)'
          PROVE  Begun(p)
      <3>1. /\ m.to = n
            /\ Decode(m.body) = [Name |-> NameOf[p], ProcessId |-> id]
        BY <2>0, <2>4, Handlers DEF Good, Fits, FitsPut
      <3>2. Decode(m.body).ProcessId = id
        BY <3>1
      <3>3. /\ Decode(m.body).ProcessId \in DOMAIN writes[m.to]
            /\ \E x : writes' = [writes EXCEPT ![m.to][Decode(m.body).ProcessId].code = x]
        BY Zenon, <2>4 DEF HandleCheckCommand
      <3> DEFINE old == writes[n][id]
      <3>4. PICK x : writes' = [writes EXCEPT ![n][id] = [old EXCEPT !.code = x]]
        BY <3>1, <3>2, <3>3
      <3>5. old \in WriteProcess(p) /\ id \in DOMAIN writes[n]
        BY <2>0, <3>1, <3>2, <3>3, ProcessOf
      <3> DEFINE w == [old EXCEPT !.code = x]
      <3>6. w.begun = old.begun
        <4> HIDE DEF old
        <4> QED
          BY <3>5 DEF WriteProcess
      <3>7. writes' = [writes EXCEPT ![n][id] = w]
        BY <3>4
      <3> HIDE DEF w
      <3>8. Wrote(p, w)
        BY <2>0, <3>5, <3>7, WroteOld
      <3> QED
        BY <2>4, <3>5, <3>6, <3>8 DEF Wrote, Begun
    <2> QED
      BY <2>0, <2>1, <2>2, <2>3, <2>4
  <1>6. \/ HandleInsertCommand(m) \/ HandleFindCommand(m) \/ OnInsertCommandResponse(m)
        \/ OnPutFileInterest(m) \/ HandleCreateCommand(m) \/ HandleInfoCommand(m)
        \/ OnManifestData(m) \/ OnCheckCommandResponse(m)
        => UNCHANGED writes
    BY Zenon DEF HandleInsertCommand, HandleFindCommand, OnInsertCommandResponse,
       OnPutFileInterest, HandleCreateCommand, HandleInfoCommand, OnManifestData,
       OnCheckCommandResponse
  <1> QED
    BY <1>1, <1>3, <1>4, <1>5, <1>6, OfPut

\* A segment of p is asked for or stored, and its manifest is announced or stored.
SegmentKept(p, s) ==
  \/ \E m \in mail : m.verb = "segment" /\ m.by = p /\ m.body = <<NameOf[p], s>>
  \/ /\ <<NameOf[p], s>> \in DOMAIN data[Via[p]]
     /\ data[Via[p]][<<NameOf[p], s>>] = p

ManifestKept(p) ==
  LET key == Key(NameOf[p])
  IN  \/ \E m \in mail : m.verb \in After /\ m.by = p
      \/ /\ GetHash(key) \in DOMAIN manifests[Owner[key]]
         /\ manifests[Owner[key]][GetHash(key)] = Text(p)

Kept(p) == ManifestKept(p) /\ \A s \in 0 .. segments[p] - 1 : SegmentKept(p, s)

KeptInv == \A p \in Put : Begun(p) /\ Undisturbed(p) => Kept(p)

LEMMA BeginsKept ==
  ASSUME FlowInv, NEW m \in mail, OnDataValidated(m), segments' = segments
  PROVE  Kept(m.by)'
  <1> DEFINE p == m.by
             info == FromInfoJson(ToInfoJson(NewManifest(m.body, 0, segments[p] - 1)))
             manifest == ManifestOf(info, m.to)
             create == Command("create", p, Owner[HashOf(manifest).hashOf],
                               [Name |-> <<HashOf(manifest)>>, ClusterPrefix |-> m.to,
                                ProcessId |-> m.bound], Nothing)
             ask(s) == Message("segment", p, m.to, <<info.name, s>>, m.bound)
  <1>1. Handle(m, {create} \cup {ask(s) : s \in {0} \cup 0 .. info.end})
    BY Zenon DEF OnDataValidated
  <1>2. m.body = NameOf[p]
    BY Handlers DEF FlowInv, MailOK, Good, Fits, FitsPut
  <1>3. info.name = NameOf[p] /\ info.end = segments[p] - 1
    BY <1>2 DEF FromInfoJson, ToInfoJson, NewManifest
  <1>4. create.verb = "create" /\ create.by = p
    BY DEF Message, Command
  <1> HIDE DEF info, create
  <1>5. \A s : ask(s).verb = "segment" /\ ask(s).by = p /\ ask(s).body = <<NameOf[p], s>>
    BY <1>3 DEF Message
  <1>6. create \in mail' /\ \A s \in 0 .. segments[p] - 1 : ask(s) \in mail'
    BY <1>1, <1>3 DEF Handle
  <1> HIDE DEF ask
  <1>7. ManifestKept(p)'
    BY <1>4, <1>6 DEF ManifestKept, After
  <1>8. ASSUME NEW s \in 0 .. segments'[p] - 1
        PROVE  SegmentKept(p, s)'
    BY <1>5, <1>6 DEF SegmentKept
  <1> QED
    BY <1>7, <1>8 DEF Kept

\* No other put of its key sends a segment or a manifest, and no delete erases its files.
LEMMA NoRival ==
  ASSUME FlowInv, DeleteInv, NEW p \in Put, Undisturbed(p), NEW m \in mail
  PROVE  /\ m.verb \in {"segment", "manifest"} /\ Key(NameOf[m.by]) = Key(NameOf[p])
              => m.by = p
         /\ m.verb \in {"delete-data", "data deleted"} => NameOf[m.by] # Key(NameOf[p])
  <1>1. ASSUME m.verb \in {"segment", "manifest"}, Key(NameOf[m.by]) = Key(NameOf[p])
        PROVE  m.by = p
    <2>1. m.by \in Put /\ Begun(m.by)
      BY <1>1, VerbsBy DEF FlowInv, MailOK, Good, After
    <2> QED
      BY <1>1, <2>1 DEF Undisturbed
  <1>2. ASSUME m.verb \in {"delete-data", "data deleted"}, NameOf[m.by] = Key(NameOf[p])
        PROVE  FALSE
    <2>1. m.by \in Delete /\ client[m.by].at = "asking"
      BY <1>2, VerbsBy DEF DeleteInv
    <2>2. PICK k \in mail : k.by = m.by /\ k.verb \in {"delete", "delete-manifest", "deleted"}
      BY <1>2, <2>1 DEF Undisturbed, Harmless
    <2>3. k = m
      BY <2>1, <2>2 DEF DeleteInv
    <2> QED
      BY <1>2, <2>2, <2>3
  <1> QED
    BY <1>1, <1>2

LEMMA SegmentLies ==
  ASSUME FlowInv, DeleteInv, NEW m \in mail, Deliver(m), NEW p \in Put, Undisturbed(p), NEW s,
         NEW n \in Node, NEW x, x = <<NameOf[p], s>>,
         x \in DOMAIN data[n], data[n][x] = p
  PROVE  x \in DOMAIN data'[n] /\ data'[n][x] = p
  <1>1. m.to \in Node /\ DOMAIN data = Node /\ p \notin Delete
    BY ClientsAssumption DEF FlowInv, MailOK, Good, DataOK
  <1>2. CASE OnSegmentData(m)
    <2> DEFINE there == With(data[m.to], m.body, m.by)
    <2>1. data' = [data EXCEPT ![m.to] = there]
      BY <1>2 DEF OnSegmentData
    <2>2. /\ DOMAIN there = DOMAIN data[m.to] \cup {m.body} /\ there[m.body] = m.by
          /\ \A y \in DOMAIN data[m.to] : y # m.body => there[y] = data[m.to][y]
      BY DEF With
    <2> HIDE DEF there
    <2>3. m.by \in Put /\ \E k : m.body = <<NameOf[m.by], k>>
      BY <1>2, Handlers DEF FlowInv, MailOK, Good, Fits, FitsPut
    <2>4. m.body = x => m.by = p
      <3> SUFFICES ASSUME m.body = x
                   PROVE  m.by = p
        OBVIOUS
      <3>1. NameOf[m.by] = NameOf[p]
        BY <2>3
      <3>2. m.verb = "segment"
        BY <1>2, Handlers
      <3> QED
        BY <3>1, <3>2, NoRival
    <2> QED
      BY <1>1, <2>1, <2>2, <2>4
  <1>3. CASE HandleDeleteDataCommand(m)
    <2> DEFINE par == Decode(m.body)
               gone == {par.Name} \X (par.StartBlockId .. par.EndBlockId)
    <2>1. data' = [data EXCEPT ![m.to] = But(@, gone)]
      BY <1>3 DEF HandleDeleteDataCommand
    <2>2. par.Name = NameOf[m.by] /\ \E q \in Put : Key(NameOf[q]) = NameOf[m.by]
      BY <1>3, Erased
    <2> HIDE DEF par
    <2>3. NameOf[m.by] # NameOf[p]
      <3>1. Key(NameOf[m.by]) = NameOf[m.by]
        BY <2>2, KeyOfKey
      <3>2. NameOf[m.by] # Key(NameOf[p])
        BY <1>3, NoRival, Handlers
      <3> QED
        BY <3>1, <3>2
    <2>4. x \notin gone
      BY <2>2, <2>3
    <2> HIDE DEF gone
    <2> QED
      BY <1>1, <2>1, <2>4 DEF But
  <1> QED
    BY <1>2, <1>3, DiskWaits

LEMMA SegmentStays ==
  ASSUME FlowInv, DeleteInv, [Next]_vars, NEW p \in Put, Undisturbed(p), NEW s \in 0 .. segments[p] - 1,
         SegmentKept(p, s)
  PROVE  SegmentKept(p, s)'
  <1> DEFINE n == Via[p]
             x == <<NameOf[p], s>>
  <1>1. n \in Node /\ DOMAIN data = Node
    BY ClientsAssumption DEF Client, FlowInv, DataOK
  <1>2. CASE Start \/ \E q \in Put : PutFileStartCheckCommand(q)
    <2>1. PICK k : mail' = mail \cup {k} /\ UNCHANGED diskVars
      BY <1>2, Asks
    <2> QED
      BY <2>1 DEF SegmentKept, diskVars
  <1>3. ASSUME NEW m \in mail, Deliver(m)
        PROVE  SegmentKept(p, s)'
    <2>1. CASE x \in DOMAIN data[n] /\ data[n][x] = p
      BY <1>1, <1>3, <2>1, SegmentLies DEF SegmentKept
    <2>2. ASSUME NEW k \in mail, k.verb = "segment", k.by = p, k.body = x
          PROVE  SegmentKept(p, s)'
      <3>1. CASE k # m
        <4>1. k \in mail'
          BY <1>3, <3>1, OnBehalf DEF Handle
        <4> QED
          BY <2>2, <4>1 DEF SegmentKept
      <3>2. CASE k = m
        <4>1. segments[p] > 0 /\ m.to = n
          <5>1. segments[p] > 0
            BY SizeOf DEF FlowInv
          <5>2. m.to = Via[m.by]
            BY <2>2, <3>2 DEF FlowInv, MailOK, Good, Fits, FitsPut
          <5> QED
            BY <2>2, <3>2, <5>1, <5>2
        <4>2. OnSegmentData(m)
          <5>1. ~OnPutFileInterest(m)
            BY <2>2, <3>2, <4>1 DEF OnPutFileInterest
          <5> QED
            BY <1>3, <2>2, <3>2, <5>1, OfPut, Handlers
        <4>3. data' = [data EXCEPT ![n] = With(@, x, p)]
          BY <2>2, <3>2, <4>1, <4>2 DEF OnSegmentData
        <4> HIDE DEF x
        <4>4. x \in DOMAIN data'[n] /\ data'[n][x] = p
          BY <1>1, <4>3 DEF With
        <4> QED
          BY <4>4 DEF SegmentKept, x
      <3> QED
        BY <3>1, <3>2
    <2> QED
      BY <2>1, <2>2 DEF SegmentKept
  <1>4. CASE UNCHANGED vars
    BY <1>4 DEF vars, diskVars, SegmentKept
  <1> QED
    BY <1>2, <1>3, <1>4 DEF Next

LEMMA ManifestLies ==
  ASSUME FlowInv, DeleteInv, segments' = segments, NEW m \in mail, Deliver(m), NEW p \in Put, Undisturbed(p),
         NEW key, key = Key(NameOf[p]), NEW n \in Node, NEW h, h = GetHash(key),
         h \in DOMAIN manifests[n], manifests[n][h] = Text(p)
  PROVE  h \in DOMAIN manifests'[n] /\ manifests'[n][h] = Text(p)
  <1>1. m.to \in Node /\ DOMAIN manifests = Node /\ p \notin Delete
    BY ClientsAssumption DEF FlowInv, MailOK, Good, ManifestsOK
  <1>2. CASE OnManifestData(m)
    <2> DEFINE q == m.by
               mine == GetHash(Key(NameOf[q]))
               there == With(manifests[m.to], mine, Text(q))
    <2>1. q \in Put /\ m.body = Text(q)
      BY <1>2, Handlers DEF FlowInv, MailOK, Good, Fits, FitsPut
    <2>2. HashOf(FromJson(m.body)) = mine /\ ToJson(FromJson(m.body)) = Text(q)
      BY <2>1, Texts
    <2>3. manifests' = [manifests EXCEPT ![m.to] = there]
      BY <1>2, <2>2 DEF OnManifestData
    <2>4. /\ DOMAIN there = DOMAIN manifests[m.to] \cup {mine} /\ there[mine] = Text(q)
          /\ \A y \in DOMAIN manifests[m.to] : y # mine => there[y] = manifests[m.to][y]
      BY DEF With
    <2> HIDE DEF there
    <2>5. h = mine => q = p
      BY <1>2, NoRival, HashesDiffer, Handlers
    <2> QED
      BY <1>1, <2>3, <2>4, <2>5
  <1>3. CASE OnDeleteDataCommandResponse(m)
    <2>1. m.by \in Delete /\ m.bound = DelId(m.by)
      BY <1>3, Handlers DEF FlowInv, MailOK, Good, Fits, FitsDelete
    <2>2. CASE m.bound \notin DOMAIN deletes[m.to]
      BY <1>3, <2>2 DEF OnDeleteDataCommandResponse
    <2>3. CASE m.bound \in DOMAIN deletes[m.to]
      <3> DEFINE hash == deletes[m.to][m.bound].hash
      <3>1. manifests' = [manifests EXCEPT ![m.to] = But(@, {hash})]
        BY Zenon, <1>3, <2>3 DEF OnDeleteDataCommandResponse
      <3>2. hash \in {Nothing, GetHash(NameOf[m.by])}
        BY <1>1, <2>1, <2>3, ProcessOfDelete DEF FlowInv
      <3> HIDE DEF hash
      <3>4. hash # h
        <4>1. hash = h => NameOf[m.by] = key
          BY <3>2, HashesDiffer, NothingAssumption
        <4> QED
          BY <1>3, <4>1, NoRival, Handlers
      <3> QED
        BY <1>1, <3>1, <3>4 DEF But
    <2> QED
      BY <2>2, <2>3
  <1> QED
    BY <1>2, <1>3, DiskWaits

\* The announcement of a manifest is handed on until the manifest is stored.
LEMMA ManifestHandedOn ==
  ASSUME FlowInv, segments' = segments, NEW m \in mail, Deliver(m),
         NEW p \in Put, m.by = p, m.verb \in After
  PROVE  ManifestKept(p)'
  <1> DEFINE key == Key(NameOf[p])
             n == Owner[key]
  <1>1. n \in Node /\ DOMAIN manifests = Node /\ Begun(p)
    BY OwnerAssumption DEF Client, FlowInv, ManifestsOK, MailOK, Good
  <1>2. \/ HandleCreateCommand(m) \/ HandleInfoCommand(m) \/ OnManifestData(m)
    BY OfPut, Handlers DEF After
  <1>3. CASE HandleCreateCommand(m)
    <2>1. \E x, y, z : Handle(m, {Command("write-info", p, x, y, z)})
      BY Zenon, <1>3 DEF HandleCreateCommand
    <2>2. PICK k : Handle(m, {k}) /\ k.verb = "write-info" /\ k.by = p
      BY <2>1, MessageBy
    <2> QED
      BY <2>2 DEF Handle, ManifestKept, After
  <1>4. CASE HandleInfoCommand(m)
    <2> DEFINE id == Decode(m.body).ProcessId
               k(x) == Message("manifest", m.by, m.bound,
                               ToJson(writes[m.to][x].manifest), Nothing)
    <2>1. Handle(m, {k(x) : x \in DOMAIN writes[m.to] \cap {id}})
      BY Zenon, <1>4 DEF HandleInfoCommand
    <2>2. m.to = Via[p] /\ id = PutId(p)
      <3>1. m.verb = "write-info"
        BY <1>4, Handlers
      <3>2. m.to = Via[p] /\ Decode(m.body) = [Name |-> HashName(key), ProcessId |-> PutId(p)]
        BY <3>1 DEF FlowInv, MailOK, Good, Fits, FitsPut
      <3> QED
        BY <3>2
    <2>3. k(id).verb = "manifest" /\ k(id).by = p
      BY DEF Message
    <2> HIDE DEF k, id
    <2>4. k(id) \in mail'
      BY <1>1, <2>1, <2>2 DEF Handle, Begun
    <2> QED
      BY <2>3, <2>4 DEF ManifestKept, After
  <1>5. CASE OnManifestData(m)
    <2>1. m.to = n /\ m.body = Text(p)
      BY <1>5, Handlers DEF FlowInv, MailOK, Good, Fits, FitsPut
    <2>2. HashOf(FromJson(m.body)) = GetHash(key) /\ ToJson(FromJson(m.body)) = Text(p)
      BY <2>1, Texts
    <2>3. manifests' = [manifests EXCEPT ![n] = With(@, GetHash(key), Text(p))]
      BY <1>5, <2>1, <2>2 DEF OnManifestData
    <2>4. /\ GetHash(key) \in DOMAIN manifests'[n]
          /\ manifests'[n][GetHash(key)] = Text(p) /\ Text(p)' = Text(p)
      BY <1>1, <2>3 DEF With, Text, Manif
    <2> QED
      BY <2>4 DEF ManifestKept
  <1> QED
    BY <1>2, <1>3, <1>4, <1>5

LEMMA ManifestStays ==
  ASSUME FlowInv, DeleteInv, [Next]_vars, NEW p \in Put, Undisturbed(p), ManifestKept(p)
  PROVE  ManifestKept(p)'
  <1> DEFINE key == Key(NameOf[p])
             n == Owner[key]
             h == GetHash(key)
  <1>1. n \in Node /\ segments' = segments /\ Text(p)' = Text(p)
    BY OwnerAssumption DEF Client, Next, vars, Text, Manif
  <1>2. CASE Start \/ \E q \in Put : PutFileStartCheckCommand(q)
    <2>1. PICK k : mail' = mail \cup {k} /\ UNCHANGED diskVars
      BY <1>2, Asks
    <2> QED
      BY <1>1, <2>1 DEF ManifestKept, diskVars
  <1>3. ASSUME NEW m \in mail, Deliver(m)
        PROVE  ManifestKept(p)'
    <2>1. CASE h \in DOMAIN manifests[n] /\ manifests[n][h] = Text(p)
      BY <1>1, <1>3, <2>1, ManifestLies DEF ManifestKept
    <2>2. ASSUME NEW k \in mail, k.verb \in After, k.by = p
          PROVE  ManifestKept(p)'
      <3>1. CASE k # m
        <4>1. k \in mail'
          BY <1>3, <3>1, OnBehalf DEF Handle
        <4> QED
          BY <2>2, <4>1 DEF ManifestKept
      <3>2. CASE k = m
        BY <1>1, <1>3, <2>2, <3>2, ManifestHandedOn
      <3> QED
        BY <3>1, <3>2
    <2> QED
      BY <2>1, <2>2 DEF ManifestKept
  <1>4. CASE UNCHANGED vars
    BY <1>1, <1>4 DEF vars, diskVars, ManifestKept
  <1> QED
    BY <1>2, <1>3, <1>4 DEF Next

LEMMA KeptSteps ==
  ASSUME FlowInv, DeleteInv, KeptInv, [Next]_vars
  PROVE  KeptInv'
  <1>1. segments' = segments
    BY DEF Next, vars
  <1> SUFFICES ASSUME NEW p \in Put, Begun(p)', Undisturbed(p)'
               PROVE  Kept(p)'
    BY DEF KeptInv
  <1>2. Undisturbed(p)
    BY UndisturbedBefore
  <1>3. CASE Begun(p)
    <2>1. ManifestKept(p) /\ \A s \in 0 .. segments[p] - 1 : SegmentKept(p, s)
      BY <1>2, <1>3 DEF KeptInv, Kept
    <2>2. ManifestKept(p)'
      BY <1>2, <2>1, ManifestStays
    <2>3. ASSUME NEW s \in 0 .. segments[p] - 1
          PROVE  SegmentKept(p, s)'
      BY <1>2, <2>1, SegmentStays
    <2> QED
      BY <1>1, <2>2, <2>3 DEF Kept
  <1>4. CASE ~Begun(p)
    BY <1>1, <1>4, BeginsThus, BeginsKept
  <1> QED
    BY <1>3, <1>4

\* What is kept of a put that is quiet is what a reader gets.
LEMMA KeptIsReadable ==
  ASSUME FlowInv, mail = {}, NEW p \in Put, Kept(p), segments[p] > 0, NameOf[p] = Key(NameOf[p])
  PROVE  ReadableOf(NameOf[p]) = p
  <1> DEFINE key == Key(NameOf[p])
             n == Via[p]
             last == segments[p] - 1
  <1>1. n \in Node /\ segments[p] \in Nat /\ last \in -1 .. Word - 2
    BY SizeOf, ClientsAssumption DEF Client, FlowInv
  <1>2. Stored(Owner[key], GetHash(key)) = Text(p)
    BY DEF Kept, ManifestKept, Stored
  <1>3. Text(p) # Nothing
    BY <1>1, NothingAssumption DEF Text, Manif
  <1>4. \A s \in 0 .. segments[p] - 1 : /\ <<key, s>> \in DOMAIN data[n]
                                        /\ data[n][<<key, s>>] = p
    BY DEF Kept, SegmentKept
  <1>5. <<key, 0>> \in DOMAIN data[n] /\ data[n][<<key, 0>>] = p
    BY <1>1, <1>4
  <1>6. FromJson(Text(p)).name = key /\ FromJson(Text(p)).repos[1].name = n
    <2>1. FromJson(Text(p)).repos[1] = [name |-> n, start |-> 0, end |-> segments[p] - 1]
      BY Texts
    <2> QED
      BY <2>1, Texts
  <1> HIDE DEF key, n, last
  <1>7. ReadBy(Text(p)) = p
    BY <1>3, <1>4, <1>5, <1>6 DEF ReadBy
  <1> QED
    BY <1>2, <1>7 DEF ReadableOf, key

\* No manifest is at the hash of a name of several components.
LEMMA WholeNamesHaveNone ==
  ASSUME FlowInv, NEW p \in Put, NameOf[p] # Key(NameOf[p])
  PROVE  ReadableOf(NameOf[p]) = Nothing
  <1> DEFINE name == NameOf[p]
  <1>1. Owner[name] \in Node
    BY OwnerAssumption DEF Client
  <1>2. ASSUME NEW q \in Put, GetHash(name) = GetHash(Key(NameOf[q]))
        PROVE  FALSE
    BY <1>2, HashesDiffer, KeyOfKey
  <1>3. GetHash(name) \notin DOMAIN manifests[Owner[name]]
    BY <1>1, <1>2 DEF FlowInv, ManifestsOK
  <1> QED
    BY <1>3 DEF ReadableOf, Stored, ReadBy

LEMMA KeptIsStored ==
  ASSUME FlowInv, mail = {}, NEW p \in Put, Kept(p)
  PROVE  /\ Stored(Owner[Key(NameOf[p])], GetHash(Key(NameOf[p]))) = Text(p)
         /\ \A s \in 0 .. segments[p] - 1 :
              /\ <<NameOf[p], s>> \in DOMAIN data[Via[p]]
              /\ data[Via[p]][<<NameOf[p], s>>] = p
  BY DEF Kept, ManifestKept, SegmentKept, Stored

\* Once all is quiet, a put that reported success has its manifest and its segments
\* stored, and is what a reader gets if its name has one component and what no reader
\* gets if it has more, unless another put of its last component was taken on or a
\* delete of it was begun and has not failed.
THEOREM KeptWhenAloneAlways ==
  Spec => []KeptWhenAlone
  <1>1. Init => CheckedInv /\ KeptInv
    BY ClientsAssumption DEF Init, CheckedInv, KeptInv, Begun, Empty, Client
  <1>2. FlowInv /\ CheckedInv /\ [Next]_vars => CheckedInv'
    BY CheckedSteps
  <1>3. FlowInv /\ DeleteInv /\ KeptInv /\ [Next]_vars => KeptInv'
    BY KeptSteps
  <1>4. FlowInv /\ CheckedInv /\ KeptInv => KeptWhenAlone
    <2> SUFFICES ASSUME FlowInv, CheckedInv, KeptInv, mail = {}, NEW p \in Put,
                        client[p].at = "done", Alone(p), segments[p] > 0
                 PROVE  /\ Stored(Owner[Key(NameOf[p])], GetHash(Key(NameOf[p]))) = Text(p)
                        /\ \A s \in 0 .. segments[p] - 1 :
                             /\ <<NameOf[p], s>> \in DOMAIN data[Via[p]]
                             /\ data[Via[p]][<<NameOf[p], s>>] = p
                        /\ ReadableOf(NameOf[p]) =
                             IF NameOf[p] = Key(NameOf[p]) THEN p ELSE Nothing
      BY DEF KeptWhenAlone, Text, Manif
    <2>1. Kept(p)
      BY AloneUndisturbed DEF CheckedInv, KeptInv
    <2> QED
      BY <2>1, KeptIsStored, KeptIsReadable, WholeNamesHaveNone
  <1> QED
    BY <1>1, <1>2, <1>3, <1>4, DeleteBegins, DeleteSteps, FlowAlways, PTL DEF Spec

=============================================================================
