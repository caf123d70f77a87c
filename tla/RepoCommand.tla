----------------------------- MODULE RepoCommand -----------------------------
(***************************************************************************)
(* The fields of a command and of a response, what becomes of them on the  *)
(* wire, and what a handler demands of them.                               *)
(*                                                                         *)
(* A RepoCommandParameter is a function of the fields that are set, which  *)
(* is what m_hasFields says.  A wire has its elements, each a TLV type     *)
(* with a value, at their places in the order of the encoder, some of      *)
(* which are empty; lengths and digits are left out.                       *)
(***************************************************************************)
EXTENDS Naturals, Sequences, FiniteSetsExt

Field == {"NodePrefix", "Name", "From", "To", "StartBlockId", "EndBlockId",
          "ProcessId", "InterestLifetime", "ClusterPrefix"}

ResponseField ==
  {"ProcessId", "StatusCode", "StartBlockId", "EndBlockId", "InsertNum", "DeleteNum"}

\* The TLV type by which a field is found.
TlvType(f) ==
  CASE f = "Name" -> 7              [] f = "InterestLifetime" -> 12
    [] f = "NodePrefix" -> 30       [] f = "From" -> 202
    [] f = "To" -> 203              [] f = "StartBlockId" -> 204
    [] f = "EndBlockId" -> 205      [] f = "ProcessId" -> 206
    [] f = "StatusCode" -> 208      [] f = "InsertNum" -> 209
    [] f = "DeleteNum" -> 210       [] f = "ClusterPrefix" -> 211

\* The encoder prepends, so that what it writes first comes last.
WireOrder ==
  <<"NodePrefix", "To", "From", "Name", "InterestLifetime",
    "StartBlockId", "EndBlockId", "ProcessId", "ClusterPrefix">>

ResponseOrder ==
  <<"ProcessId", "StatusCode", "StartBlockId", "EndBlockId", "InsertNum", "DeleteNum">>

WireOf(order, fields) ==
  LET present == {i \in DOMAIN order : order[i] \in DOMAIN fields}
  IN  [i \in present |-> <<TlvType(order[i]), fields[order[i]]>>]

\* Each field is the first element of its type; an element of no known type is
\* passed over.
FieldsOf(wire, known) ==
  LET At(f) == {i \in DOMAIN wire : wire[i][1] = TlvType(f)}
  IN  [f \in {g \in known : At(g) # {}} |-> wire[Min(At(f))][2]]

Encode(parameters) == WireOf(WireOrder, parameters)
Decode(wire) == FieldsOf(wire, Field)

EncodeResponse(response) == WireOf(ResponseOrder, response)
DecodeResponse(wire) == FieldsOf(wire, ResponseField)

-----------------------------------------------------------------------------

\* What the validators of the dispatcher require of a command, and allow.
Validator(verb) ==
  CASE verb = "insert" ->
         [required |-> {"Name"}, optional |-> {"StartBlockId", "EndBlockId", "NodePrefix"}]
    [] verb = "insert check" ->
         [required |-> {"Name", "ProcessId"}, optional |-> {"NodePrefix"}]
    [] verb = "delete" ->
         [required |-> {"Name", "ProcessId"}, optional |-> {}]

\* Those of DeleteCommand::check: a range has an end, not below its start.
RangeOK(parameters) ==
  {"StartBlockId", "EndBlockId"} \cap DOMAIN parameters # {} =>
    /\ {"StartBlockId", "EndBlockId"} \subseteq DOMAIN parameters
    /\ parameters["StartBlockId"] <= parameters["EndBlockId"]

ValidateRequest(verb, parameters) ==
  /\ Validator(verb).required \subseteq DOMAIN parameters
  /\ DOMAIN parameters \subseteq Validator(verb).required \cup Validator(verb).optional
  /\ verb = "delete" => RangeOK(parameters)

\* The fields that the handler of a command reads without asking for them first; that
\* of insert reads a ProcessId, which its validator forbids.
Reads(verb) ==
  CASE verb = "insert" -> {"Name", "ProcessId"}
    [] verb = "insert check" -> {"ProcessId"}
    [] verb \in {"find", "get", "delete-manifest"} -> {"Name"}
    [] verb = "create" -> {"Name", "ClusterPrefix", "ProcessId"}
    [] verb = "write-info" -> {"ProcessId"}
    [] verb = "delete" -> {"Name", "ProcessId"}
    [] verb = "delete-data" -> {"Name", "StartBlockId", "EndBlockId"}

=============================================================================
