---------------------------- MODULE KeySpaceRing ----------------------------
(***************************************************************************)
(* The manager's edits of the key space file: handleAddCommand and         *)
(* handleDeleteCommand of KeySpaceHandle, as a state machine of their own. *)
(*                                                                         *)
(* The handlers do not check their arguments.  Spec is a cluster whose     *)
(* operator keeps to the rules the arithmetic relies on (SafeAdd,          *)
(* SafeDelete); AnySpec is one where any command may arrive, a             *)
(* retransmitted add or a delete of an unknown node included.              *)
(***************************************************************************)
EXTENDS KeySpaceFile

CONSTANT MaxVersion    \* bound on the number of edits

ASSUME MaxVersionAssumption == MaxVersion \in Nat

VARIABLES file,        \* m_keySpaceFile
          version,     \* the number in m_version, "v0" after the constructor
          alive        \* FALSE once a handler has thrown

vars == <<file, version, alive>>

TypeOK ==
  /\ file \in File
  /\ version \in 0 .. MaxVersion
  /\ alive \in BOOLEAN

Init ==
  /\ file = InitKeySpaceFile
  /\ version = 0
  /\ alive = TRUE

\* A negative bound is written as eight hexadecimal digits, which stoi rejects
\* with an exception that no handler catches.
Readable(e) == e.start >= 0 /\ e.end >= 0

\* The entries that an add and a delete read.
AddReadable(from) == Readable(file[IndexOf(file, from)])

DeleteReadable(from, to) ==
  \A i \in DOMAIN file :
    \/ file[i].node = to
    \/ from \in Members(file) /\ i = IndexOf(file, from)
    => Readable(file[i])

\* An add that names no member leaves the file alone and is not answered; one
\* that splits an unreadable entry ends the process.
HandleAddCommand(from, to) ==
  /\ alive
  /\ version < MaxVersion
  /\ from \in Members(file)
  /\ IF AddReadable(from)
     THEN /\ file' = AddNode(file, from, to)
          /\ version' = version + 1
          /\ UNCHANGED alive
     ELSE /\ alive' = FALSE
          /\ UNCHANGED <<file, version>>

\* `garbage' stands for the integers that are read uninitialised when `from'
\* is no member.
HandleDeleteCommand(from, to, garbage) ==
  /\ alive
  /\ version < MaxVersion
  /\ IF DeleteReadable(from, to)
     THEN /\ file' = DelNode(file, from, to, garbage)
          /\ version' = version + 1
          /\ UNCHANGED alive
     ELSE /\ alive' = FALSE
          /\ UNCHANGED <<file, version>>

-----------------------------------------------------------------------------
(* The operator's rules.                                                   *)

\* Split a member that has two keys or more, for a node that is no member.
SafeAdd(from, to) ==
  /\ from \in Members(file)
  /\ to \notin Members(file)
  /\ LET e == file[IndexOf(file, from)] IN e.start < e.end

\* Merge a member into the owner of the keys just below or just above.
SafeDelete(from, to) ==
  /\ from # to
  /\ {from, to} \subseteq Members(file)
  /\ LET f == file[IndexOf(file, from)]
         t == file[IndexOf(file, to)]
     IN  f.end + 1 = t.start \/ t.end + 1 = f.start

Next ==
  \E from, to \in Node :
    \/ SafeAdd(from, to) /\ HandleAddCommand(from, to)
    \/ SafeDelete(from, to)
         /\ HandleDeleteCommand(from, to, file[IndexOf(file, from)])

Spec == Init /\ [][Next]_vars

\* The uninitialised integers of a delete, as far as the keys tell them apart.
GarbageRange == [start : Key, end : Key]

AnyNext ==
  \E from, to \in Node :
    \/ HandleAddCommand(from, to)
    \/ \E garbage \in GarbageRange : HandleDeleteCommand(from, to, garbage)

AnySpec == Init /\ [][AnyNext]_vars

-----------------------------------------------------------------------------
(* Properties.                                                             *)

\* The edits of handleAddCommand and handleDeleteCommand keep the key space a
\* partition: whatever the joins and the departures so far, each key is in the
\* range of exactly one entry and each member has one non-empty range.
Partition == Partitioned(file)

\* What getManifestStorage computes from the file is an owner of every key, and
\* an edit moves keys from one node to one node only: the file implements
\* KeyOwnership.
owner == [k \in Key |-> GetManifestStorage(file, k)]

Ownership == INSTANCE KeyOwnership

MovesAsPromised == Ownership!Spec

\* The keys that a lookup finds: getManifestStorage reads the entries in order
\* and throws at an unreadable one.
Found ==
  {k \in Key : \E i \in DOMAIN file :
     k \in KeysOf(file[i]) /\ \A j \in 1 .. i : Readable(file[j])}

\* Whatever commands came before, an add (also a repeated one, or one that
\* splits an empty range) leaves no key without an owner, unless it is the one
\* that writes the negative bound no lookup can read.
AddLosesNoKey ==
  [][(\E from, to \in Node : HandleAddCommand(from, to))
       => \/ Found \subseteq Found'
          \/ \E i \in DOMAIN file' : ~Readable(file'[i])]_vars

=============================================================================
