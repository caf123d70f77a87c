---------------------------- MODULE RepoStorage ----------------------------
(***************************************************************************)
(* The packets and manifests one node keeps (RepoStorage over FsStorage or  *)
(* MongoDBStorage, as its configuration says) and the prefixes that its     *)
(* ReadHandle registers for the packets (registration-subset enabled, as in *)
(* node.conf).                                                             *)
(*                                                                         *)
(* A packet has a file, whose path is a hash of its name; the file holds    *)
(* the content last written, or is Torn: ofstream truncates it before it    *)
(* is written, and its errors are not looked at.  In the data base it has   *)
(* a document, which is replaced as a whole.  A manifest has a file or      *)
(* document of its own.  The prefixes live in memory and are counted per    *)
(* insert.                                                                 *)
(***************************************************************************)
EXTENDS Integers, FiniteSets

CONSTANTS Name,       \* the names of packets
          Prefix,     \* the names without their last registration-subset components
          PrefixOf,   \* the prefix of each name
          Content,    \* what packets carry
          Hash,       \* the hashes of manifests
          Whole,      \* the manifest is there
          Absent,     \* there is no file or document
          Torn,       \* the file does not hold a whole packet or manifest
          MaxFaults   \* bound on the inserts that do not end as they should

ASSUME PrefixOfAssumption == PrefixOf \in [Name -> Prefix]
ASSUME FaultsAssumption == MaxFaults \in Nat
ASSUME FileAssumption == /\ Absent # Torn /\ {Absent, Torn} \cap Content = {}
                         /\ Whole \notin {Absent, Torn}

VARIABLES method,     \* the storage method of the configuration
          file,       \* the data directory, or collection
          manifest,   \* the manifest directory, or collection
          useCount,   \* m_insertedDataPrefixes, 0 for a prefix that is not there
          faults      \* what is left of MaxFaults

storageVars == <<method, file, manifest, useCount, faults>>

Method == {"fs", "mongodb"}

StorageTypeOK ==
  /\ method \in Method
  /\ manifest \in [Hash -> {Whole, Absent, Torn}]
  /\ file \in [Name -> Content \cup {Absent, Torn}]
  /\ useCount \in [Prefix -> Nat]
  /\ faults \in 0 .. MaxFaults

StorageInit ==
  /\ method \in Method
  /\ manifest = [h \in Hash |-> Absent]
  /\ file = [f \in Name |-> Absent]
  /\ useCount = [p \in Prefix |-> 0]
  /\ faults = MaxFaults

\* How the insert of a packet may go wrong: the directory cannot be made, an
\* exception (refused); the file cannot be opened or filled, which nobody
\* notices (unopened, torn).
FsFault == {"refused", "unopened", "torn"}

\* replace_one changes the whole document, or throws.
MongoFault == {"refused"}

Fault == IF method = "mongodb" THEN MongoFault ELSE FsFault

\* The directory of the manifests has been made when the process started.
ManifestFault == IF method = "mongodb" THEN MongoFault ELSE FsFault \ {"refused"}

\* A batch is a function of an ordered set of integers to packets.  These are
\* the ways it may go wrong: the inserts that do, and how.
Wrongs(batch) ==
  UNION {[S -> Fault] : S \in {T \in SUBSET DOMAIN batch : Cardinality(T) <= faults}}

\* The last packet that reaches a file decides what is in it.
FileAfter(batch, wrong, f) ==
  LET reaching == {m \in DOMAIN batch : /\ batch[m].name = f
                                        /\ m \in DOMAIN wrong => wrong[m] = "torn"}
      last == CHOOSE m \in reaching : \A k \in reaching : k <= m
  IN  IF reaching = {} THEN file[f]
      ELSE IF last \in DOMAIN wrong THEN Torn ELSE batch[last].content

\* A mutant of Signalled: has() finds the packet that is there.
SignalledWhenNew(batch, wrong) ==
  {m \in DOMAIN batch : /\ m \in DOMAIN wrong => wrong[m] # "refused"
                        /\ file[batch[m].name] = Absent}

\* The packets whose insert is signalled to ReadHandle.  has() is asked for the
\* full name, whose path no file has, so that a packet which is there already
\* is written, and signalled, again.
Signalled(batch, wrong) ==
  {m \in DOMAIN batch : m \in DOMAIN wrong => wrong[m] # "refused"}

InsertData(batch, wrong) ==
  /\ faults' = faults - Cardinality(DOMAIN wrong)
  /\ file' = [f \in Name |-> FileAfter(batch, wrong, f)]
  /\ useCount' = [p \in Prefix |->
       useCount[p] + Cardinality({m \in Signalled(batch, wrong) :
                                    PrefixOf[batch[m].name] = p})]
  /\ UNCHANGED <<method, manifest>>

\* afterDataDeletion is never emitted: the counts stay.
DeleteData(f) ==
  /\ file' = [file EXCEPT ![f] = Absent]
  /\ UNCHANGED <<method, manifest, useCount, faults>>

\* The manifest is written, over the one of that hash if it is there.
InsertManifest(h) ==
  /\ manifest' = [manifest EXCEPT ![h] = Whole]
  /\ UNCHANGED <<method, file, useCount, faults>>

InsertManifestWrong(h, wrong) ==
  /\ faults > 0
  /\ faults' = faults - 1
  /\ manifest' = [manifest EXCEPT ![h] = IF wrong = "torn" THEN Torn ELSE @]
  /\ UNCHANGED <<method, file, useCount>>

DeleteManifest(h) ==
  /\ manifest' = [manifest EXCEPT ![h] = Absent]
  /\ UNCHANGED <<method, file, useCount, faults>>

\* Every prefix is registered with the filter "/": one of them is enough for
\* an Interest for any packet to come to onInterest.
Listening == \E p \in Prefix : useCount[p] > 0

\* A process starts with the directories as they are, and no prefix.
StorageRestart ==
  /\ useCount' = [p \in Prefix |-> 0]
  /\ UNCHANGED <<method, file, manifest, faults>>

=============================================================================
