------------------------------ MODULE Manifest ------------------------------
(***************************************************************************)
(* The manifest of a file, and its two texts: the info that a client gives *)
(* (a name and the last segment) and the JSON that is stored and sent (the *)
(* segments with the nodes that have them).  A text is the record of what  *)
(* is written; what is not written is lost.                                *)
(*                                                                         *)
(* A name is a sequence of components, and so is its URI.  SHA-1 is taken  *)
(* to have no collisions: a hash is the URI that it is the hash of.        *)
(***************************************************************************)
EXTENDS Sequences

GetHash(uri) == [hashOf |-> uri]

\* hash is <<>> when none has been set: it is then that of the name.
NewManifest(name, start, end) ==
  [name |-> name, hash |-> <<>>, start |-> start, end |-> end, repos |-> <<>>]

AppendRepo(m, repo, start, end) ==
  [m EXCEPT !.repos = Append(@, [name |-> repo, start |-> start, end |-> end])]

HashOf(m) == IF m.hash = <<>> THEN GetHash(m.name) ELSE m.hash

ToInfoJson(m) == [name |-> m.name, hash |-> HashOf(m), segment |-> m.end]

FromInfoJson(json) == [NewManifest(json.name, 0, json.segment) EXCEPT !.hash = json.hash]

ToJson(m) ==
  [name |-> m.name, hash |-> HashOf(m), start |-> m.start, end |-> m.end,
   storages |-> m.repos]

\* The hash that is read is not kept: it is made of the name again.
FromJson(json) ==
  [NewManifest(json.name, json.start, json.end) EXCEPT !.repos = json.storages]

=============================================================================
