-------------------------- MODULE VersionedDocument --------------------------
(***************************************************************************)
(* What the shared project document promises its editors, without any of   *)
(* the requests, locks and tables that keep the promise: a list of         *)
(* versions that only grows, that a user extends with new content only     *)
(* from a copy of the latest version, and a feed that announces each       *)
(* version with new content in the same step as the version appears.       *)
(***************************************************************************)
EXTENDS Integers

CONSTANTS Users, Contents, FirstContent, MaxRevision

VARIABLES
  revision,   \* number of the latest version
  versions,   \* the content of every version
  copy,       \* version each user's working copy started from
  feed        \* versions announced as new content

vars == <<revision, versions, copy, feed>>

Init ==
  /\ revision = 0
  /\ versions = [r \in 0..MaxRevision |-> FirstContent]
  /\ copy = [u \in Users |-> 0]
  /\ feed = {}

(* Fetching the document brings the copy up to date. *)
Read(u) ==
  /\ copy' = [copy EXCEPT ![u] = revision]
  /\ UNCHANGED <<revision, versions, feed>>

(* Only an up-to-date copy may become the next version.  The writer may or  *)
(* may not learn that it did.                                              *)
Write(u, content) ==
  /\ revision < MaxRevision
  /\ copy[u] = revision
  /\ revision' = revision + 1
  /\ versions' = [versions EXCEPT ![revision + 1] = content]
  /\ copy' \in {copy, [copy EXCEPT ![u] = revision + 1]}
  /\ feed' = feed \cup {revision + 1}

(* A version with the same content: a rename, an archive flag, a transfer. *)
Touch ==
  /\ revision < MaxRevision
  /\ revision' = revision + 1
  /\ versions' = [versions EXCEPT ![revision + 1] = versions[revision]]
  /\ UNCHANGED <<copy, feed>>

Next ==
  \/ \E u \in Users : Read(u)
  \/ \E u \in Users, content \in Contents : Write(u, content)
  \/ Touch

Spec == Init /\ [][Next]_vars
=============================================================================
