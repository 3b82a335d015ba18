------------------------------ MODULE Workspaces ------------------------------
(***************************************************************************)
(* The saved workspace of one project and kind: its immutable revisions, the  *)
(* artifacts they are made of (server/src/workspaces.ts), and the pages that  *)
(* save it (client/src/components/ProjectWorkspacePanel.tsx). A save uploads   *)
(* its artifacts one by one and commits them with a last request; if that     *)
(* fails, or its answer is lost, the page deletes what it has uploaded.        *)
(* A session or a membership may end, and the project's geometry may change,   *)
(* at any time: any request of a writer may be refused.                     *)
(***************************************************************************)
EXTENDS Integers, FiniteSets

CONSTANTS
  Artifacts, NoArtifact,  \* ids, each of them used once
  Pages,
  Tasks,             \* native jobs
  MaxStored,         \* MAX_PROJECT_ARTIFACTS
  MaxHistory,        \* MAX_WORKSPACE_HISTORY
  MaxFiles,          \* files attached to one save
  LastSave           \* bound on revisions

ASSUME WorkspaceAssumption ==
  /\ NoArtifact \notin Artifacts /\ IsFiniteSet(Artifacts)
  /\ MaxStored \in Nat /\ MaxHistory \in Nat \ {0} /\ MaxFiles \in Nat /\ LastSave \in Nat

VARIABLES
  head,      \* project_workspaces.current_revision
  history,   \* project_workspace_snapshots by revision, with their references
  store,     \* project_workspace_artifacts; an id that is gone does not return
  task,      \* project_native_jobs, as far as they use the workspace
  panel,     \* the pages
  puts       \* requests to save that were sent and not served

workspaceVars == <<head, history, store, task, panel, puts>>

Snapshot == [payload : Artifacts, refs : SUBSET Artifacts]

Put == [page : Pages, base : Nat, payload : Artifacts, refs : SUBSET Artifacts]

Task == [state : {"none", "active", "over"}, input : Artifacts \cup {NoArtifact},
         revision : Nat, outputs : SUBSET Artifacts]

NoTask == [state |-> "none", input |-> NoArtifact, revision |-> 0, outputs |-> {}]

Panel == [pc : {"idle", "uploading", "committing", "saved", "cleaning"}, base : Nat,
          refs : SUBSET Artifacts, payload : Artifacts \cup {NoArtifact},
          uploaded : SUBSET Artifacts]

WorkspaceTypeOK ==
  /\ head \in Nat
  /\ DOMAIN history \subseteq Nat \ {0}
  /\ \A r \in DOMAIN history : history[r] \in Snapshot
  /\ store \in [Artifacts -> {"unused", "stored", "deleted"}]
  /\ task \in [Tasks -> Task]
  /\ panel \in [Pages -> Panel]
  /\ puts \subseteq Put

WorkspaceInit ==
  /\ head = 0
  /\ history = [r \in {} |-> NoArtifact]
  /\ store = [a \in Artifacts |-> "unused"]
  /\ task = [t \in Tasks |-> NoTask]
  /\ panel = [p \in Pages |-> [pc |-> "idle", base |-> 0, refs |-> {}, payload |-> NoArtifact,
                               uploaded |-> {}]]
  /\ puts = {}

-----------------------------------------------------------------------------
Stored == {a \in Artifacts : store[a] = "stored"}

Uses(snapshot) == {snapshot.payload} \cup snapshot.refs

(* What deleteWorkspaceArtifact refuses to delete. *)
Referenced(a) ==
  \/ \E r \in DOMAIN history : a \in Uses(history[r])
  \/ \E t \in Tasks : task[t].state # "none" /\ (a = task[t].input \/ a \in task[t].outputs)

Deleted(a) ==
  IF store[a] = "stored" /\ ~Referenced(a) THEN [store EXCEPT ![a] = "deleted"] ELSE store

(* createWorkspaceArtifact: a fresh id and room for it. *)
Creates(a) == store[a] = "unused" /\ Cardinality(Stored) < MaxStored

-----------------------------------------------------------------------------
(* A page reads the workspace: with its inputs, as it does when it is opened  *)
(* anew in the middle of a save too, only its metadata, or the inputs of an  *)
(* earlier revision.                                                        *)
RefsOf(r) == IF r \in DOMAIN history THEN history[r].refs ELSE {}

Reload(p) ==
  /\ panel' = [panel EXCEPT ![p] = [pc |-> "idle", base |-> head, refs |-> RefsOf(head),
                                    payload |-> NoArtifact, uploaded |-> {}]]
  /\ UNCHANGED <<head, history, store, task, puts>>

Refresh(p) ==
  /\ panel[p].pc = "idle"
  /\ panel' = [panel EXCEPT ![p].base = head]
  /\ UNCHANGED <<head, history, store, task, puts>>

Restore(p, r) ==
  /\ panel[p].pc = "idle"
  /\ r \in DOMAIN history
  /\ panel' = [panel EXCEPT ![p].refs = history[r].refs]
  /\ UNCHANGED <<head, history, store, task, puts>>

Detach(p, a) ==
  /\ panel[p].pc = "idle" /\ a \in panel[p].refs
  /\ panel' = [panel EXCEPT ![p].refs = @ \ {a}]
  /\ UNCHANGED <<head, history, store, task, puts>>

(* The first step of save: nothing is uploaded from a base that is stale. *)
BeginSave(p) ==
  /\ panel[p].pc = "idle" /\ panel[p].base = head
  /\ panel' = [panel EXCEPT ![p].pc = "uploading"]
  /\ UNCHANGED <<head, history, store, task, puts>>

(* The attached files, then the inputs themselves. *)
Upload(p, a) ==
  /\ panel[p].pc = "uploading"
  /\ Cardinality(panel[p].uploaded) < MaxFiles
  /\ Creates(a)
  /\ store' = [store EXCEPT ![a] = "stored"]
  /\ panel' = [panel EXCEPT ![p].uploaded = @ \cup {a}]
  /\ UNCHANGED <<head, history, task, puts>>

UploadInputs(p, a) ==
  /\ panel[p].pc = "uploading"
  /\ Creates(a)
  /\ store' = [store EXCEPT ![a] = "stored"]
  /\ panel' = [panel EXCEPT ![p].pc = "committing", ![p].payload = a, ![p].uploaded = @ \cup {a}]
  /\ puts' = puts \cup {[page |-> p, base |-> panel[p].base, payload |-> a,
                         refs |-> panel[p].refs \cup panel[p].uploaded]}
  /\ UNCHANGED <<head, history, task>>

(* The upload's answer is lost: the page does not know of the artifact. *)
UploadLost(p, a) ==
  /\ panel[p].pc = "uploading"
  /\ Creates(a)
  /\ store' = [store EXCEPT ![a] = "stored"]
  /\ panel' = [panel EXCEPT ![p].pc = "cleaning"]
  /\ UNCHANGED <<head, history, task, puts>>

(* Mutant: the artifacts are not looked up again when they are committed. *)
Commits_Unchecked(put) == put.base = head /\ Cardinality(DOMAIN history) < MaxHistory

(* saveWorkspace *)
Commits(put) ==
  /\ put.base = head
  /\ Cardinality(DOMAIN history) < MaxHistory
  /\ Uses(put) \subseteq Stored

Waits(put) == panel[put.page].pc = "committing" /\ panel[put.page].payload = put.payload

ServePut(put) ==
  /\ put \in puts
  /\ Commits(put)
  /\ head < LastSave                                                   \* bound
  /\ head' = head + 1
  /\ history' = [r \in DOMAIN history \cup {head + 1} |->
                   IF r = head + 1 THEN [payload |-> put.payload, refs |-> put.refs] ELSE history[r]]
  /\ puts' = puts \ {put}
  /\ panel' = IF Waits(put) THEN [panel EXCEPT ![put.page].pc = "saved"] ELSE panel
  /\ UNCHANGED <<store, task>>

RefusePut(put) ==
  /\ put \in puts
  /\ puts' = puts \ {put}
  /\ panel' = IF Waits(put) THEN [panel EXCEPT ![put.page].pc = "cleaning"] ELSE panel
  /\ UNCHANGED <<head, history, store, task>>

(* The answer arrives. *)
Saved(p) ==
  /\ panel[p].pc = "saved"
  /\ panel' = [panel EXCEPT ![p] = [pc |-> "idle", base |-> @.base + 1,
                                    refs |-> @.refs \cup (@.uploaded \ {@.payload}),
                                    payload |-> NoArtifact, uploaded |-> {}]]
  /\ UNCHANGED <<head, history, store, task, puts>>

(* The user cancels, the page's inputs change, or an answer is lost: whether  *)
(* or not the request is served, the page takes the save for failed.         *)
SaveFails(p) ==
  /\ panel[p].pc \in {"uploading", "committing", "saved"}
  /\ panel' = [panel EXCEPT ![p].pc = "cleaning"]
  /\ UNCHANGED <<head, history, store, task, puts>>

(* The page deletes what it uploaded; a deletion that fails is not repeated.  *)
CleanUp(p, a) ==
  /\ panel[p].pc = "cleaning" /\ a \in panel[p].uploaded
  /\ panel' = [panel EXCEPT ![p].uploaded = @ \ {a}]
  /\ store' \in {store, Deleted(a)}
  /\ UNCHANGED <<head, history, task, puts>>

CleanedUp(p) ==
  /\ panel[p].pc = "cleaning" /\ panel[p].uploaded = {}
  /\ panel' = [panel EXCEPT ![p].pc = "idle", ![p].payload = NoArtifact]
  /\ UNCHANGED <<head, history, store, task, puts>>

-----------------------------------------------------------------------------
(* pruneWorkspaceHistory: neither the current revision nor one that a job     *)
(* was made from.                                                           *)
Prunable(r) == r # head /\ \A t \in Tasks : task[t].state = "none" \/ task[t].revision # r

Prune(p, before) ==
  /\ panel[p].pc = "idle"
  /\ history' = [r \in {x \in DOMAIN history : x >= before \/ ~Prunable(x)} |-> history[r]]
  /\ panel' = [panel EXCEPT ![p].base = head]
  /\ UNCHANGED <<head, store, task, puts>>

(* A user deletes an artifact from the list. *)
RemoveArtifact(a) ==
  /\ store[a] = "stored" /\ ~Referenced(a)
  /\ store' = Deleted(a)
  /\ UNCHANGED <<head, history, task, panel, puts>>

(* submitNativeJob: from an artifact, or from one of a saved revision. *)
Submit(t, a, r) ==
  /\ task[t].state = "none"
  /\ a \in Stored
  /\ r # 0 => r \in DOMAIN history /\ a \in Uses(history[r])
  /\ task' = [task EXCEPT ![t] = [state |-> "active", input |-> a, revision |-> r, outputs |-> {}]]
  /\ UNCHANGED <<head, history, store, panel, puts>>

(* finishNativeJob stores the outputs with the result. *)
Finish(t, a) ==
  /\ task[t].state = "active"
  /\ Creates(a)
  /\ store' = [store EXCEPT ![a] = "stored"]
  /\ task' = [task EXCEPT ![t].state = "over", ![t].outputs = {a}]
  /\ UNCHANGED <<head, history, panel, puts>>

(* It fails or is cancelled. *)
Fails(t) ==
  /\ task[t].state = "active"
  /\ task' = [task EXCEPT ![t].state = "over"]
  /\ UNCHANGED <<head, history, store, panel, puts>>

(* deleteNativeJob *)
DeleteTask(t) ==
  /\ task[t].state = "over"
  /\ task' = [task EXCEPT ![t] = NoTask]
  /\ UNCHANGED <<head, history, store, panel, puts>>

WorkspaceNext ==
  \/ \E p \in Pages :
       \/ Reload(p) \/ Refresh(p) \/ BeginSave(p) \/ Saved(p) \/ SaveFails(p) \/ CleanedUp(p)
       \/ \E r \in DOMAIN history : Restore(p, r) \/ Prune(p, r)
       \/ \E a \in Artifacts : \/ Detach(p, a) \/ CleanUp(p, a)
                               \/ Upload(p, a) \/ UploadInputs(p, a) \/ UploadLost(p, a)
  \/ \E put \in puts : ServePut(put) \/ RefusePut(put)
  \/ \E a \in Artifacts : RemoveArtifact(a)
  \/ \E t \in Tasks : \/ Fails(t) \/ DeleteTask(t)
                      \/ \E a \in Artifacts : Finish(t, a) \/ Submit(t, a, 0)
                                              \/ \E r \in DOMAIN history : Submit(t, a, r)

WorkspaceSpec == WorkspaceInit /\ [][WorkspaceNext]_workspaceVars

-----------------------------------------------------------------------------
(* What the history shows can be read, whatever answers are lost, saves given  *)
(* up, artifacts removed and revisions pruned: the current revision is there   *)
(* and the latest, all it and the others are made of is stored, and a job      *)
(* finds its input, its outputs and the revision it was made from              *)
(* (workspaces.ts:149 "Workspace history is inconsistent", 305).            *)
HistoryWhole ==
  /\ IF head = 0 THEN DOMAIN history = {}
                 ELSE head \in DOMAIN history /\ \A r \in DOMAIN history : r <= head
  /\ \A r \in DOMAIN history : Uses(history[r]) \subseteq Stored
  /\ \A t \in Tasks : task[t].state # "none" =>
       /\ {task[t].input} \cup task[t].outputs \subseteq Stored
       /\ task[t].revision # 0 =>
            /\ task[t].revision \in DOMAIN history
            /\ task[t].input \in Uses(history[task[t].revision])
=============================================================================
