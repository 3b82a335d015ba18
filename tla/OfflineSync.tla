----------------------------- MODULE OfflineSync -----------------------------
(***************************************************************************)
(* The offline queue of one account and the managers that send it          *)
(* (client/src/lib/offlineQueue.ts, lib/offlineSyncManager.ts), beside the *)
(* editor pages of DraftEditor that fill it.                               *)
(*                                                                         *)
(* Every page has a manager; the queue in IndexedDB is theirs in common.   *)
(* One IndexedDB transaction is one step, so that a page enqueueing a save *)
(* (list, supersede one by one, put) and a manager working through the     *)
(* items it has listed overwrite each other's status as the code's do.     *)
(* An item that is dismissed keeps its place in the sequence.              *)
(***************************************************************************)
EXTENDS DraftEditor

CONSTANT HasLocks      \* whether the browser has navigator.locks

ASSUME LocksAssumption == HasLocks \in BOOLEAN

VARIABLES
  queue,    \* the items in the order of their creation
  enqueue,  \* page -> the enqueue it is in the middle of
  sync      \* page -> its synchronization manager

vars == <<editorVars, queue, enqueue, sync>>

Status   == {"queued", "syncing", "completed", "conflicted", "failed", "superseded", "dismissed"}
Item     == [design : Design, base : Revision, status : Status]
Ids      == 1..Len(queue)

(* Mutant: a run leaves out what an earlier run has begun to send. *)
Pending_NotSyncing(i) == i \in Ids /\ queue[i].status = "queued"

Pending(i) == i \in Ids /\ queue[i].status \in {"queued", "syncing"}

Enqueue  == [at : {"none", "list", "supersede"}, design : Design, base : {NoBase} \cup Revision,
             left : SUBSET Nat]
NotNow   == [at |-> "none", design |-> {}, base |-> NoBase, left |-> {}]

Manager  == [at : {"idle", "mark", "check", "send", "saved", "cached", "conflict", "refused"},
             item : Nat, todo : SUBSET Nat]
Resting  == [at |-> "idle", item |-> 0, todo |-> {}]

TypeOK ==
  /\ EditorTypeOK
  /\ queue \in Seq(Item)
  /\ enqueue \in [Pages -> Enqueue]
  /\ sync \in [Pages -> Manager]
  /\ \A p \in Pages : /\ enqueue[p].left \subseteq Ids /\ sync[p].todo \subseteq Ids
                      /\ sync[p].at \notin {"idle", "mark"} => sync[p].item \in Ids

Init ==
  /\ EditorInit
  /\ queue = <<>>
  /\ enqueue = [p \in Pages |-> NotNow]
  /\ sync = [p \in Pages |-> Resting]

(* updateStatus: whatever the status has become in the meantime. *)
SetStatus(i, status) ==
  queue' = IF queue[i].status = "dismissed" THEN queue
           ELSE [queue EXCEPT ![i].status = status]

-----------------------------------------------------------------------------
(* Filling the queue: only a failing network does.  *)

(* Bound: a page starts no second enqueue while one is in progress. *)
GoOffline(p) ==
  /\ enqueue[p].at = "none"
  /\ Disconnect(p)
  /\ enqueue' = [enqueue EXCEPT ![p] = [at |-> "list", design |-> page[p].flight.design,
                                        base |-> page[p].flight.base, left |-> {}]]
  /\ UNCHANGED <<queue, sync>>

ListOlder(p) ==
  /\ enqueue[p].at = "list"
  /\ enqueue' = [enqueue EXCEPT ![p].at = "supersede",
                                ![p].left = {i \in Ids : queue[i].status = "queued"}]
  /\ UNCHANGED <<editorVars, queue, sync>>

(* Newest first. *)
Supersede(p) ==
  LET left == enqueue[p].left IN
  \E i \in left :
    /\ \A k \in left : k =< i
    /\ SetStatus(i, "superseded")
    /\ enqueue' = [enqueue EXCEPT ![p].left = left \ {i}]
    /\ UNCHANGED <<editorVars, sync>>

Put(p) ==
  /\ enqueue[p].at = "supersede" /\ enqueue[p].left = {}
  /\ queue' = Append(queue, [design |-> enqueue[p].design, base |-> enqueue[p].base,
                             status |-> "queued"])
  /\ enqueue' = [enqueue EXCEPT ![p] = NotNow]
  /\ UNCHANGED <<editorVars, sync>>

(* "Dismiss conflict". *)
Dismiss(i) ==
  /\ "dismiss" \in Offered
  /\ i \in Ids /\ queue[i].status = "conflicted"
  /\ queue' = [queue EXCEPT ![i].status = "dismissed"]
  /\ UNCHANGED <<editorVars, enqueue, sync>>

-----------------------------------------------------------------------------
(* Sending the queue.  *)

Syncing(p) == sync[p].at # "idle"
Current(p) == sync[p].item
Goes(p, at) == sync' = [sync EXCEPT ![p].at = at]

(* The manager goes on with the next item it has listed. *)
Advance(p) ==
  sync' = [sync EXCEPT ![p] = IF @.todo = {} THEN Resting ELSE [@ EXCEPT !.at = "mark", !.item = 0]]

(* A manual run, a reconnection, a sign-in or the retry timer.  Another    *)
(* tab's run excludes this one only where the browser has locks.           *)
StartSync(p) ==
  /\ IsOpen(p) /\ ~Syncing(p)
  /\ HasLocks => \A q \in Pages : ~Syncing(q)
  /\ \E i \in Ids : Pending(i)
  /\ sync' = [sync EXCEPT ![p] = [at |-> "mark", item |-> 0, todo |-> {i \in Ids : Pending(i)}]]
  /\ UNCHANGED <<editorVars, queue, enqueue>>

(* Oldest first. *)
MarkSyncing(p) ==
  LET todo == sync[p].todo IN
  /\ sync[p].at = "mark"
  /\ \E i \in todo :
       /\ \A k \in todo : i =< k
       /\ SetStatus(i, "syncing")
       /\ sync' = [sync EXCEPT ![p] = [at |-> "check", item |-> i, todo |-> todo \ {i}]]
  /\ UNCHANGED <<editorVars, enqueue>>

(* Mutant: a revision that has moved on is taken for the save whose answer was lost. *)
Check_ConflictIsDone(p) ==
  /\ sync[p].at = "check"
  /\ \/ /\ queue[Current(p)].base = revision
        /\ Goes(p, "send")
        /\ UNCHANGED queue
     \/ /\ queue[Current(p)].base # revision
        /\ SetStatus(Current(p), "completed")
        /\ Advance(p)
  /\ UNCHANGED <<editorVars, enqueue>>

(* The revision check before anything is sent. *)
Check(p) ==
  /\ sync[p].at = "check"
  /\ \/ /\ queue[Current(p)].base = revision
        /\ Goes(p, "send")
        /\ UNCHANGED queue
     \/ /\ queue[Current(p)].base # revision
        /\ SetStatus(Current(p), "conflicted")
        /\ Advance(p)
     \/ /\ "refused" \in Offered
        /\ SetStatus(Current(p), "failed")
        /\ Advance(p)
  /\ UNCHANGED <<editorVars, enqueue>>

Send(p) ==
  /\ sync[p].at = "send"
  /\ \E result \in {"saved", "conflict", "refused"} :
       /\ Patched(queue[Current(p)].base, queue[Current(p)].design, result)
       /\ Goes(p, result)
  /\ UNCHANGED <<wire, stamp, drafts, cache, page, lost, edits, discarded, queue, enqueue>>

(* After an accepted save the offline copy is written first. *)
CacheSaved(p) ==
  /\ sync[p].at = "saved"
  /\ cache' = [design |-> queue[Current(p)].design, rev |-> queue[Current(p)].base + 1]
  /\ Goes(p, "cached")
  /\ UNCHANGED <<saved, wire, stamp, drafts, page, lost, edits, discarded, queue, enqueue>>

Outcome == [cached |-> "completed", conflict |-> "conflicted", refused |-> "failed"]

Settle(p) ==
  /\ sync[p].at \in DOMAIN Outcome
  /\ SetStatus(Current(p), Outcome[sync[p].at])
  /\ Advance(p)
  /\ UNCHANGED <<editorVars, enqueue>>

Unanswered(p) ==
  IF sync[p].at = "send"
  THEN {[design |-> queue[Current(p)].design, base |-> queue[Current(p)].base]}
  ELSE {}

(* A transient failure puts the item back and ends the run; the request    *)
(* may have been served, or be served later.                               *)
SyncFails(p) ==
  /\ sync[p].at \in {"check", "send", "saved", "conflict", "refused"}
  /\ lost < MaxLost
  /\ lost' = lost + 1
  /\ wire' = wire \cup Unanswered(p)
  /\ SetStatus(Current(p), "queued")
  /\ sync' = [sync EXCEPT ![p] = Resting]
  /\ UNCHANGED <<saved, stamp, drafts, cache, page, edits, discarded, enqueue>>

SyncStep(p) == MarkSyncing(p) \/ Check(p) \/ Send(p) \/ CacheSaved(p) \/ Settle(p)
EnqueueStep(p) == ListOlder(p) \/ Supersede(p) \/ Put(p)

(* Closing a page ends its enqueue and its manager wherever they are; a    *)
(* request the manager has sent may still arrive.                          *)
ClosePage(p) ==
  /\ "close" \in Offered
  /\ Close(p, Unanswered(p))
  /\ enqueue' = [enqueue EXCEPT ![p] = NotNow]
  /\ sync' = [sync EXCEPT ![p] = Resting]
  /\ UNCHANGED queue

Edits(p) == EditorStep(p) /\ UNCHANGED <<queue, enqueue, sync>>
Others   == (ForeignSave \/ \E request \in wire : Arrives(request)) /\ UNCHANGED <<queue, enqueue, sync>>

Next ==
  \/ \E p \in Pages : \/ Edits(p) \/ GoOffline(p) \/ EnqueueStep(p)
                      \/ StartSync(p) \/ SyncStep(p) \/ SyncFails(p)
                      \/ ClosePage(p)
  \/ \E i \in Ids : Dismiss(i)
  \/ Others

Spec == Init /\ [][Next]_vars

(* An open page keeps trying - by its retry timer, which gives up only     *)
(* after six failures in a row, or by "Sync now" - and every request of a  *)
(* run ends by its deadline.                                               *)
FairSpec ==
  /\ Spec
  /\ \A p \in Pages : WF_vars(StartSync(p)) /\ WF_vars(SyncStep(p))

-----------------------------------------------------------------------------
(* Properties.  *)

(* No save removes what an earlier save put on the server: neither an      *)
(* autosave, nor a recovered or merged draft, nor a queued save sent long  *)
(* after it was made (Editor.tsx scheduleSave, offlineSyncManager.ts       *)
(* syncProjectSave: the base revision travels with the design).            *)
NoSilentOverwrite == \A r \in 2..revision : saved[r - 1] \subseteq saved[r]

(* Whatever answers are lost and pages close, a change the user made and   *)
(* has not given up is on the server or in a recovery draft                *)
(* (Editor.tsx: a draft is stored before the autosave delay and removed    *)
(* only when a save of its latest version has been acknowledged).          *)
NothingForgotten ==
  edits \ discarded \subseteq Latest \cup UNION {drafts[p].design : p \in Pages}

(* Everything that may still be saved contains the design of the revision  *)
(* it claims to be based on: drafts, queued saves, the offline copy and    *)
(* requests on their way.                                                  *)
BasesIncluded ==
  LET Based(design, base) == base # NoBase => base =< revision /\ saved[base] \subseteq design IN
  /\ \A p \in Pages : /\ Based(drafts[p].design, drafts[p].base)
                      /\ Based(page[p].flight.design, page[p].flight.base)
                      /\ Based(page[p].shown, page[p].pending)
  /\ \A i \in Ids : Based(queue[i].design, queue[i].base)
  /\ \A request \in wire : Based(request.design, request.base)
  /\ Based(cache.design, cache.rev)

(* A queued save is reported completed only when the server holds exactly  *)
(* its design as the revision after its base (offlineSyncManager.ts        *)
(* processItem): a lost answer is never taken for a success.               *)
CompletedWasSaved ==
  \A i \in Ids : queue[i].status = "completed" =>
    revision > queue[i].base /\ saved[queue[i].base + 1] = queue[i].design

(* A save in the queue is not stuck: it is sent, found in conflict, refused *)
(* or superseded as long as some page stays open - also one that a closed   *)
(* page left half sent (getPendingQueue includes "syncing").                *)
Waiting(i) == i \in Ids /\ queue[i].status \in {"queued", "syncing"}

EveryItemSettles ==
  \A i \in 1..MaxLost : Waiting(i) ~> (~Waiting(i) \/ \A p \in Pages : ~IsOpen(p))

(* offlineQueue.ts:77 "If a new project save is enqueued, older unsaved     *)
(* operations for the same project are superseded": such an operation is    *)
(* not sent after the newer save has taken its place.                       *)
SupersededStays ==
  [][\A i \in Ids : queue[i].status = "superseded" => queue'[i].status = "superseded"]_vars
=============================================================================
