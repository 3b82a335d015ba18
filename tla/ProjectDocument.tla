--------------------------- MODULE ProjectDocument ---------------------------
(***************************************************************************)
(* One shared project: its versioned design, the requests that change it,  *)
(* object locks, membership, snapshots, the idempotent operation log and   *)
(* the table of collaboration events its editors are notified from         *)
(* (server/src/routes/projects.ts, routes/collaboration.ts,                *)
(* routes/organizations.ts, collaboration.ts).                             *)
(*                                                                         *)
(* A database transaction and a single statement are each one step: SQLite *)
(* writers share one mutex and Postgres writers one advisory lock.  A      *)
(* request that is several statements is a handler that keeps what it read *)
(* between its steps and may stop after any of them.  A request the server *)
(* refuses changes nothing and appears only where a handler ends by it.    *)
(***************************************************************************)
EXTENDS DesignLocks, Sequences, FiniteSets

CONSTANTS
  Handlers,      \* requests the server can be in the middle of
  OpIds,         \* operationId values clients choose
  SnapIds,       \* ids of named snapshots
  Nothing,       \* an event about no operation and no snapshot
  Offered,       \* kinds of request the clients of an instance send
  MaxRevision,   \* revision capacity (2^53 - 1 in the code)
  MaxEvents      \* bound: events that publish no version are stored up to this many

ASSUME DocumentAssumption ==
  /\ MaxRevision \in Nat
  /\ MaxEvents \in Nat
  /\ Nothing \notin OpIds
  /\ OpIds \cap SnapIds = {}
  /\ Nothing \notin SnapIds

VARIABLES
  revision,    \* projects.revision
  design,      \* projects.design_data
  operations,  \* project_operations: operation id -> result revision, 0 without a row
  snapshots,   \* project_revisions: snapshot id -> its content
  events,      \* project_collaboration_events in id order
  handler,     \* what each request in progress has read and will do next
  draft,       \* user -> the version the user's editor works from
  history      \* the design at every revision, for stating properties

docVars == <<revision, design, operations, snapshots, events, draft, history>>
vars    == <<docVars, accessVars, lockVars, handler>>

Revision == 0..MaxRevision
NoBase   == -1                  \* a PATCH that names no baseRevision

DesignKind == {"design.updated", "operation.applied"}
Event == [kind  : DesignKind \cup {"snapshot.created", "lock.updated", "member.updated"},
          rev   : Revision,
          actor : Users,
          about : OpIds \cup SnapIds \cup {Nothing}]

NoSnapshot == [from |-> "none", content |-> Blank]
Snapshot   == [from : {"row", "request"}, content : Design] \cup {NoSnapshot}
Draft      == [rev : Revision, design : Design]

Idle         == [pc |-> "idle"]
PatchStep    == [pc : {"patch"}, actor : Users, save : BOOLEAN, manage : BOOLEAN,
                 base : Revision \cup {NoBase}, next : Design]
SnapshotStep == [pc : {"snapshot"}, actor : Users, snap : SnapIds, from : {"row", "request"},
                 content : Design, rev : Revision]
MemberStep   == [pc : {"invite", "setRole", "remove"}, actor : Users, target : Users,
                 role : MemberRole]
DropStep     == [pc : {"dropLocks"}, actor : Users, target : Users, found : BOOLEAN]
UnlockStep   == [pc : {"unlock"}, actor : Users, key : LockKey, anyHolder : BOOLEAN]
RevisionStep == [pc : {"readRevision"}, actor : Users, kind : {"lock.updated", "member.updated"}]
AnnounceStep == [pc : {"announce"}, event : {e \in Event : e.kind \notin DesignKind}]

HandlerState == {Idle} \cup PatchStep \cup SnapshotStep \cup MemberStep \cup DropStep
                  \cup UnlockStep \cup RevisionStep \cup AnnounceStep

TypeOK ==
  /\ AccessTypeOK
  /\ LockTypeOK
  /\ revision \in Revision
  /\ design \in Design
  /\ operations \in [OpIds -> Revision]
  /\ snapshots \in [SnapIds -> Snapshot]
  /\ events \in Seq(Event)
  /\ handler \in [Handlers -> HandlerState]
  /\ draft \in [Users -> Draft]
  /\ history \in [Revision -> Design]

Init ==
  /\ AccessInit
  /\ LockInit
  /\ revision = 0
  /\ design = Blank
  /\ operations = [id \in OpIds |-> 0]
  /\ snapshots = [s \in SnapIds |-> NoSnapshot]
  /\ events = <<>>
  /\ handler = [h \in Handlers |-> Idle]
  /\ draft = [u \in Users |-> [rev |-> 0, design |-> Blank]]
  /\ history = [r \in Revision |-> Blank]

-----------------------------------------------------------------------------
Emit(kind, rev, actor, about) ==
  events' = Append(events, [kind |-> kind, rev |-> rev, actor |-> actor, about |-> about])

(* An event of a request that publishes no version.  Nothing reads it back    *)
(* in the document: the bound leaves the event out, not the request.         *)
Notify(kind, rev, actor, about) ==
  IF Len(events) < MaxEvents THEN Emit(kind, rev, actor, about) ELSE UNCHANGED events

(* Mutants: a no-op save keeps the revision; the event carries the revision  *)
(* read before the update.                                                 *)
Publish_NoopKeepsRevision(actor, content, kind, about) ==
  LET rev == IF content = design THEN revision ELSE revision + 1 IN
  /\ revision < MaxRevision
  /\ revision' = rev
  /\ design' = content
  /\ history' = [history EXCEPT ![rev] = content]
  /\ Emit(kind, rev, actor, about)

Publish_StaleEvent(actor, content, kind, about) ==
  /\ revision < MaxRevision
  /\ revision' = revision + 1
  /\ design' = content
  /\ history' = [history EXCEPT ![revision + 1] = content]
  /\ Emit(kind, revision, actor, about)

(* The conditional UPDATE of the projects row and the event of the same     *)
(* transaction.                                                            *)
Publish(actor, content, kind, about) ==
  /\ revision < MaxRevision
  /\ revision' = revision + 1
  /\ design' = content
  /\ history' = [history EXCEPT ![revision + 1] = content]
  /\ Emit(kind, revision + 1, actor, about)

(* Mutant: the answer names the revision the request was based on. *)
Answer_BaseRevision(u, content) ==
  \/ draft' = [draft EXCEPT ![u] = [rev |-> revision, design |-> content]]
  \/ UNCHANGED draft

(* The answer reaches the writer's editor, or is lost on the way. *)
Answer(u, content) ==
  \/ draft' = [draft EXCEPT ![u] = [rev |-> revision + 1, design |-> content]]
  \/ UNCHANGED draft

Goto(h, state) == handler' = [handler EXCEPT ![h] = state]
Free(h, kind)  == kind \in Offered /\ handler[h] = Idle

-----------------------------------------------------------------------------
(* GET /api/projects/:id *)
ReadProject(u) ==
  /\ CanRead(u)
  /\ draft' = [draft EXCEPT ![u] = [rev |-> revision, design |-> design]]
  /\ UNCHANGED <<revision, design, operations, snapshots, events, history,
                 accessVars, lockVars, handler>>

(* PATCH /api/projects/:id up to the transaction: access is read once, the  *)
(* body names the draft's revision.                                        *)
PatchBegin(h, u) ==
  /\ CanWrite(u)
  /\ \/ /\ Free(h, "save")
        /\ \E content \in Design :
             Goto(h, [pc |-> "patch", actor |-> u, save |-> TRUE, manage |-> FALSE,
                      base |-> draft[u].rev, next |-> content])
     \/ /\ Free(h, "label")
        /\ \E manage \in BOOLEAN, base \in {NoBase, draft[u].rev} :
             /\ manage => CanManage(u)
             /\ Goto(h, [pc |-> "patch", actor |-> u, save |-> FALSE, manage |-> manage,
                         base |-> base, next |-> Blank])
  /\ UNCHANGED <<docVars, accessVars, lockVars>>

(* Mutants: the transaction trusts the access, or the base, read before it, *)
(* or does not look at the locks.                                          *)
MayPatch_NoLockTest(r) ==
  /\ CanWrite(r.actor)
  /\ r.manage => CanManage(r.actor)
  /\ r.base # NoBase => r.base = revision

MayPatch_StaleAccess(r) ==
  /\ r.base # NoBase => r.base = revision
  /\ r.save => ~ConflictingLock(r.actor, design, r.next)

MayPatch_NoBaseTest(r) ==
  /\ CanWrite(r.actor)
  /\ r.manage => CanManage(r.actor)
  /\ r.save => ~ConflictingLock(r.actor, design, r.next)

MayPatch(r) ==
  /\ CanWrite(r.actor)
  /\ r.manage => CanManage(r.actor)
  /\ r.base # NoBase => r.base = revision
  /\ r.save => ~ConflictingLock(r.actor, design, r.next)

(* The transaction of the PATCH re-reads access, revision and locks. *)
PatchCommit(h) ==
  LET r == handler[h] IN
  /\ r.pc = "patch"
  /\ MayPatch(r)
  /\ IF r.save THEN /\ Publish(r.actor, r.next, "design.updated", Nothing)
                    /\ Answer(r.actor, r.next)
               ELSE /\ Publish(r.actor, design, "snapshot.created", Nothing)
                    /\ UNCHANGED draft
  /\ Goto(h, Idle)
  /\ UNCHANGED <<operations, snapshots, accessVars, lockVars>>

PatchRefused(h) ==
  /\ handler[h].pc = "patch"
  /\ ~MayPatch(handler[h]) \/ revision = MaxRevision
  /\ Goto(h, Idle)
  /\ UNCHANGED <<docVars, accessVars, lockVars>>

(* Mutants: a logged id is applied again; the base revision is not tested. *)
ApplyOperation_Repeat(u, id, o, value) ==
  LET next == [design EXCEPT ![o] = value] IN
  /\ "operation" \in Offered
  /\ CanWrite(u)
  /\ draft[u].rev = revision
  /\ ~ConflictingLock(u, design, next)
  /\ Publish(u, next, "operation.applied", id)
  /\ operations' = [operations EXCEPT ![id] = revision + 1]
  /\ Answer(u, next)
  /\ UNCHANGED <<snapshots, accessVars, lockVars, handler>>

(* POST operations: one transaction; an id already logged changes nothing. *)
ApplyOperation(u, id, o, value) ==
  LET next == [design EXCEPT ![o] = value] IN
  /\ "operation" \in Offered
  /\ CanWrite(u)
  /\ operations[id] = 0
  /\ draft[u].rev = revision
  /\ ~ConflictingLock(u, design, next)
  /\ Publish(u, next, "operation.applied", id)
  /\ operations' = [operations EXCEPT ![id] = revision + 1]
  /\ Answer(u, next)
  /\ UNCHANGED <<snapshots, accessVars, lockVars, handler>>

-----------------------------------------------------------------------------
(* POST revisions: the row and the access are read, then the snapshot is    *)
(* inserted, then it is announced, each on its own.                        *)
SnapshotBegin(h, u, s) ==
  /\ Free(h, "snapshot")
  /\ CanWrite(u)
  /\ snapshots[s] = NoSnapshot
  /\ \A g \in Handlers : handler[g].pc = "snapshot" => handler[g].snap # s
  /\ \/ Goto(h, [pc |-> "snapshot", actor |-> u, snap |-> s, from |-> "row",
                 content |-> design, rev |-> revision])
     \/ Goto(h, [pc |-> "snapshot", actor |-> u, snap |-> s, from |-> "request",
                 content |-> draft[u].design, rev |-> revision])
  /\ UNCHANGED <<docVars, accessVars, lockVars>>

(* Mutant: the event names the revision current at the insert. *)
SnapshotInsert_FreshRevision(h, s) ==
  LET r == handler[h] IN
  /\ r.pc = "snapshot" /\ r.snap = s
  /\ snapshots' = [snapshots EXCEPT ![s] = [from |-> r.from, content |-> r.content]]
  /\ Goto(h, [pc |-> "announce",
              event |-> [kind |-> "snapshot.created", rev |-> revision, actor |-> r.actor,
                         about |-> s]])
  /\ UNCHANGED <<revision, design, operations, events, draft, history, accessVars, lockVars>>

SnapshotInsert(h, s) ==
  LET r == handler[h] IN
  /\ r.pc = "snapshot" /\ r.snap = s
  /\ snapshots' = [snapshots EXCEPT ![s] = [from |-> r.from, content |-> r.content]]
  /\ Goto(h, [pc |-> "announce",
              event |-> [kind |-> "snapshot.created", rev |-> r.rev, actor |-> r.actor,
                         about |-> s]])
  /\ UNCHANGED <<revision, design, operations, events, draft, history, accessVars, lockVars>>

(* POST revisions/:id/restore: one transaction. *)
RestoreSnapshot(u, s) ==
  LET content == snapshots[s].content IN
  /\ "restore" \in Offered
  /\ CanWrite(u)
  /\ snapshots[s] # NoSnapshot
  /\ draft[u].rev = revision
  /\ ~ConflictingLock(u, design, content)
  /\ Publish(u, content, "design.updated", Nothing)
  /\ Answer(u, content)
  /\ UNCHANGED <<operations, snapshots, accessVars, lockVars, handler>>

-----------------------------------------------------------------------------
(* Mutant: reading is enough to take a lease. *)
LockObject_AnyReader(u, k, ttl) ==
  /\ "lock" \in Offered
  /\ CanRead(u)
  /\ AcquireLock(u, k, ttl)
  /\ Notify("lock.updated", revision, u, Nothing)
  /\ UNCHANGED <<revision, design, operations, snapshots, draft, history, accessVars, handler>>

(* POST locks: one transaction. *)
LockObject(u, k, ttl) ==
  /\ "lock" \in Offered
  /\ CanWrite(u)
  /\ AcquireLock(u, k, ttl)
  /\ Notify("lock.updated", revision, u, Nothing)
  /\ UNCHANGED <<revision, design, operations, snapshots, draft, history, accessVars, handler>>

(* DELETE locks/:objectId: access, delete, revision and event separately. *)
UnlockBegin(h, u, k) ==
  /\ Free(h, "unlock")
  /\ CanWrite(u)
  /\ Goto(h, [pc |-> "unlock", actor |-> u, key |-> k, anyHolder |-> CanManage(u)])
  /\ UNCHANGED <<docVars, accessVars, lockVars>>

UnlockDelete(h) ==
  LET r == handler[h] IN
  /\ r.pc = "unlock"
  /\ ReleaseLock(r.actor, r.key, r.anyHolder)
  /\ Goto(h, IF locks[r.key] # NoLock /\ (r.anyHolder \/ locks[r.key].user = r.actor)
               THEN [pc |-> "readRevision", actor |-> r.actor, kind |-> "lock.updated"]
               ELSE Idle)
  /\ UNCHANGED <<docVars, accessVars>>

(* GET locks *)
ListLocks ==
  /\ "lock" \in Offered
  /\ \E u \in Users : CanRead(u)
  /\ ClearExpired
  /\ UNCHANGED <<docVars, accessVars, handler>>

-----------------------------------------------------------------------------
(* POST, PATCH and DELETE members: the owner's access is read first. *)
MemberBegin(h, u, target, role) ==
  /\ CanManage(u) /\ ~tenant
  /\ \/ Free(h, "invite") /\ target # Owner
        /\ Goto(h, [pc |-> "invite", actor |-> u, target |-> target, role |-> role])
     \/ Free(h, "setRole")
        /\ Goto(h, [pc |-> "setRole", actor |-> u, target |-> target, role |-> role])
     \/ Free(h, "remove")
        /\ Goto(h, [pc |-> "remove", actor |-> u, target |-> target, role |-> "viewer"])
  /\ UNCHANGED <<docVars, accessVars, lockVars>>

MemberUpdated(u) == [pc |-> "readRevision", actor |-> u, kind |-> "member.updated"]

InviteUpsert(h) ==
  LET r == handler[h] IN
  /\ r.pc = "invite"
  /\ SetMember(r.target, r.role)
  /\ Goto(h, MemberUpdated(r.actor))
  /\ UNCHANGED <<docVars, lockVars>>

SetRoleUpdate(h) ==
  LET r == handler[h] IN
  /\ r.pc = "setRole"
  /\ IF members[r.target] = "none"
       THEN UNCHANGED accessVars /\ Goto(h, Idle)
       ELSE /\ SetMember(r.target, r.role)
            /\ Goto(h, IF r.role = "viewer"
                         THEN [pc |-> "dropLocks", actor |-> r.actor, target |-> r.target,
                               found |-> TRUE]
                         ELSE MemberUpdated(r.actor))
  /\ UNCHANGED <<docVars, lockVars>>

RemoveDelete(h) ==
  LET r == handler[h] IN
  /\ r.pc = "remove"
  /\ SetMember(r.target, "none")
  /\ Goto(h, [pc |-> "dropLocks", actor |-> r.actor, target |-> r.target,
              found |-> members[r.target] # "none"])
  /\ UNCHANGED <<docVars, lockVars>>

(* The separate DELETE of the member's locks. *)
DropMemberLocks(h) ==
  LET r == handler[h] IN
  /\ r.pc = "dropLocks"
  /\ DropLocksOf(r.target)
  /\ Goto(h, IF r.found THEN MemberUpdated(r.actor) ELSE Idle)
  /\ UNCHANGED <<docVars, accessVars>>

(* The tail of these requests: read the revision, then store the event. *)
ReadRevision(h) ==
  LET r == handler[h] IN
  /\ r.pc = "readRevision"
  /\ Goto(h, [pc |-> "announce",
              event |-> [kind |-> r.kind, rev |-> revision, actor |-> r.actor,
                         about |-> Nothing]])
  /\ UNCHANGED <<docVars, accessVars, lockVars>>

Announce(h) ==
  LET e == handler[h].event IN
  /\ handler[h].pc = "announce"
  /\ Notify(e.kind, e.rev, e.actor, e.about)
  /\ Goto(h, Idle)
  /\ UNCHANGED <<revision, design, operations, snapshots, draft, history, accessVars, lockVars>>

(* The process dies, or a statement throws, between two steps. *)
Stop(h) ==
  /\ handler[h] # Idle
  /\ Goto(h, Idle)
  /\ UNCHANGED <<docVars, accessVars, lockVars>>

-----------------------------------------------------------------------------
(* POST organizations/:id/projects: the owner donates the project to a      *)
(* tenant.  The revision moves, no collaboration event is stored.          *)
BindProject(u) ==
  /\ "bind" \in Offered
  /\ OrgAdmin(u) /\ u = Owner /\ ~tenant
  /\ revision < MaxRevision
  /\ revision' = revision + 1
  /\ history' = [history EXCEPT ![revision + 1] = design]
  /\ BindToTenant
  /\ DropAllLocks
  /\ UNCHANGED <<design, operations, snapshots, events, draft, handler>>

(* The tenant's own membership, one transaction each.  Before the binding   *)
(* these rows do not concern the project.                                  *)
ChangeTenant(actor, target, role) ==
  /\ "tenant" \in Offered
  /\ tenant
  /\ \/ MayAppoint(actor, target, role) /\ SetOrgRole(target, role) /\ UNCHANGED lockVars
     \/ /\ MayChangeRole(actor, target, role)
        /\ SetOrgRole(target, role)
        /\ IF role = "viewer" THEN DropLocksOf(target) ELSE UNCHANGED lockVars
     \/ MayDismiss(actor, target) /\ SetOrgRole(target, "none") /\ DropLocksOf(target)
     \/ /\ MayTransfer(actor, target)
        /\ orgRole' = [orgRole EXCEPT ![actor] = "admin", ![target] = "owner"]
        /\ UNCHANGED <<members, tenant, orgWritable, lockVars>>
  /\ UNCHANGED <<docVars, handler>>

(* Billing and seat changes open and close the tenant for writing. *)
EntitlementChanges ==
  /\ "tenant" \in Offered
  /\ tenant
  /\ orgWritable' = ~orgWritable
  /\ UNCHANGED <<members, tenant, orgRole, docVars, lockVars, handler>>

(* Only leases depend on the time; instances without them keep it still.  *)
TimePasses ==
  /\ "lock" \in Offered
  /\ Tick
  /\ UNCHANGED <<docVars, accessVars, handler>>

-----------------------------------------------------------------------------
Requests ==
  \/ \E u \in Users : ReadProject(u) \/ BindProject(u)
  \/ \E h \in Handlers, u \in Users : PatchBegin(h, u)
  \/ \E h \in Handlers : PatchCommit(h) \/ PatchRefused(h)
  \/ \E u \in Users, id \in OpIds, o \in Objects, value \in Values \cup {Absent} :
       ApplyOperation(u, id, o, value)
  \/ \E h \in Handlers, u \in Users, s \in SnapIds : SnapshotBegin(h, u, s)
  \/ \E h \in Handlers, s \in SnapIds : SnapshotInsert(h, s)
  \/ \E u \in Users, s \in SnapIds : RestoreSnapshot(u, s)
  \/ \E u \in Users, k \in LockKey, ttl \in 1..LongestTtl : LockObject(u, k, ttl)
  \/ \E h \in Handlers, u \in Users, k \in LockKey : UnlockBegin(h, u, k)
  \/ \E h \in Handlers : UnlockDelete(h)
  \/ ListLocks
  \/ \E h \in Handlers, u \in Users, target \in Users, role \in MemberRole :
       MemberBegin(h, u, target, role)
  \/ \E h \in Handlers : InviteUpsert(h) \/ SetRoleUpdate(h) \/ RemoveDelete(h)
                           \/ DropMemberLocks(h)
  \/ \E h \in Handlers : ReadRevision(h) \/ Announce(h) \/ Stop(h)
  \/ \E actor \in Users, target \in Users, role \in OrgRole \ {"owner"} :
       ChangeTenant(actor, target, role)
  \/ EntitlementChanges

Next == Requests \/ TimePasses

Spec == Init /\ [][Next]_vars

-----------------------------------------------------------------------------
(* Every editor's copy is a version the document really had: what a client *)
(* was given for revision r is the content of revision r, although answers *)
(* are lost, requests overlap and metadata-only requests move the revision.*)
(* With the base test of every write it means that no write replaces       *)
(* content its author had not been shown (routes/projects.ts:371).         *)
CopiesAreHistorical ==
  /\ history[revision] = design
  /\ \A u \in Users : /\ draft[u].rev <= revision
                      /\ draft[u].design = history[draft[u].rev]

(* The event feed an editor reloads from is complete and exact: each        *)
(* version with new content is announced once, and in event-id order the   *)
(* announced revisions increase, so `event.revision > known` (Editor.tsx)   *)
(* never hides a newer version.                                            *)
DesignEvent(i) == events[i].kind \in DesignKind

DesignEventsIncrease ==
  \A i, j \in 1..Len(events) :
    i < j /\ DesignEvent(i) /\ DesignEvent(j) => events[i].rev < events[j].rev

NewContentAnnounced ==
  \A r \in 1..revision : history[r] # history[r - 1] =>
    \E i \in 1..Len(events) : DesignEvent(i) /\ events[i].rev = r

(* An operation id takes effect at most once however often it is sent: its *)
(* log row and its event exist together, once, and name the same revision. *)
OperationsOnce ==
  \A id \in OpIds :
    LET Applied == {i \in 1..Len(events) :
                      events[i].kind = "operation.applied" /\ events[i].about = id}
    IN IF operations[id] = 0 THEN Applied = {}
       ELSE \E i \in Applied : Applied = {i} /\ events[i].rev = operations[id]

(* A snapshot the server took from the row holds the design of the revision *)
(* its event names, although the row moves on before the insert and the     *)
(* event (routes/projects.ts:425-445).                                     *)
SnapshotsAreHistorical ==
  \A i \in 1..Len(events) :
    LET e == events[i] IN
    e.about \in SnapIds /\ snapshots[e.about].from = "row"
      => snapshots[e.about].content = history[e.rev]

(* While a lease is live nobody but its holder changes what it protects, by *)
(* whole-design save, operation or restore: the event that publishes such a *)
(* change is the holder's.                                                 *)
LeasesProtect ==
  [][\A k \in LockKey :
       Live(k) /\ design' # design /\ Protects(k, design, design')
         => events'[Len(events')].actor = locks[k].user]_vars

(* A design change is committed by someone who may write at the moment of  *)
(* the commit, although the request was admitted earlier and membership,   *)
(* tenancy or the tenant's entitlement changed while it was on its way.    *)
WritersMayWrite ==
  [][design' # design => CanWrite(events'[Len(events')].actor)]_vars

(* "Revocation/demotion removes locks" (docs/IMPLEMENTATION-CONTINUATION.md *)
(* line 25): with no request in progress, whoever holds a lease may write. *)
DemotionRemovesLocks ==
  (\A h \in Handlers : handler[h] = Idle) =>
    \A k \in LockKey, u \in Users : HeldBy(k, u) /\ members[u] = "viewer" => CanWrite(u)

-----------------------------------------------------------------------------
(* The document implements the versioned document: versions are history,   *)
(* the feed is the set of revisions the design events announce.            *)
Feed == {events[i].rev : i \in {j \in 1..Len(events) : DesignEvent(j)}}

VD == INSTANCE VersionedDocument WITH
        Contents <- Design, FirstContent <- Blank, versions <- history,
        copy <- [u \in Users |-> draft[u].rev], feed <- Feed

Versioned == VD!Spec
=============================================================================
