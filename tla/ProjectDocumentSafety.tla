------------------------ MODULE ProjectDocumentSafety ------------------------
(***************************************************************************)
(* Safety theorems about ProjectDocument.  Every step, whichever route it   *)
(* belongs to, is of one of three kinds as far as the versions and their    *)
(* announcements go (StepKinds); each invariant is then kept by each kind.  *)
(***************************************************************************)
EXTENDS ProjectDocumentProofs, LeaseHistory

(* An event that announces no new design may be stored along the way. *)
OtherEvent ==
  \/ UNCHANGED events
  \/ \E e \in Event : e.kind \notin DesignKind /\ events' = Append(events, e)

(* No version appears; an editor may have loaded the current one. *)
Quiet ==
  /\ UNCHANGED <<revision, design, history, operations>>
  /\ \/ UNCHANGED draft
     \/ \E u \in Users : draft' = [draft EXCEPT ![u] = [rev |-> revision, design |-> design]]
  /\ OtherEvent

(* A version with the same design. *)
Touching ==
  /\ revision < MaxRevision
  /\ revision' = revision + 1
  /\ history' = [history EXCEPT ![revision + 1] = design]
  /\ UNCHANGED <<design, operations, draft>>
  /\ OtherEvent

(* A version u publishes: a save or a restore, or the operation with id about. *)
Writing(u, content, kind, about) ==
  /\ CanWrite(u)
  /\ ~ConflictingLock(u, design, content)
  /\ Publish(u, content, kind, about)
  /\ Answer(u, content)
  /\ \/ kind = "design.updated" /\ about = Nothing /\ UNCHANGED operations
     \/ /\ kind = "operation.applied" /\ about \in OpIds
        /\ operations[about] = 0
        /\ operations' = [operations EXCEPT ![about] = revision + 1]

(* A save waiting for its transaction names a version its author was given. *)
SavesFromCopies ==
  \A h \in Handlers :
    handler[h].pc = "patch" /\ handler[h].save
      => handler[h].base \in Revision /\ handler[h].base <= draft[handler[h].actor].rev

CopyInv == TypeOK /\ CopiesAreHistorical /\ SavesFromCopies

-----------------------------------------------------------------------------
LEMMA EventFields ==
  ASSUME NEW e \in Event
  PROVE  /\ e.rev \in Revision /\ e.actor \in Users
         /\ e.about \in OpIds \cup SnapIds \cup {Nothing}
  BY DEF Event

LEMMA EmitsOther ==
  ASSUME NEW kind \in {"snapshot.created", "lock.updated", "member.updated"}, NEW rev \in Revision,
         NEW actor \in Users, NEW about \in OpIds \cup SnapIds \cup {Nothing},
         Emit(kind, rev, actor, about)
  PROVE  OtherEvent
  <1> DEFINE e == [kind |-> kind, rev |-> rev, actor |-> actor, about |-> about]
  <1>1. e \in Event /\ e.kind \notin DesignKind
    BY DEF Event, DesignKind
  <1>2. events' = Append(events, e)
    BY DEF Emit
  <1> HIDE DEF e
  <1> QED BY <1>1, <1>2 DEF OtherEvent

LEMMA NotifiesOther ==
  ASSUME NEW kind \in {"snapshot.created", "lock.updated", "member.updated"}, NEW rev \in Revision,
         NEW actor \in Users, NEW about \in OpIds \cup SnapIds \cup {Nothing},
         Notify(kind, rev, actor, about)
  PROVE  OtherEvent
  <1>1. CASE Emit(kind, rev, actor, about)
    BY <1>1, EmitsOther
  <1>2. CASE UNCHANGED events
    BY <1>2 DEF OtherEvent
  <1> QED BY <1>1, <1>2 DEF Notify

(* A PATCH commits as a write of its author or as a touch. *)
LEMMA PatchKind ==
  ASSUME CopyInv, NEW h \in Handlers, PatchCommit(h)
  PROVE  \/ Touching
         \/ \E u \in Users, content \in Design :
              draft[u].rev = revision /\ Writing(u, content, "design.updated", Nothing)
  <1> DEFINE r == handler[h]
  <1>1. r \in PatchStep
    BY HandlerStates DEF PatchCommit, CopyInv, TypeOK
  <1>2. r.actor \in Users /\ r.next \in Design
    BY <1>1 DEF PatchStep
  <1>3. CASE r.save
    <2>1. r.base \in Revision /\ r.base <= draft[r.actor].rev
      BY <1>3 DEF PatchCommit, CopyInv, SavesFromCopies
    <2>2. r.base = revision
      BY <2>1, DocumentAssumption DEF PatchCommit, MayPatch, NoBase, Revision
    <2>3. draft[r.actor].rev \in Revision /\ draft[r.actor].rev <= revision
      BY <1>2 DEF CopyInv, TypeOK, Draft, CopiesAreHistorical
    <2>4. draft[r.actor].rev = revision
      BY <2>1, <2>2, <2>3, DocumentAssumption DEF Revision
    <2>5. Writing(r.actor, r.next, "design.updated", Nothing)
      BY <1>3 DEF PatchCommit, MayPatch, Writing
    <2> QED BY <1>2, <2>4, <2>5
  <1>4. CASE ~r.save
    <2>1. Publish(r.actor, design, "snapshot.created", Nothing) /\ UNCHANGED <<draft, operations>>
      BY <1>4 DEF PatchCommit
    <2>2. revision + 1 \in Revision
      BY <2>1, NextRevision DEF Publish, CopyInv
    <2>3. OtherEvent
      BY <1>2, <2>1, <2>2, EmitsOther DEF Publish
    <2> QED BY <2>1, <2>3 DEF Touching, Publish
  <1> QED BY <1>3, <1>4

LEMMA HandlerKind ==
  ASSUME TypeOK, NEW h \in Handlers,
         ReadRevision(h) \/ Announce(h) \/ Stop(h) \/ \E s \in SnapIds : SnapshotInsert(h, s)
  PROVE  Quiet
  <1>1. CASE Announce(h)
    <2> DEFINE e == handler[h].event
    <2>1. handler[h] \in AnnounceStep
      BY <1>1, HandlerStates DEF Announce, TypeOK
    <2>2. e \in Event /\ e.kind \notin DesignKind
      BY <2>1 DEF AnnounceStep
    <2>3. e.kind \in {"snapshot.created", "lock.updated", "member.updated"}
      BY <2>2 DEF Event
    <2>4. OtherEvent
      BY <1>1, <2>2, <2>3, EventFields, NotifiesOther DEF Announce
    <2> QED BY <1>1, <2>4 DEF Announce, Quiet
  <1>2. CASE ReadRevision(h) \/ Stop(h) \/ \E s \in SnapIds : SnapshotInsert(h, s)
    BY <1>2 DEF ReadRevision, Stop, SnapshotInsert, Quiet, OtherEvent, docVars
  <1> QED BY <1>1, <1>2

LEMMA StepKinds ==
  ASSUME CopyInv, [Next]_vars
  PROVE  \/ Quiet
         \/ Touching
         \/ \E u \in Users, content \in Design, kind \in DesignKind, about \in OpIds \cup {Nothing} :
              draft[u].rev = revision /\ Writing(u, content, kind, about)
  <1> USE DEF CopyInv
  <1>1. CASE UNCHANGED vars
    BY <1>1 DEF vars, docVars, Quiet, OtherEvent
  <1>2. CASE \E u \in Users : ReadProject(u)
    BY <1>2 DEF ReadProject, Quiet, OtherEvent
  <1>3. CASE \E u \in Users : BindProject(u)
    BY <1>3 DEF BindProject, Touching, OtherEvent
  <1>4. CASE \E h \in Handlers : PatchCommit(h)
    BY <1>4, PatchKind DEF DesignKind
  <1>5. CASE \E u \in Users, id \in OpIds, o \in Objects, value \in Values \cup {Absent} :
               ApplyOperation(u, id, o, value)
    <2>1. PICK u \in Users, id \in OpIds, o \in Objects, value \in Values \cup {Absent} :
                 ApplyOperation(u, id, o, value)
      BY <1>5
    <2> DEFINE next == [design EXCEPT ![o] = value]
    <2>2. next \in Design
      BY DEF TypeOK, Design
    <2>3. draft[u].rev = revision /\ Writing(u, next, "operation.applied", id)
      BY <2>1 DEF ApplyOperation, Writing
    <2> HIDE DEF next
    <2> QED BY <2>2, <2>3 DEF DesignKind
  <1>6. CASE \E u \in Users, s \in SnapIds : RestoreSnapshot(u, s)
    <2>1. PICK u \in Users, s \in SnapIds : RestoreSnapshot(u, s)
      BY <1>6
    <2> DEFINE content == snapshots[s].content
    <2>2. content \in Design
      BY DEF TypeOK, Snapshot, NoSnapshot, Blank, Design
    <2>3. draft[u].rev = revision /\ Writing(u, content, "design.updated", Nothing)
      BY <2>1 DEF RestoreSnapshot, Writing
    <2> HIDE DEF content
    <2> QED BY <2>2, <2>3 DEF DesignKind
  <1>7. CASE \E u \in Users, k \in LockKey, ttl \in 1..LongestTtl : LockObject(u, k, ttl)
    <2>1. PICK u \in Users, k \in LockKey, ttl \in 1..LongestTtl : LockObject(u, k, ttl)
      BY <1>7
    <2>2. OtherEvent
      BY <2>1, NotifiesOther DEF LockObject, TypeOK
    <2> QED BY <2>1, <2>2 DEF LockObject, Quiet
  <1>8. CASE \E h \in Handlers : \/ ReadRevision(h) \/ Announce(h) \/ Stop(h)
                               \/ \E s \in SnapIds : SnapshotInsert(h, s)
    BY <1>8, HandlerKind
  <1>9. CASE \/ \E h \in Handlers, u \in Users :
                  \/ PatchBegin(h, u)
                  \/ \E s \in SnapIds : SnapshotBegin(h, u, s)
                  \/ \E k \in LockKey : UnlockBegin(h, u, k)
                  \/ \E target \in Users, role \in MemberRole : MemberBegin(h, u, target, role)
             \/ \E h \in Handlers : PatchRefused(h) \/ UnlockDelete(h) \/ InviteUpsert(h)
                                      \/ SetRoleUpdate(h) \/ RemoveDelete(h) \/ DropMemberLocks(h)
             \/ \E actor \in Users, target \in Users, role \in OrgRole \ {"owner"} :
                  ChangeTenant(actor, target, role)
             \/ ListLocks \/ EntitlementChanges \/ TimePasses
    <2>1. UNCHANGED docVars
      BY <1>9 DEF PatchBegin, SnapshotBegin, UnlockBegin, MemberBegin, PatchRefused, UnlockDelete,
        InviteUpsert, SetRoleUpdate, RemoveDelete, DropMemberLocks, ChangeTenant, ListLocks,
        EntitlementChanges, TimePasses
    <2> QED BY <2>1 DEF docVars, Quiet, OtherEvent
  <1> QED BY <1>1, <1>2, <1>3, <1>4, <1>5, <1>6, <1>7, <1>8, <1>9 DEF Next, Requests

-----------------------------------------------------------------------------
(***************************************************************************)
(* Copies.  Drafts only ever move to the current or the next version, and   *)
(* the versions already published are never written again.                 *)
(***************************************************************************)
LEMMA CopiesStep ==
  ASSUME CopyInv, [Next]_vars
  PROVE  /\ CopiesAreHistorical'
         /\ \A u \in Users : draft'[u].rev >= draft[u].rev
  <1> USE DocumentAssumption DEF CopyInv
  <1>1. \A u \in Users : draft[u].rev \in Revision /\ draft[u].rev <= revision
    BY DEF TypeOK, Draft, CopiesAreHistorical
  <1>2. revision \in Nat /\ \A r \in Revision : r \in Int
    BY DEF TypeOK, Revision
  <1>3. CASE Quiet
    <2>1. UNCHANGED <<revision, design, history>>
      BY <1>3 DEF Quiet
    <2>2. \A v \in Users : \/ draft'[v] = draft[v]
                          \/ draft'[v] = [rev |-> revision, design |-> design]
      BY <1>3 DEF Quiet, TypeOK
    <2>3. \A v \in Users : /\ draft'[v].rev <= revision /\ draft'[v].rev >= draft[v].rev
                          /\ draft'[v].design = history[draft'[v].rev]
      <3> TAKE v \in Users
      <3>1. CASE draft'[v] = draft[v]
        BY <1>1, <1>2, <3>1 DEF CopiesAreHistorical
      <3>2. CASE draft'[v] = [rev |-> revision, design |-> design]
        BY <1>1, <1>2, <3>2 DEF CopiesAreHistorical
      <3> QED BY <2>2, <3>1, <3>2
    <2> QED BY <2>1, <2>3 DEF CopiesAreHistorical
  <1>4. CASE Touching
    <2>1. revision + 1 \in Revision
      BY <1>4, NextRevision DEF Touching
    <2>2. history'[revision'] = design' /\ \A r \in Revision : r <= revision => history'[r] = history[r]
      BY <1>2, <1>4, <2>1 DEF Touching, TypeOK
    <2> QED BY <1>1, <1>2, <1>4, <2>2 DEF Touching, CopiesAreHistorical
  <1>5. CASE \E u \in Users, content \in Design, kind \in DesignKind, about \in OpIds \cup {Nothing} :
               draft[u].rev = revision /\ Writing(u, content, kind, about)
    <2>1. PICK u \in Users, content \in Design, kind \in DesignKind, about \in OpIds \cup {Nothing} :
                 Writing(u, content, kind, about)
      BY <1>5
    <2>2. revision' = revision + 1 /\ revision + 1 \in Revision
      BY <2>1, NextRevision DEF Writing, Publish
    <2>3. design' = content /\ history'[revision + 1] = content
            /\ \A r \in Revision : r <= revision => history'[r] = history[r]
      BY <1>2, <2>1, <2>2 DEF Writing, Publish, TypeOK
    <2>4. \A v \in Users : \/ draft'[v] = draft[v]
                          \/ draft'[v] = [rev |-> revision + 1, design |-> content]
      BY <2>1 DEF Writing, Answer, TypeOK
    <2>5. \A v \in Users : /\ draft'[v].rev <= revision' /\ draft'[v].rev >= draft[v].rev
                          /\ draft'[v].design = history'[draft'[v].rev]
      <3> TAKE v \in Users
      <3>1. CASE draft'[v] = draft[v]
        BY <1>1, <1>2, <2>2, <2>3, <3>1 DEF CopiesAreHistorical
      <3>2. CASE draft'[v] = [rev |-> revision + 1, design |-> content]
        BY <1>1, <1>2, <2>2, <2>3, <3>2
      <3> QED BY <2>4, <3>1, <3>2
    <2> QED BY <2>2, <2>3, <2>5 DEF CopiesAreHistorical
  <1> QED BY <1>3, <1>4, <1>5, StepKinds

(* Handlers that are at "patch" after a step were there before, or have just *)
(* been admitted from the draft.                                            *)
LEMMA PatchOrigin ==
  ASSUME TypeOK, [Next]_vars, NEW h \in Handlers, handler'[h].pc = "patch", handler'[h].save
  PROVE  \/ handler'[h] = handler[h]
         \/ /\ handler'[h].actor \in Users
            /\ handler'[h].base = draft[handler'[h].actor].rev
            /\ UNCHANGED draft
  <1> USE DEF Goto, Idle, MemberUpdated
  <1>1. handler \in [Handlers -> HandlerState]
    BY DEF TypeOK
  <1>2. CASE \E g \in Handlers, u \in Users : PatchBegin(g, u)
    BY <1>1, <1>2 DEF PatchBegin, docVars
  <1>3. CASE \E g \in Handlers, u \in Users, s \in SnapIds : SnapshotBegin(g, u, s)
    BY <1>1, <1>3 DEF SnapshotBegin
  <1>4. CASE \E g \in Handlers, u \in Users, k \in LockKey : UnlockBegin(g, u, k)
    BY <1>1, <1>4 DEF UnlockBegin
  <1>5. CASE \E g \in Handlers, u \in Users, target \in Users, role \in MemberRole :
               MemberBegin(g, u, target, role)
    BY <1>1, <1>5 DEF MemberBegin
  <1>6. CASE \E g \in Handlers : \/ PatchCommit(g) \/ PatchRefused(g) \/ UnlockDelete(g)
                               \/ \E s \in SnapIds : SnapshotInsert(g, s)
    BY <1>1, <1>6 DEF PatchCommit, PatchRefused, SnapshotInsert, UnlockDelete
  <1>7. CASE \E g \in Handlers : InviteUpsert(g) \/ SetRoleUpdate(g) \/ RemoveDelete(g)
                                  \/ DropMemberLocks(g)
    BY <1>1, <1>7 DEF InviteUpsert, SetRoleUpdate, RemoveDelete, DropMemberLocks
  <1>8. CASE \E g \in Handlers : ReadRevision(g) \/ Announce(g) \/ Stop(g)
    BY <1>1, <1>8 DEF ReadRevision, Announce, Stop
  <1>9. CASE UNCHANGED handler
    BY <1>9
  <1>10. CASE \/ \E u \in Users : ReadProject(u) \/ BindProject(u)
              \/ \E u \in Users, id \in OpIds, o \in Objects, value \in Values \cup {Absent} :
                   ApplyOperation(u, id, o, value)
              \/ \E u \in Users, s \in SnapIds : RestoreSnapshot(u, s)
              \/ \E u \in Users, k \in LockKey, ttl \in 1..LongestTtl : LockObject(u, k, ttl)
              \/ \E actor \in Users, target \in Users, role \in OrgRole \ {"owner"} :
                   ChangeTenant(actor, target, role)
              \/ ListLocks \/ EntitlementChanges \/ TimePasses \/ UNCHANGED vars
    <2>1. UNCHANGED handler
      BY <1>10 DEF ReadProject, BindProject, ApplyOperation, RestoreSnapshot, LockObject,
         ChangeTenant, ListLocks, EntitlementChanges, TimePasses, vars
    <2> QED BY <2>1
  <1> QED BY <1>2, <1>3, <1>4, <1>5, <1>6, <1>7, <1>8, <1>9, <1>10 DEF Next, Requests

LEMMA CopyInvInit == Init => CopyInv
  <1> SUFFICES ASSUME Init PROVE CopyInv
    OBVIOUS
  <1>1. CopiesAreHistorical
    BY DocumentAssumption DEF Init, CopiesAreHistorical, Revision
  <1>2. SavesFromCopies
    BY DEF Init, SavesFromCopies, Idle
  <1> QED BY <1>1, <1>2, TypeInit DEF CopyInv

LEMMA CopyInvStep == CopyInv /\ [Next]_vars => CopyInv'
  <1> SUFFICES ASSUME CopyInv, [Next]_vars PROVE CopyInv'
    OBVIOUS
  <1>1. TypeOK /\ TypeOK'
    BY TypeStep DEF CopyInv
  <1>2. CopiesAreHistorical' /\ \A u \in Users : draft'[u].rev >= draft[u].rev
    BY CopiesStep
  <1>3. SavesFromCopies'
    <2> SUFFICES ASSUME NEW h \in Handlers, handler'[h].pc = "patch", handler'[h].save
                 PROVE  /\ handler'[h].base \in Revision
                        /\ handler'[h].base <= draft'[handler'[h].actor].rev
      BY DEF SavesFromCopies
    <2>1. handler'[h].actor \in Users
      BY <1>1, HandlerStates DEF TypeOK, PatchStep
    <2>2. \A u \in Users : draft[u].rev \in Revision /\ draft'[u].rev \in Revision
      BY <1>1 DEF TypeOK, Draft
    <2>3. CASE handler'[h] = handler[h]
      <3>1. handler[h].base \in Revision /\ handler[h].base <= draft[handler[h].actor].rev
        BY <2>3 DEF CopyInv, SavesFromCopies
      <3> QED BY <1>2, <2>1, <2>2, <2>3, <3>1, DocumentAssumption DEF Revision
    <2>4. CASE handler'[h].base = draft[handler'[h].actor].rev /\ UNCHANGED draft
      BY <2>1, <2>2, <2>4, DocumentAssumption DEF Revision
    <2> QED BY <1>1, <2>3, <2>4, PatchOrigin
  <1> QED BY <1>1, <1>2, <1>3 DEF CopyInv

THEOREM CopyInvariant == Spec => []CopyInv
  BY CopyInvInit, CopyInvStep, PTL DEF Spec

(* What a client holds for revision r is what the document was at revision  *)
(* r, for any number of users, requests and objects.                        *)
THEOREM CopiesCorrect == Spec => []CopiesAreHistorical
  <1>1. CopyInv => CopiesAreHistorical
    BY DEF CopyInv
  <1> QED BY <1>1, CopyInvariant, PTL

-----------------------------------------------------------------------------
(***************************************************************************)
(* The feed.                                                               *)
(***************************************************************************)
LEMMA FeedAfterOther ==
  ASSUME TypeOK, OtherEvent
  PROVE  Feed' = Feed
  <1>1. CASE UNCHANGED events
    BY <1>1 DEF Feed, DesignEvent
  <1>2. CASE \E e \in Event : e.kind \notin DesignKind /\ events' = Append(events, e)
    <2>1. PICK e \in Event : e.kind \notin DesignKind /\ events' = Append(events, e)
      BY <1>2
    <2>2. Len(events) \in Nat /\ Len(events') = Len(events) + 1
            /\ events'[Len(events) + 1] = e
            /\ \A i \in 1..Len(events) : events'[i] = events[i]
      BY <2>1 DEF TypeOK
    <2>3. \A i \in 1..Len(events') : DesignEvent(i)' => i \in 1..Len(events)
      BY <2>1, <2>2 DEF DesignEvent
    <2>4. \A i \in 1..Len(events) : i \in 1..Len(events') /\ (DesignEvent(i)' <=> DesignEvent(i))
      BY <2>2 DEF DesignEvent
    <2> QED BY <2>2, <2>3, <2>4 DEF Feed
  <1> QED BY <1>1, <1>2 DEF OtherEvent

LEMMA FeedAfterWrite ==
  ASSUME TypeOK, NEW u \in Users, NEW content \in Design, NEW kind \in DesignKind,
         NEW about \in OpIds \cup {Nothing}, Publish(u, content, kind, about)
  PROVE  Feed' = Feed \cup {revision + 1}
  <1> DEFINE e == [kind |-> kind, rev |-> revision + 1, actor |-> u, about |-> about]
  <1>1. events' = Append(events, e) /\ revision + 1 \in Revision
    BY NextRevision DEF Publish, Emit
  <1>2. e \in Event /\ e.rev = revision + 1 /\ e.kind \in DesignKind
    BY <1>1 DEF Event
  <1> HIDE DEF e
  <1>3. Len(events) \in Nat /\ Len(events') = Len(events) + 1
          /\ events'[Len(events) + 1] = e
          /\ \A i \in 1..Len(events) : events'[i] = events[i]
    BY <1>1, <1>2 DEF TypeOK
  <1>4. \A i \in 1..Len(events) : i \in 1..Len(events') /\ (DesignEvent(i)' <=> DesignEvent(i))
    BY <1>3 DEF DesignEvent
  <1>5. /\ Len(events) + 1 \in 1..Len(events')
        /\ \A i \in 1..Len(events') : i = Len(events) + 1 => DesignEvent(i)'
    BY <1>2, <1>3 DEF DesignEvent
  <1>6. \A i \in 1..Len(events') : i \in 1..Len(events) \/ i = Len(events) + 1
    BY <1>3
  <1> QED BY <1>2, <1>3, <1>4, <1>5, <1>6 DEF Feed

(***************************************************************************)
(* Refinement of the versioned document.                                   *)
(***************************************************************************)
LEMMA VersionedInit == Init => VD!Init
  <1> SUFFICES ASSUME Init PROVE VD!Init
    OBVIOUS
  <1>1. Feed = {}
    BY DEF Init, Feed, DesignEvent
  <1> QED BY <1>1 DEF Init, VD!Init, Revision

LEMMA VersionedStep == CopyInv /\ [Next]_vars => [VD!Next]_VD!vars
  <1> SUFFICES ASSUME CopyInv, [Next]_vars PROVE VD!Next \/ UNCHANGED VD!vars
    OBVIOUS
  <1> DEFINE copy == [u \in Users |-> draft[u].rev]
  <1>1. TypeOK
    BY DEF CopyInv
  <1>2. CASE Quiet
    <2>1. Feed' = Feed
      BY <1>1, <1>2, FeedAfterOther DEF Quiet
    <2>2. CASE UNCHANGED draft
      BY <1>2, <2>1, <2>2 DEF Quiet, VD!vars
    <2>3. CASE \E u \in Users : draft' = [draft EXCEPT ![u] = [rev |-> revision, design |-> design]]
      <3>1. PICK u \in Users : draft' = [draft EXCEPT ![u] = [rev |-> revision, design |-> design]]
        BY <2>3
      <3>2. copy' = [copy EXCEPT ![u] = revision]
        BY <1>1, <3>1 DEF TypeOK
      <3> QED BY <1>2, <2>1, <3>2 DEF Quiet, VD!Next, VD!Read
    <2> QED BY <1>2, <2>2, <2>3 DEF Quiet
  <1>3. CASE Touching
    <2>1. Feed' = Feed
      BY <1>1, <1>3, FeedAfterOther DEF Touching
    <2>2. design = history[revision] /\ copy' = copy
      BY <1>3 DEF CopyInv, CopiesAreHistorical, Touching
    <2> QED BY <1>3, <2>1, <2>2 DEF Touching, VD!Next, VD!Touch
  <1>4. CASE \E u \in Users, content \in Design, kind \in DesignKind, about \in OpIds \cup {Nothing} :
               draft[u].rev = revision /\ Writing(u, content, kind, about)
    <2>1. PICK u \in Users, content \in Design, kind \in DesignKind, about \in OpIds \cup {Nothing} :
                 draft[u].rev = revision /\ Writing(u, content, kind, about)
      BY <1>4
    <2>2. Feed' = Feed \cup {revision + 1}
      BY <1>1, <2>1, FeedAfterWrite DEF Writing
    <2>3. copy' \in {copy, [copy EXCEPT ![u] = revision + 1]}
      <3>1. CASE UNCHANGED draft
        BY <3>1
      <3>2. CASE draft' = [draft EXCEPT ![u] = [rev |-> revision + 1, design |-> content]]
        BY <1>1, <3>2 DEF TypeOK
      <3> QED BY <2>1, <3>1, <3>2 DEF Writing, Answer
    <2>4. VD!Write(u, content)
      BY <2>1, <2>2, <2>3 DEF VD!Write, Writing, Publish
    <2> QED BY <2>4 DEF VD!Next
  <1> QED BY <1>2, <1>3, <1>4, StepKinds

(* The document with all its routes, leases, members and partial requests    *)
(* implements the versioned document: nobody's new content replaces a        *)
(* version its author did not start from, and each is announced as it        *)
(* appears.                                                                 *)
THEOREM ImplementsVersioned == Spec => Versioned
  BY CopyInvariant, VersionedInit, VersionedStep, PTL DEF Spec, Versioned, VD!Spec

-----------------------------------------------------------------------------
(***************************************************************************)
(* Leases and write access at the moment of the commit.                    *)
(***************************************************************************)
LEMMA CommitStep ==
  ASSUME CopyInv, [Next]_vars, design' # design
  PROVE  \E u \in Users : /\ CanWrite(u)
                         /\ ~ConflictingLock(u, design, design')
                         /\ events'[Len(events')].actor = u
  <1>1. ~Quiet /\ ~Touching
    BY DEF Quiet, Touching
  <1>2. PICK u \in Users, content \in Design, kind \in DesignKind, about \in OpIds \cup {Nothing} :
               Writing(u, content, kind, about)
    BY <1>1, StepKinds
  <1>3. design' = content /\ CanWrite(u) /\ ~ConflictingLock(u, design, content)
    BY <1>2 DEF Writing, Publish
  <1> DEFINE e == [kind |-> kind, rev |-> revision + 1, actor |-> u, about |-> about]
  <1>4. events' = Append(events, e) /\ revision + 1 \in Revision
    BY <1>2, NextRevision DEF Writing, Publish, Emit, CopyInv
  <1>5. e \in Event /\ e.actor = u
    BY <1>4 DEF Event
  <1> HIDE DEF e
  <1>6. events'[Len(events')] = e
    BY <1>4, <1>5 DEF CopyInv, TypeOK
  <1> QED BY <1>3, <1>5, <1>6

(* Leases keep every writing route of everybody else off what they protect. *)
THEOREM LeasesCorrect == Spec => LeasesProtect
  <1>1. CopyInv /\ [Next]_vars =>
          [\A k \in LockKey :
             Live(k) /\ design' # design /\ Protects(k, design, design')
               => events'[Len(events')].actor = locks[k].user]_vars
    <2> SUFFICES ASSUME CopyInv, [Next]_vars, NEW k \in LockKey,
                        Live(k), design' # design, Protects(k, design, design')
                 PROVE  events'[Len(events')].actor = locks[k].user
      OBVIOUS
    <2>1. PICK u \in Users : ~ConflictingLock(u, design, design') /\ events'[Len(events')].actor = u
      BY CommitStep
    <2>2. HeldBy(k, u)
      BY <2>1 DEF ConflictingLock
    <2> QED BY <2>1, <2>2 DEF HeldBy
  <1> QED BY <1>1, CopyInvariant, PTL DEF Spec, LeasesProtect

(* Whoever changes the design may write when the change is committed, not    *)
(* only when the request was admitted.                                      *)
THEOREM WritersCorrect == Spec => WritersMayWrite
  <1>1. CopyInv /\ [Next]_vars =>
          [design' # design => CanWrite(events'[Len(events')].actor)]_vars
    BY CommitStep
  <1> QED BY <1>1, CopyInvariant, PTL DEF Spec, WritersMayWrite

-----------------------------------------------------------------------------
(***************************************************************************)
(* The event table.  Stored events never change; what a step appends is no  *)
(* design event, or announces the version the step publishes.              *)
(***************************************************************************)
LEMMA Appended ==
  ASSUME TypeOK, NEW e \in Event, events' = Append(events, e)
  PROVE  /\ Len(events) \in Nat /\ Len(events') = Len(events) + 1
         /\ events'[Len(events) + 1] = e
         /\ \A i \in 1..Len(events) : events'[i] = events[i]
  BY DEF TypeOK

LEMMA EventsAfterOther ==
  ASSUME TypeOK, OtherEvent
  PROVE  /\ Len(events) \in Nat /\ Len(events') \in Nat /\ Len(events) <= Len(events')
         /\ \A i \in 1..Len(events) : events'[i] = events[i]
         /\ \A i \in 1..Len(events') : events'[i].kind \in DesignKind => i \in 1..Len(events)
  <1>1. CASE UNCHANGED events
    BY <1>1 DEF TypeOK
  <1>2. CASE \E e \in Event : e.kind \notin DesignKind /\ events' = Append(events, e)
    BY <1>2, Appended
  <1> QED BY <1>1, <1>2 DEF OtherEvent

LEMMA EventsAfterWrite ==
  ASSUME TypeOK, NEW u \in Users, NEW content \in Design, NEW kind \in DesignKind,
         NEW about \in OpIds \cup {Nothing}, Publish(u, content, kind, about)
  PROVE  /\ Len(events) \in Nat /\ Len(events') = Len(events) + 1
         /\ \A i \in 1..Len(events) : events'[i] = events[i]
         /\ events'[Len(events')] =
              [kind |-> kind, rev |-> revision + 1, actor |-> u, about |-> about]
  <1> DEFINE e == [kind |-> kind, rev |-> revision + 1, actor |-> u, about |-> about]
  <1>1. events' = Append(events, e) /\ revision + 1 \in Revision
    BY NextRevision DEF Publish, Emit
  <1>2. e \in Event
    BY <1>1 DEF Event
  <1> HIDE DEF e
  <1> USE <1>1, <1>2, Appended
  <1>3. Len(events) \in Nat /\ Len(events') = Len(events) + 1
          /\ \A i \in 1..Len(events) : events'[i] = events[i]
    OBVIOUS
  <1>4. events'[Len(events')] = e
    OBVIOUS
  <1> QED BY <1>3, <1>4 DEF e

(* No design event names a version that does not exist yet. *)
FeedInv ==
  /\ CopyInv
  /\ \A i \in 1..Len(events) : DesignEvent(i) => events[i].rev <= revision
  /\ DesignEventsIncrease
  /\ NewContentAnnounced

LEMMA FeedInvInit == Init => FeedInv
  <1> SUFFICES ASSUME Init PROVE FeedInv
    OBVIOUS
  <1>1. events = <<>> /\ revision = 0
    BY DEF Init
  <1>2. (1..Len(events)) = {} /\ (1..revision) = {}
    BY <1>1
  <1> QED BY <1>2, CopyInvInit DEF FeedInv, DesignEventsIncrease, NewContentAnnounced

LEMMA FeedInvStep == FeedInv /\ [Next]_vars => FeedInv'
  <1> SUFFICES ASSUME FeedInv, [Next]_vars PROVE FeedInv'
    OBVIOUS
  <1>1. CopyInv /\ CopyInv' /\ TypeOK
    BY CopyInvStep DEF FeedInv, CopyInv
  <1>2. revision \in Nat /\ \A i \in 1..Len(events) : events[i].rev \in Nat
    <2>1. \A i \in 1..Len(events) : events[i] \in Event
      BY <1>1 DEF TypeOK
    <2>2. \A r \in Revision : r \in Nat
      BY DocumentAssumption DEF Revision
    <2> QED BY <1>1, <2>1, <2>2, EventFields DEF TypeOK
  <1>3. ASSUME OtherEvent, revision' \in {revision, revision + 1},
               \A r \in 1..revision' : history'[r] # history'[r - 1] =>
                  r <= revision /\ history[r] # history[r - 1]
        PROVE  FeedInv'
    <2>1. /\ Len(events) \in Nat /\ Len(events') \in Nat /\ Len(events) <= Len(events')
          /\ \A i \in 1..Len(events) : events'[i] = events[i]
          /\ \A i \in 1..Len(events') : events'[i].kind \in DesignKind => i \in 1..Len(events)
      BY <1>1, <1>3, EventsAfterOther
    <2>2. (\A i \in 1..Len(events) : DesignEvent(i) => events[i].rev <= revision)'
      BY <1>2, <1>3, <2>1 DEF FeedInv, DesignEvent
    <2>3. DesignEventsIncrease'
      BY <2>1 DEF FeedInv, DesignEventsIncrease, DesignEvent
    <2>4. NewContentAnnounced'
      <3> SUFFICES ASSUME NEW r \in 1..revision', history'[r] # history'[r - 1]
                   PROVE  \E i \in 1..Len(events') :
                            events'[i].kind \in DesignKind /\ events'[i].rev = r
        BY DEF NewContentAnnounced, DesignEvent
      <3>1. r \in 1..revision /\ history[r] # history[r - 1]
        BY <1>2, <1>3
      <3>2. PICK i \in 1..Len(events) : events[i].kind \in DesignKind /\ events[i].rev = r
        BY <3>1 DEF FeedInv, NewContentAnnounced, DesignEvent
      <3>3. i \in 1..Len(events') /\ events'[i] = events[i]
        BY <2>1
      <3> QED BY <3>2, <3>3
    <2> QED BY <1>1, <2>2, <2>3, <2>4 DEF FeedInv
  <1>4. CASE Quiet
    BY <1>2, <1>3, <1>4 DEF Quiet
  <1>5. CASE Touching
    <2>1. revision + 1 \in Revision /\ history' = [history EXCEPT ![revision + 1] = design]
            /\ revision' = revision + 1
      BY <1>1, <1>5, NextRevision DEF Touching
    <2>2. history'[revision + 1] = design /\ design = history[revision]
            /\ \A r \in 0..revision : history'[r] = history[r]
      BY <1>1, <1>2, <2>1 DEF CopyInv, CopiesAreHistorical, TypeOK, Revision
    <2>3. ASSUME NEW r \in 1..revision', history'[r] # history'[r - 1]
          PROVE  r <= revision /\ history[r] # history[r - 1]
      <3>1. CASE r = revision + 1
        BY <1>2, <2>2, <2>3, <3>1
      <3>2. CASE r \in 1..revision
        <4>1. r \in 0..revision /\ r - 1 \in 0..revision
          BY <1>2, <3>2
        <4> QED BY <2>2, <2>3, <3>2, <4>1
      <3> QED BY <1>2, <2>1, <3>1, <3>2
    <2> QED BY <1>3, <1>5, <2>1, <2>3 DEF Touching
  <1>6. CASE \E u \in Users, content \in Design, kind \in DesignKind, about \in OpIds \cup {Nothing} :
               draft[u].rev = revision /\ Writing(u, content, kind, about)
    <2>1. PICK u \in Users, content \in Design, kind \in DesignKind, about \in OpIds \cup {Nothing} :
                 Publish(u, content, kind, about)
      BY <1>6 DEF Writing
    <2>2. /\ Len(events) \in Nat /\ Len(events') = Len(events) + 1
          /\ \A i \in 1..Len(events) : events'[i] = events[i]
          /\ events'[Len(events')] =
               [kind |-> kind, rev |-> revision + 1, actor |-> u, about |-> about]
      BY <1>1, <2>1, EventsAfterWrite
    <2>3. \A i \in 1..Len(events') : i \in 1..Len(events) \/ i = Len(events')
      BY <2>2
    <2>4. events'[Len(events')].rev = revision + 1 /\ events'[Len(events')].kind \in DesignKind
      BY <2>2
    <2>5. revision' = revision + 1 /\ revision + 1 \in Revision
            /\ history' = [history EXCEPT ![revision + 1] = content]
      BY <1>1, <2>1, NextRevision DEF Publish
    <2>6. (\A i \in 1..Len(events) : DesignEvent(i) => events[i].rev <= revision)'
      BY <1>2, <2>2, <2>3, <2>4, <2>5 DEF FeedInv, DesignEvent
    <2>7. DesignEventsIncrease'
      <3> SUFFICES ASSUME NEW i \in 1..Len(events'), NEW j \in 1..Len(events'), i < j,
                          events'[i].kind \in DesignKind, events'[j].kind \in DesignKind
                   PROVE  events'[i].rev < events'[j].rev
        BY DEF DesignEventsIncrease, DesignEvent
      <3>1. i \in 1..Len(events) /\ events'[i] = events[i]
        BY <2>2
      <3>2. events[i].rev <= revision
        BY <3>1 DEF FeedInv, DesignEvent
      <3>3. CASE j = Len(events')
        BY <1>2, <2>4, <3>1, <3>2, <3>3
      <3>4. CASE j \in 1..Len(events)
        BY <2>2, <3>1, <3>4 DEF FeedInv, DesignEventsIncrease, DesignEvent
      <3> QED BY <2>3, <3>3, <3>4
    <2>8. NewContentAnnounced'
      <3> SUFFICES ASSUME NEW r \in 1..revision', history'[r] # history'[r - 1]
                   PROVE  \E i \in 1..Len(events') :
                            events'[i].kind \in DesignKind /\ events'[i].rev = r
        BY DEF NewContentAnnounced, DesignEvent
      <3>1. CASE r = revision + 1
        BY <2>2, <2>4, <3>1
      <3>2. CASE r \in 1..revision
        <4>1. history'[r] = history[r] /\ history'[r - 1] = history[r - 1]
          BY <1>1, <1>2, <2>5, <3>2 DEF TypeOK, Revision
        <4>2. PICK i \in 1..Len(events) : events[i].kind \in DesignKind /\ events[i].rev = r
          BY <3>2, <4>1 DEF FeedInv, NewContentAnnounced, DesignEvent
        <4>3. i \in 1..Len(events') /\ events'[i] = events[i]
          BY <2>2
        <4> QED BY <4>2, <4>3
      <3> QED BY <1>2, <2>5, <3>1, <3>2
    <2> QED BY <1>1, <2>6, <2>7, <2>8 DEF FeedInv
  <1> QED BY <1>1, <1>4, <1>5, <1>6, StepKinds

(* Stored design events name increasing revisions: an editor that ignores    *)
(* every event whose revision is not above the one it knows misses nothing.  *)
THEOREM FeedOrdered == Spec => []DesignEventsIncrease
  <1>1. FeedInv => DesignEventsIncrease
    BY DEF FeedInv
  <1> QED BY <1>1, FeedInvInit, FeedInvStep, PTL DEF Spec

(* Every version with new content has been announced. *)
THEOREM FeedComplete == Spec => []NewContentAnnounced
  <1>1. FeedInv => NewContentAnnounced
    BY DEF FeedInv
  <1> QED BY <1>1, FeedInvInit, FeedInvStep, PTL DEF Spec

(***************************************************************************)
(* Operations.                                                             *)
(***************************************************************************)
Applies(e, id) == e.kind = "operation.applied" /\ e.about = id

(* OperationsOnce without the set of events: no event for an id without a    *)
(* row, exactly one for an id with a row.                                   *)
OperationInv ==
  \A id \in OpIds :
    \/ operations[id] = 0 /\ \A i \in 1..Len(events) : ~Applies(events[i], id)
    \/ /\ operations[id] # 0
       /\ \E i \in 1..Len(events) :
            /\ Applies(events[i], id) /\ events[i].rev = operations[id]
            /\ \A j \in 1..Len(events) : Applies(events[j], id) => j = i

LEMMA OperationInvInit == Init => OperationInv
  <1> SUFFICES ASSUME Init PROVE OperationInv
    OBVIOUS
  <1>1. (1..Len(events)) = {}
    BY DEF Init
  <1> QED BY <1>1 DEF Init, OperationInv

LEMMA OperationInvStep == CopyInv /\ OperationInv /\ [Next]_vars => OperationInv'
  <1> SUFFICES ASSUME CopyInv, OperationInv, [Next]_vars, NEW id \in OpIds
               PROVE  \/ operations'[id] = 0 /\ \A i \in 1..Len(events') : ~Applies(events'[i], id)
                      \/ /\ operations'[id] # 0
                         /\ \E i \in 1..Len(events') :
                              /\ Applies(events'[i], id) /\ events'[i].rev = operations'[id]
                              /\ \A j \in 1..Len(events') : Applies(events'[j], id) => j = i
    BY DEF OperationInv, Applies
  <1>1. TypeOK
    BY DEF CopyInv
  <1>2. ASSUME \A i \in 1..Len(events) : i \in 1..Len(events') /\ events'[i] = events[i],
               \A i \in 1..Len(events') : Applies(events'[i], id) => i \in 1..Len(events),
               operations'[id] = operations[id]
        PROVE  \/ operations'[id] = 0 /\ \A i \in 1..Len(events') : ~Applies(events'[i], id)
               \/ /\ operations'[id] # 0
                  /\ \E i \in 1..Len(events') :
                       /\ Applies(events'[i], id) /\ events'[i].rev = operations'[id]
                       /\ \A j \in 1..Len(events') : Applies(events'[j], id) => j = i
    BY <1>2 DEF OperationInv
  <1>3. CASE Quiet \/ Touching
    <2>1. OtherEvent /\ operations' = operations
      BY <1>3 DEF Quiet, Touching
    <2>2. \A i \in 1..Len(events) : i \in 1..Len(events') /\ events'[i] = events[i]
      BY <1>1, <2>1, EventsAfterOther
    <2>3. \A i \in 1..Len(events') : Applies(events'[i], id) => i \in 1..Len(events)
      BY <1>1, <2>1, EventsAfterOther DEF Applies, DesignKind
    <2> QED BY <1>2, <2>1, <2>2, <2>3
  <1>4. CASE \E u \in Users, content \in Design, kind \in DesignKind, about \in OpIds \cup {Nothing} :
               draft[u].rev = revision /\ Writing(u, content, kind, about)
    <2>1. PICK u \in Users, content \in Design, kind \in DesignKind, about \in OpIds \cup {Nothing} :
                 Writing(u, content, kind, about)
      BY <1>4
    <2>2. /\ Len(events) \in Nat /\ Len(events') = Len(events) + 1
          /\ \A i \in 1..Len(events) : events'[i] = events[i]
          /\ events'[Len(events')] =
               [kind |-> kind, rev |-> revision + 1, actor |-> u, about |-> about]
      BY <1>1, <2>1, EventsAfterWrite DEF Writing
    <2>3. \A i \in 1..Len(events) : i \in 1..Len(events') /\ events'[i] = events[i]
      BY <2>2
    <2>4. \A i \in 1..Len(events') : i \in 1..Len(events) \/ i = Len(events')
      BY <2>2
    <2>5. CASE kind = "operation.applied" /\ about = id
      <3>1. operations[id] = 0 /\ operations'[id] = revision + 1 /\ revision + 1 # 0
        BY <1>1, <2>1, <2>5, NextRevision DEF Writing, Publish, TypeOK
      <3>2. \A i \in 1..Len(events) : ~Applies(events[i], id)
        BY <3>1 DEF OperationInv
      <3>3. Len(events') \in 1..Len(events') /\ Applies(events'[Len(events')], id)
              /\ events'[Len(events')].rev = operations'[id]
        BY <2>2, <2>5, <3>1 DEF Applies
      <3>4. \A j \in 1..Len(events') : Applies(events'[j], id) => j = Len(events')
        BY <2>3, <2>4, <3>2
      <3> QED BY <3>1, <3>3, <3>4
    <2>6. CASE ~(kind = "operation.applied" /\ about = id)
      <3>1. operations'[id] = operations[id]
        BY <1>1, <2>1, <2>6 DEF Writing, TypeOK
      <3>2. ~Applies(events'[Len(events')], id)
        BY <2>2, <2>6 DEF Applies
      <3> QED BY <1>2, <2>3, <2>4, <3>1, <3>2
    <2> QED BY <2>5, <2>6
  <1> QED BY <1>3, <1>4, StepKinds

(* An operation id takes effect at most once, however often it arrives. *)
THEOREM OperationsCorrect == Spec => []OperationsOnce
  <1>1. OperationInv => OperationsOnce
    <2> SUFFICES ASSUME OperationInv, NEW id \in OpIds
                 PROVE  LET Applied == {i \in 1..Len(events) : Applies(events[i], id)}
                        IN IF operations[id] = 0 THEN Applied = {}
                           ELSE \E i \in Applied : Applied = {i} /\ events[i].rev = operations[id]
      BY DEF OperationsOnce, Applies
    <2> DEFINE Applied == {i \in 1..Len(events) : Applies(events[i], id)}
    <2>1. CASE operations[id] = 0
      BY <2>1 DEF OperationInv
    <2>2. CASE operations[id] # 0
      <3>1. PICK i \in 1..Len(events) :
              /\ Applies(events[i], id) /\ events[i].rev = operations[id]
              /\ \A j \in 1..Len(events) : Applies(events[j], id) => j = i
        BY <2>2 DEF OperationInv
      <3>2. i \in Applied /\ Applied = {i}
        BY <3>1
      <3> QED BY <2>2, <3>1, <3>2
    <2> QED BY <2>1, <2>2
  <1>2. CopyInv /\ OperationInv /\ [Next]_vars => (CopyInv /\ OperationInv)'
    BY CopyInvStep, OperationInvStep
  <1>3. Init => CopyInv /\ OperationInv
    BY CopyInvInit, OperationInvInit
  <1> QED BY <1>1, <1>2, <1>3, PTL DEF Spec

-----------------------------------------------------------------------------
(***************************************************************************)
(* Named snapshots.  What a request has read, and what it announces, stays  *)
(* true while others publish versions: no version is written twice, and no  *)
(* two requests store a snapshot under one id.                             *)
(***************************************************************************)
OfVersion(content, rev) == rev <= revision /\ content = history[rev]

Truthful(e) ==
  e.about \in SnapIds =>
    /\ snapshots[e.about] # NoSnapshot
    /\ snapshots[e.about].from = "row" => OfVersion(snapshots[e.about].content, e.rev)

Taken(r) ==
  /\ snapshots[r.snap] = NoSnapshot
  /\ r.from = "row" => OfVersion(r.content, r.rev)

SnapshotInv ==
  /\ \A i \in 1..Len(events) : Truthful(events[i])
  /\ \A h \in Handlers : /\ handler[h].pc = "announce" => Truthful(handler[h].event)
                         /\ handler[h].pc = "snapshot" => Taken(handler[h])
  /\ \A g, h \in Handlers :
       handler[g].pc = "snapshot" /\ handler[h].pc = "snapshot" /\ handler[g].snap = handler[h].snap
         => g = h

LEMMA VersionsStay ==
  ASSUME CopyInv, [Next]_vars, NEW rev \in Revision, NEW content, OfVersion(content, rev)
  PROVE  OfVersion(content, rev)'
  <1> USE DocumentAssumption DEF OfVersion
  <1>1. revision \in Nat /\ rev \in Nat
    BY DEF CopyInv, TypeOK, Revision
  <1>2. CASE Quiet
    BY <1>1, <1>2 DEF Quiet
  <1>3. CASE Touching
    BY <1>1, <1>3 DEF Touching, CopyInv, TypeOK
  <1>4. CASE \E u \in Users, content_1 \in Design, kind \in DesignKind, about \in OpIds \cup {Nothing} :
               draft[u].rev = revision /\ Writing(u, content_1, kind, about)
    BY <1>1, <1>4 DEF Writing, Publish, CopyInv, TypeOK
  <1> QED BY <1>2, <1>3, <1>4, StepKinds

(* Where events, handlers at these two steps and snapshots come from. *)
LEMMA EmitSource ==
  ASSUME NEW kind \in DesignKind \cup {"snapshot.created", "lock.updated", "member.updated"},
         NEW rev \in Revision, NEW actor \in Users, NEW about \in OpIds \cup {Nothing},
         Emit(kind, rev, actor, about)
  PROVE  \E e \in Event : e.about \notin SnapIds /\ events' = Append(events, e)
  <1> DEFINE e == [kind |-> kind, rev |-> rev, actor |-> actor, about |-> about]
  <1>1. e \in Event /\ e.about \notin SnapIds
    BY DocumentAssumption DEF Event
  <1>2. events' = Append(events, e)
    BY DEF Emit
  <1> HIDE DEF e
  <1> QED BY <1>1, <1>2

LEMMA EventSource ==
  ASSUME CopyInv, [Next]_vars
  PROVE  \/ UNCHANGED events
         \/ \E h \in Handlers : Announce(h)
         \/ \E e \in Event : e.about \notin SnapIds /\ events' = Append(events, e)
  <1>0. TypeOK
    BY DEF CopyInv
  <1>1. CASE \E h \in Handlers : PatchCommit(h)
    <2>1. PICK h \in Handlers : PatchCommit(h)
      BY <1>1
    <2>2. handler[h] \in PatchStep
      BY <1>0, <2>1, HandlerStates DEF PatchCommit, TypeOK
    <2>3. handler[h].actor \in Users
      BY <2>2 DEF PatchStep
    <2>4. \E kind \in DesignKind \cup {"snapshot.created"} : \E content :
            Publish(handler[h].actor, content, kind, Nothing)
      BY <2>1 DEF PatchCommit, DesignKind
    <2>5. PICK kind \in DesignKind \cup {"snapshot.created"} :
            Emit(kind, revision + 1, handler[h].actor, Nothing) /\ revision < MaxRevision
      BY <2>4 DEF Publish
    <2> QED BY <1>0, <2>3, <2>5, NextRevision, EmitSource
  <1>2. CASE \E u \in Users, id \in OpIds, o \in Objects, value \in Values \cup {Absent} :
               ApplyOperation(u, id, o, value)
    <2>1. PICK u \in Users, id \in OpIds :
            Emit("operation.applied", revision + 1, u, id) /\ revision < MaxRevision
      BY <1>2 DEF ApplyOperation, Publish
    <2> QED BY <1>0, <2>1, NextRevision, EmitSource DEF DesignKind
  <1>3. CASE \E u \in Users, s \in SnapIds : RestoreSnapshot(u, s)
    <2>1. PICK u \in Users :
            Emit("design.updated", revision + 1, u, Nothing) /\ revision < MaxRevision
      BY <1>3 DEF RestoreSnapshot, Publish
    <2> QED BY <1>0, <2>1, NextRevision, EmitSource DEF DesignKind
  <1>4. CASE \E u \in Users, k \in LockKey, ttl \in 1..LongestTtl : LockObject(u, k, ttl)
    <2>1. PICK u \in Users : UNCHANGED events \/ Emit("lock.updated", revision, u, Nothing)
      BY <1>4 DEF LockObject, Notify
    <2> QED BY <1>0, <2>1, EmitSource DEF TypeOK
  <1>5. CASE \/ \E u \in Users : ReadProject(u) \/ BindProject(u)
             \/ \E h \in Handlers : ReadRevision(h) \/ Stop(h) \/ \E s \in SnapIds : SnapshotInsert(h, s)
             \/ UNCHANGED vars
    BY <1>5 DEF ReadProject, BindProject, ReadRevision, Stop, SnapshotInsert, vars, docVars
  <1>6. CASE UNCHANGED docVars
    BY <1>6 DEF docVars
  <1>7. CASE \/ \E h \in Handlers, u \in Users :
                  \/ PatchBegin(h, u)
                  \/ \E s \in SnapIds : SnapshotBegin(h, u, s)
                  \/ \E k \in LockKey : UnlockBegin(h, u, k)
                  \/ \E target \in Users, role \in MemberRole : MemberBegin(h, u, target, role)
             \/ \E h \in Handlers : PatchRefused(h) \/ UnlockDelete(h) \/ InviteUpsert(h)
                                      \/ SetRoleUpdate(h) \/ RemoveDelete(h) \/ DropMemberLocks(h)
             \/ \E actor \in Users, target \in Users, role \in OrgRole \ {"owner"} :
                  ChangeTenant(actor, target, role)
             \/ ListLocks \/ EntitlementChanges \/ TimePasses
    <2>1. UNCHANGED docVars
      BY <1>7 DEF PatchBegin, SnapshotBegin, UnlockBegin, MemberBegin, PatchRefused, UnlockDelete,
        InviteUpsert, SetRoleUpdate, RemoveDelete, DropMemberLocks, ChangeTenant, ListLocks,
        EntitlementChanges, TimePasses
    <2> QED BY <1>6, <2>1
  <1> QED BY <1>1, <1>2, <1>3, <1>4, <1>5, <1>7 DEF Next, Requests

LEMMA HandlerSource ==
  ASSUME TypeOK, [Next]_vars, NEW h \in Handlers, handler'[h] # handler[h]
  PROVE  \/ handler'[h].pc \notin {"snapshot", "announce"}
         \/ handler'[h].pc = "announce" /\ handler'[h].event.about = Nothing
         \/ \E u \in Users, s \in SnapIds : SnapshotBegin(h, u, s)
         \/ \E s \in SnapIds : SnapshotInsert(h, s)
  <1> USE DEF Goto, Idle, MemberUpdated
  <1>1. handler \in [Handlers -> HandlerState]
    BY DEF TypeOK
  <1>2. CASE \E g \in Handlers, u \in Users : PatchBegin(g, u)
    BY <1>1, <1>2 DEF PatchBegin
  <1>3. CASE \E g \in Handlers, u \in Users, s \in SnapIds : SnapshotBegin(g, u, s)
    <2>1. PICK g \in Handlers, u \in Users, s \in SnapIds : SnapshotBegin(g, u, s)
      BY <1>3
    <2>2. g = h
      BY <1>1, <2>1 DEF SnapshotBegin
    <2> QED BY <2>1, <2>2
  <1>4. CASE \E g \in Handlers, u \in Users, k \in LockKey : UnlockBegin(g, u, k)
    BY <1>1, <1>4 DEF UnlockBegin
  <1>5. CASE \E g \in Handlers, u \in Users, target \in Users, role \in MemberRole :
               MemberBegin(g, u, target, role)
    BY <1>1, <1>5 DEF MemberBegin
  <1>6. CASE \E g \in Handlers : PatchCommit(g) \/ PatchRefused(g) \/ UnlockDelete(g)
    BY <1>1, <1>6 DEF PatchCommit, PatchRefused, UnlockDelete
  <1>7. CASE \E g \in Handlers, s \in SnapIds : SnapshotInsert(g, s)
    <2>1. PICK g \in Handlers, s \in SnapIds : SnapshotInsert(g, s)
      BY <1>7
    <2>2. g = h
      BY <1>1, <2>1 DEF SnapshotInsert
    <2> QED BY <2>1, <2>2
  <1>8. CASE \E g \in Handlers : InviteUpsert(g) \/ SetRoleUpdate(g) \/ RemoveDelete(g)
                                  \/ DropMemberLocks(g)
    BY <1>1, <1>8 DEF InviteUpsert, SetRoleUpdate, RemoveDelete, DropMemberLocks
  <1>9. CASE \E g \in Handlers : ReadRevision(g) \/ Announce(g) \/ Stop(g)
    BY <1>1, <1>9 DEF ReadRevision, Announce, Stop
  <1>10. CASE \/ \E u \in Users : ReadProject(u) \/ BindProject(u)
              \/ \E u \in Users, id \in OpIds, o \in Objects, value \in Values \cup {Absent} :
                   ApplyOperation(u, id, o, value)
              \/ \E u \in Users, s \in SnapIds : RestoreSnapshot(u, s)
              \/ \E u \in Users, k \in LockKey, ttl \in 1..LongestTtl : LockObject(u, k, ttl)
              \/ \E actor \in Users, target \in Users, role \in OrgRole \ {"owner"} :
                   ChangeTenant(actor, target, role)
              \/ ListLocks \/ EntitlementChanges \/ TimePasses \/ UNCHANGED vars
    <2>1. UNCHANGED handler
      BY <1>10 DEF ReadProject, BindProject, ApplyOperation, RestoreSnapshot, LockObject,
         ChangeTenant, ListLocks, EntitlementChanges, TimePasses, vars
    <2> QED BY <2>1
  <1> QED BY <1>2, <1>3, <1>4, <1>5, <1>6, <1>7, <1>8, <1>9, <1>10 DEF Next, Requests

LEMMA SnapshotSource ==
  ASSUME [Next]_vars
  PROVE  UNCHANGED snapshots \/ \E h \in Handlers, s \in SnapIds : SnapshotInsert(h, s)
  <1>1. CASE \/ \E u \in Users : ReadProject(u) \/ BindProject(u)
             \/ \E h \in Handlers : ReadRevision(h) \/ Announce(h) \/ Stop(h) \/ PatchCommit(h)
             \/ \E u \in Users, id \in OpIds, o \in Objects, value \in Values \cup {Absent} :
                  ApplyOperation(u, id, o, value)
             \/ \E u \in Users, s \in SnapIds : RestoreSnapshot(u, s)
             \/ \E u \in Users, k \in LockKey, ttl \in 1..LongestTtl : LockObject(u, k, ttl)
             \/ UNCHANGED vars
    BY <1>1 DEF ReadProject, BindProject, ReadRevision, Announce, Stop, PatchCommit, ApplyOperation,
       RestoreSnapshot, LockObject, vars, docVars
  <1>2. CASE \/ \E h \in Handlers, u \in Users :
                  \/ PatchBegin(h, u)
                  \/ \E s \in SnapIds : SnapshotBegin(h, u, s)
                  \/ \E k \in LockKey : UnlockBegin(h, u, k)
                  \/ \E target \in Users, role \in MemberRole : MemberBegin(h, u, target, role)
             \/ \E h \in Handlers : PatchRefused(h) \/ UnlockDelete(h) \/ InviteUpsert(h)
                                      \/ SetRoleUpdate(h) \/ RemoveDelete(h) \/ DropMemberLocks(h)
             \/ \E actor \in Users, target \in Users, role \in OrgRole \ {"owner"} :
                  ChangeTenant(actor, target, role)
             \/ ListLocks \/ EntitlementChanges \/ TimePasses
    <2>1. UNCHANGED docVars
      BY <1>2 DEF PatchBegin, SnapshotBegin, UnlockBegin, MemberBegin, PatchRefused, UnlockDelete,
        InviteUpsert, SetRoleUpdate, RemoveDelete, DropMemberLocks, ChangeTenant, ListLocks,
        EntitlementChanges, TimePasses
    <2> QED BY <2>1 DEF docVars
  <1> QED BY <1>1, <1>2 DEF Next, Requests

LEMMA SnapshotInvInit == Init => SnapshotInv
  <1> SUFFICES ASSUME Init PROVE SnapshotInv
    OBVIOUS
  <1>1. (1..Len(events)) = {}
    BY DEF Init
  <1> QED BY <1>1 DEF Init, SnapshotInv, Idle

(* A snapshot is stored. *)
LEMMA InsertKeeps ==
  ASSUME TypeOK, SnapshotInv, NEW k \in Handlers, NEW s \in SnapIds, SnapshotInsert(k, s)
  PROVE  SnapshotInv'
  <1> DEFINE r == handler[k]
             e == [kind |-> "snapshot.created", rev |-> r.rev, actor |-> r.actor, about |-> s]
             new == [from |-> r.from, content |-> r.content]
  <1>1. r.pc = "snapshot" /\ r.snap = s /\ r \in SnapshotStep /\ Taken(r)
    BY HandlerStates DEF SnapshotInsert, TypeOK, SnapshotInv
  <1>2. snapshots[s] = NoSnapshot /\ new # NoSnapshot
    BY <1>1 DEF Taken, NoSnapshot, SnapshotStep
  <1>3. /\ UNCHANGED <<events, revision, history>>
        /\ snapshots'[s] = new
        /\ \A x \in SnapIds \ {s} : snapshots'[x] = snapshots[x]
        /\ handler'[k] = [pc |-> "announce", event |-> e]
        /\ \A h \in Handlers \ {k} : handler'[h] = handler[h]
    BY DEF SnapshotInsert, TypeOK, Goto
  <1>4. e.about = s /\ e.rev = r.rev /\ new.from = r.from /\ new.content = r.content
    OBVIOUS
  <1> HIDE DEF e, new
  <1>5. ASSUME NEW x, Truthful(x)
        PROVE  Truthful(x)'
    <2>1. x.about \in SnapIds => x.about # s
      BY <1>2, <1>5 DEF Truthful
    <2> QED BY <1>3, <1>5, <2>1 DEF Truthful, OfVersion
  <1>6. \A i \in 1..Len(events') : Truthful(events[i])'
    BY <1>3, <1>5 DEF SnapshotInv, Truthful, OfVersion
  <1>7. ASSUME NEW h \in Handlers \ {k}
        PROVE  /\ handler'[h].pc = "announce" => Truthful(handler[h].event)'
               /\ handler'[h].pc = "snapshot" => Taken(handler[h])'
    <2>1. handler'[h] = handler[h] /\ handler[h] \in HandlerState
      BY <1>3 DEF TypeOK
    <2>2. handler[h].pc = "announce" => Truthful(handler[h].event)'
      BY <1>5, <2>1 DEF SnapshotInv, Truthful, OfVersion
    <2>3. handler[h].pc = "snapshot" => Taken(handler[h])'
      <3>1. handler[h].pc = "snapshot" => handler[h].snap \in SnapIds \ {s}
        BY <1>1, <2>1, HandlerStates DEF SnapshotInv, SnapshotStep
      <3> QED BY <1>3, <2>1, <3>1 DEF SnapshotInv, Taken, OfVersion
    <2> QED BY <2>1, <2>2, <2>3
  <1>8. handler'[k].pc = "announce" /\ Truthful(handler[k].event)'
    <2>1. handler'[k].pc = "announce" /\ handler'[k].event = e
      BY <1>3
    <2> QED BY <1>1, <1>2, <1>3, <1>4, <2>1 DEF Truthful, Taken, OfVersion
  <1>9. \A h \in Handlers : /\ handler'[h].pc = "announce" => Truthful(handler[h].event)'
                            /\ handler'[h].pc = "snapshot" => Taken(handler[h])'
    BY <1>7, <1>8
  <1>10. \A g, h \in Handlers :
           handler'[g].pc = "snapshot" /\ handler'[h].pc = "snapshot"
             /\ handler'[g].snap = handler'[h].snap => g = h
    BY <1>3, <1>8 DEF SnapshotInv
  <1> QED BY <1>6, <1>9, <1>10 DEF SnapshotInv

(* Nothing is stored: a snapshot may be begun, or announced. *)
LEMMA OthersKeep ==
  ASSUME CopyInv, SnapshotInv, [Next]_vars, UNCHANGED snapshots,
         ~\E h \in Handlers, s \in SnapIds : SnapshotInsert(h, s)
  PROVE  SnapshotInv'
  <1>0. TypeOK /\ TypeOK' /\ Nothing \notin SnapIds
    BY TypeStep, DocumentAssumption DEF CopyInv
  <1>1. ASSUME NEW x \in Event, Truthful(x)
        PROVE  Truthful(x)'
    <2>1. x.rev \in Revision
      BY EventFields
    <2> QED BY <1>1, <2>1, VersionsStay DEF Truthful
  <1>2. ASSUME NEW r \in SnapshotStep, Taken(r)
        PROVE  Taken(r)'
    <2>1. r.rev \in Revision
      BY DEF SnapshotStep
    <2> QED BY <1>2, <2>1, VersionsStay DEF Taken
  <1>3. ASSUME NEW h \in Handlers
        PROVE  handler[h].pc = "announce" => handler[h].event \in Event /\ Truthful(handler[h].event)
    BY <1>0, HandlerStates DEF TypeOK, AnnounceStep, SnapshotInv
  <1>4. ASSUME NEW i \in 1..Len(events')
        PROVE  Truthful(events[i])'
    <2>1. CASE i \in 1..Len(events) /\ events'[i] = events[i]
      <3>1. events[i] \in Event /\ Truthful(events[i])
        BY <1>0, <2>1 DEF TypeOK, SnapshotInv
      <3> QED BY <1>1, <2>1, <3>1 DEF Truthful, OfVersion
    <2>2. ASSUME NEW e \in Event, events' = Append(events, e), i \notin 1..Len(events)
          PROVE  events'[i] = e
      BY <1>0, <2>2, Appended
    <2>3. CASE UNCHANGED events
      BY <2>1, <2>3
    <2>4. CASE \E h \in Handlers : Announce(h)
      <3>1. PICK h \in Handlers : Announce(h)
        BY <2>4
      <3>2. handler[h] \in AnnounceStep
        BY <1>0, <3>1, HandlerStates DEF Announce, TypeOK
      <3> DEFINE e == handler[h].event
                 f == [kind |-> e.kind, rev |-> e.rev, actor |-> e.actor, about |-> e.about]
      <3>3. e \in Event /\ Truthful(e)
        BY <1>3, <3>1 DEF Announce
      <3>4. UNCHANGED events \/ events' = Append(events, f)
        BY <3>1 DEF Announce, Notify, Emit
      <3>5. f = e
        BY <3>3 DEF Event
      <3> HIDE DEF e, f
      <3>6. CASE UNCHANGED events
        BY <2>3, <3>6
      <3> SUFFICES ASSUME events' = Append(events, f) PROVE Truthful(events[i])'
        BY <3>4, <3>6
      <3>7. PICK x \in Event : events' = Append(events, x) /\ Truthful(x)
        BY <3>3, <3>5
      <3>8. CASE i \notin 1..Len(events)
        <4>1. events'[i] = x
          BY <2>2, <3>7, <3>8
        <4> QED BY <1>1, <3>7, <4>1 DEF Truthful, OfVersion
      <3>9. CASE i \in 1..Len(events)
        BY <1>0, <2>1, <3>7, <3>9, Appended
      <3> QED BY <3>8, <3>9
    <2>5. CASE \E e \in Event : e.about \notin SnapIds /\ events' = Append(events, e)
      <3>1. PICK e \in Event : e.about \notin SnapIds /\ events' = Append(events, e)
        BY <2>5
      <3>2. CASE i \notin 1..Len(events)
        BY <2>2, <3>1, <3>2 DEF Truthful
      <3>3. CASE i \in 1..Len(events)
        BY <1>0, <2>1, <3>1, <3>3, Appended
      <3> QED BY <3>2, <3>3
    <2> QED BY <2>3, <2>4, <2>5, EventSource
  <1>5. ASSUME NEW h \in Handlers
        PROVE  /\ handler'[h].pc = "announce" => Truthful(handler[h].event)'
               /\ handler'[h].pc = "snapshot" => Taken(handler[h])'
    <2>1. CASE handler'[h] = handler[h]
      <3>1. handler[h].pc = "announce" => Truthful(handler[h].event)'
        BY <1>1, <1>3, <2>1 DEF Truthful, OfVersion
      <3>2. handler[h].pc = "snapshot" => handler[h] \in SnapshotStep /\ Taken(handler[h])
        BY <1>0, HandlerStates DEF TypeOK, SnapshotInv
      <3>3. handler[h].pc = "snapshot" => Taken(handler[h])'
        BY <1>2, <2>1, <3>2 DEF Taken, OfVersion
      <3> QED BY <2>1, <3>1, <3>3
    <2>2. CASE handler'[h].pc \notin {"snapshot", "announce"}
      BY <2>2
    <2>3. CASE handler'[h].pc = "announce" /\ handler'[h].event.about = Nothing
      BY <1>0, <2>3 DEF Truthful
    <2>4. CASE \E u \in Users, s \in SnapIds : SnapshotBegin(h, u, s)
      <3>1. PICK u \in Users, s \in SnapIds : SnapshotBegin(h, u, s)
        BY <2>4
      <3>2. /\ handler'[h].pc = "snapshot" /\ handler'[h].snap = s
            /\ handler'[h].from = "row" => handler'[h].content = design /\ handler'[h].rev = revision
        BY <1>0, <3>1 DEF SnapshotBegin, Goto, TypeOK
      <3>3. snapshots'[s] = NoSnapshot /\ UNCHANGED <<revision, history>> /\ design = history[revision]
        BY <3>1 DEF SnapshotBegin, docVars, CopyInv, CopiesAreHistorical
      <3>4. revision <= revision
        BY <1>0 DEF TypeOK, Revision
      <3> QED BY <3>2, <3>3, <3>4 DEF Taken, OfVersion
    <2> QED BY <1>0, <2>1, <2>2, <2>3, <2>4, HandlerSource
  <1>6. ASSUME NEW g \in Handlers, NEW h \in Handlers,
               handler'[g].pc = "snapshot", handler'[h].pc = "snapshot",
               handler'[g].snap = handler'[h].snap
        PROVE  g = h
    <2>1. ASSUME NEW k \in Handlers, handler'[k].pc = "snapshot", handler'[k] # handler[k]
          PROVE  \E u \in Users, s \in SnapIds : SnapshotBegin(k, u, s)
      BY <1>0, <2>1, HandlerSource
    <2>2. ASSUME NEW k \in Handlers, NEW j \in Handlers, handler'[j].pc = "snapshot",
                 handler'[j].snap = handler'[k].snap, j # k,
                 \E u \in Users, s \in SnapIds : SnapshotBegin(k, u, s)
          PROVE  FALSE
      <3>1. PICK u \in Users, s \in SnapIds : SnapshotBegin(k, u, s)
        BY <2>2
      <3>2. handler'[k].snap = s /\ handler'[j] = handler[j]
        BY <1>0, <2>2, <3>1 DEF SnapshotBegin, Goto, TypeOK
      <3> QED BY <2>2, <3>1, <3>2 DEF SnapshotBegin
    <2>3. CASE handler'[g] = handler[g] /\ handler'[h] = handler[h]
      BY <1>6, <2>3 DEF SnapshotInv
    <2>4. CASE handler'[g] # handler[g]
      BY <1>6, <2>1, <2>2, <2>4
    <2>5. CASE handler'[h] # handler[h]
      BY <1>6, <2>1, <2>2, <2>5
    <2> QED BY <2>3, <2>4, <2>5
  <1> QED BY <1>4, <1>5, <1>6 DEF SnapshotInv

LEMMA SnapshotInvStep == CopyInv /\ SnapshotInv /\ [Next]_vars => SnapshotInv'
  <1>1. CopyInv => TypeOK
    BY DEF CopyInv
  <1> QED BY <1>1, InsertKeeps, OthersKeep, SnapshotSource

(* Whatever versions others publish between the read of the row, the insert   *)
(* and the event, a snapshot has the design of the revision it is said to.   *)
THEOREM SnapshotsCorrect == Spec => []SnapshotsAreHistorical
  <1>1. SnapshotInv => SnapshotsAreHistorical
    BY DEF SnapshotInv, Truthful, OfVersion, SnapshotsAreHistorical
  <1>2. Spec => []SnapshotInv
    BY CopyInvariant, SnapshotInvInit, SnapshotInvStep, PTL DEF Spec
  <1> QED BY <1>1, <1>2, PTL

-----------------------------------------------------------------------------
(***************************************************************************)
(* Leases without access.  What a lease has left and what its holder has    *)
(* been away for add up to one lease at most: time takes from the one what  *)
(* it adds to the other, and only who may write takes a lease.             *)
(***************************************************************************)
AwayInv ==
  /\ TypeOK
  /\ away \in [Users -> Nat]
  /\ \A u \in Users : CanWrite(u) => away[u] = 0
  /\ \A k \in LockKey, u \in Users : HeldBy(k, u) => locks[k].left + away[u] <= LongestTtl

LEMMA Counted ==
  ASSUME NEW n \in Nat, NEW passed \in {0, 1}
  PROVE  Longer(n, passed) \in Nat /\ Longer(n, passed) <= n + passed
  BY LockAssumption DEF Longer

(* A lease that is held after a request was held before it, or its holder   *)
(* may write and takes it with the request.                                *)
LEMMA LeaseSource ==
  ASSUME TypeOK, Requests, NEW k \in LockKey, NEW u \in Users, HeldBy(k, u)'
  PROVE  \/ locks'[k] = locks[k]
         \/ CanWrite(u)' /\ locks'[k].left \in 1..LongestTtl
  <1>0. u # Nobody /\ locks \in [LockKey -> Lock]
    BY LockAssumption DEF TypeOK, LockTypeOK
  <1>1. CASE \E v \in Users, l \in LockKey, ttl \in 1..LongestTtl : LockObject(v, l, ttl)
    <2>1. PICK v \in Users, l \in LockKey, ttl \in 1..LongestTtl : LockObject(v, l, ttl)
      BY <1>1
    <2>2. CASE k = l
      <3>1. locks'[k] = [user |-> v, left |-> ttl]
        BY <1>0, <2>1, <2>2 DEF LockObject, AcquireLock
      <3>2. v = u
        BY <3>1 DEF HeldBy
      <3>3. CanWrite(u)'
        BY <2>1, <3>2 DEF LockObject, accessVars, CanWrite, RoleOf
      <3> QED BY <3>1, <3>3
    <2>3. CASE k # l
      BY <1>0, <2>1, <2>3 DEF LockObject, AcquireLock
    <2> QED BY <2>2, <2>3
  <1>2. ASSUME \/ \E v \in Users, l \in LockKey, any \in BOOLEAN : ReleaseLock(v, l, any)
               \/ \E v \in Users : DropLocksOf(v)
               \/ DropAllLocks \/ ClearExpired
        PROVE  locks'[k] = locks[k]
    <2>1. locks'[k] \in {locks[k], NoLock}
      BY <1>0, <1>2 DEF ReleaseLock, DropLocksOf, DropAllLocks, ClearExpired
    <2>2. locks'[k] # NoLock
      BY <1>0 DEF HeldBy, NoLock
    <2> QED BY <2>1, <2>2
  <1>3. CASE \E h \in Handlers : UnlockDelete(h)
    <2>1. PICK h \in Handlers : UnlockDelete(h)
      BY <1>3
    <2>2. handler[h] \in UnlockStep
      BY <2>1, HandlerStates DEF UnlockDelete, TypeOK
    <2> QED BY <1>2, <2>1, <2>2 DEF UnlockDelete, UnlockStep
  <1>4. CASE \E h \in Handlers : DropMemberLocks(h)
    <2>1. PICK h \in Handlers : DropMemberLocks(h)
      BY <1>4
    <2>2. handler[h] \in DropStep
      BY <2>1, HandlerStates DEF DropMemberLocks, TypeOK
    <2> QED BY <1>2, <2>1, <2>2 DEF DropMemberLocks, DropStep
  <1>5. CASE \/ ListLocks \/ \E v \in Users : BindProject(v)
             \/ \E actor \in Users, target \in Users, role \in OrgRole \ {"owner"} :
                  ChangeTenant(actor, target, role)
    BY <1>2, <1>5 DEF ListLocks, BindProject, ChangeTenant, lockVars
  <1>6. CASE \/ \E v \in Users : ReadProject(v)
             \/ \E h \in Handlers, v \in Users :
                  \/ PatchBegin(h, v)
                  \/ \E s \in SnapIds : SnapshotBegin(h, v, s)
                  \/ \E l \in LockKey : UnlockBegin(h, v, l)
                  \/ \E target \in Users, role \in MemberRole : MemberBegin(h, v, target, role)
             \/ \E h \in Handlers : \/ PatchCommit(h) \/ PatchRefused(h)
                                    \/ \E s \in SnapIds : SnapshotInsert(h, s)
                                    \/ InviteUpsert(h) \/ SetRoleUpdate(h) \/ RemoveDelete(h)
                                    \/ ReadRevision(h) \/ Announce(h) \/ Stop(h)
             \/ \E v \in Users, id \in OpIds, o \in Objects, value \in Values \cup {Absent} :
                  ApplyOperation(v, id, o, value)
             \/ \E v \in Users, s \in SnapIds : RestoreSnapshot(v, s)
             \/ EntitlementChanges
    BY <1>6 DEF ReadProject, PatchBegin, SnapshotBegin, UnlockBegin, MemberBegin, PatchCommit,
      PatchRefused, SnapshotInsert, InviteUpsert, SetRoleUpdate, RemoveDelete, ReadRevision,
      Announce, Stop, ApplyOperation, RestoreSnapshot, EntitlementChanges, lockVars
  <1> QED BY <1>1, <1>3, <1>4, <1>5, <1>6 DEF Requests

LEMMA AwayInvInit == HistoryInit => AwayInv
  <1> SUFFICES ASSUME HistoryInit PROVE AwayInv
    OBVIOUS
  <1>1. TypeOK
    BY TypeInit DEF HistoryInit
  <1>2. away \in [Users -> Nat] /\ \A u \in Users : CanWrite(u) => away[u] = 0
    BY LockAssumption DEF HistoryInit
  <1>3. \A k \in LockKey, u \in Users : ~HeldBy(k, u)
    BY LockAssumption DEF HistoryInit, Init, LockInit, NoLock, HeldBy
  <1> QED BY <1>1, <1>2, <1>3 DEF AwayInv

LEMMA HistorySteps == [HistoryNext]_historyVars => [Next]_vars
  BY DEF HistoryNext, Next, historyVars

LEMMA AwayInvStep == AwayInv /\ [HistoryNext]_historyVars => AwayInv'
  <1> SUFFICES ASSUME AwayInv, [HistoryNext]_historyVars PROVE AwayInv'
    OBVIOUS
  <1>1. TypeOK /\ TypeOK'
    BY HistorySteps, TypeStep DEF AwayInv
  <1>2. CASE UNCHANGED historyVars
    BY <1>1, <1>2 DEF AwayInv, historyVars, vars, accessVars, lockVars, CanWrite, RoleOf, HeldBy
  <1>3. ASSUME NEW passed \in {0, 1}, Count(passed)
        PROVE  /\ away' \in [Users -> Nat]
               /\ \A u \in Users : CanWrite(u)' => away'[u] = 0
               /\ \A u \in Users : away'[u] <= away[u] + passed
    BY <1>3, Counted DEF Count, AwayInv
  <1>4. CASE Requests /\ Count(0)
    <2>1. ASSUME NEW k \in LockKey, NEW u \in Users, HeldBy(k, u)'
          PROVE  locks'[k].left + away'[u] <= LongestTtl
      <3>1. CASE locks'[k] = locks[k]
        <4>1. HeldBy(k, u)
          BY <2>1, <3>1 DEF HeldBy
        <4>2. locks[k].left \in Nat
          BY <1>1 DEF TypeOK, LockTypeOK, Lock, NoLock
        <4>3. away'[u] \in Nat /\ away[u] \in Nat /\ away'[u] <= away[u] + 0
          BY <1>3, <1>4 DEF AwayInv
        <4>4. locks[k].left + away[u] <= LongestTtl
          BY <4>1 DEF AwayInv
        <4> QED BY <3>1, <4>2, <4>3, <4>4, LockAssumption
      <3>2. CASE CanWrite(u)' /\ locks'[k].left \in 1..LongestTtl
        <4>1. away'[u] = 0
          BY <1>3, <1>4, <3>2
        <4> QED BY <3>2, <4>1, LockAssumption
      <3> QED BY <1>1, <1>4, <2>1, <3>1, <3>2, LeaseSource
    <2> QED BY <1>1, <1>3, <1>4, <2>1 DEF AwayInv
  <1>5. CASE TimePasses /\ Count(1)
    <2>1. ASSUME NEW k \in LockKey, NEW u \in Users, HeldBy(k, u)'
          PROVE  locks'[k].left + away'[u] <= LongestTtl
      <3>1. locks[k].left \in Nat /\ locks[k] \in Lock
        BY <1>1 DEF TypeOK, LockTypeOK, Lock, NoLock
      <3>2. locks'[k] = [locks[k] EXCEPT !.left = IF locks[k].left > 0 THEN locks[k].left - 1 ELSE 0]
        BY <1>5 DEF TimePasses, Tick
      <3>3. locks'[k].left = (IF locks[k].left > 0 THEN locks[k].left - 1 ELSE 0)
              /\ locks'[k].user = locks[k].user
        BY <3>1, <3>2 DEF Lock, NoLock
      <3>4. HeldBy(k, u) /\ locks'[k].left = locks[k].left - 1
        BY <2>1, <3>1, <3>3 DEF HeldBy
      <3>5. away'[u] \in Nat /\ away[u] \in Nat /\ away'[u] <= away[u] + 1
        BY <1>3, <1>5 DEF AwayInv
      <3>6. locks[k].left + away[u] <= LongestTtl
        BY <3>4 DEF AwayInv
      <3> QED BY <3>1, <3>4, <3>5, <3>6, LockAssumption
    <2> QED BY <1>1, <1>3, <1>5, <2>1 DEF AwayInv
  <1> QED BY <1>2, <1>4, <1>5 DEF HistoryNext

(* However its holder's access was taken away and whatever stopped in        *)
(* between, a lease is live for less than one lease length after it.        *)
THEOREM OrphansEnd == HistorySpec => []OrphanedLeaseEnds
  <1>1. AwayInv => OrphanedLeaseEnds
    <2> SUFFICES ASSUME AwayInv, NEW k \in LockKey, NEW u \in Users, HeldBy(k, u)
                 PROVE  away[u] < LongestTtl
      BY DEF OrphanedLeaseEnds
    <2>1. locks[k].left \in Nat /\ away[u] \in Nat
      BY DEF AwayInv, TypeOK, LockTypeOK, Lock, NoLock
    <2> QED BY <2>1, LockAssumption DEF AwayInv, HeldBy
  <1> QED BY <1>1, AwayInvInit, AwayInvStep, PTL DEF HistorySpec
=============================================================================
