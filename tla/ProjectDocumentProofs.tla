------------------------ MODULE ProjectDocumentProofs ------------------------
(***************************************************************************)
(* Theorems about ProjectDocument for any users, objects, handlers and     *)
(* bounds.                                                                 *)
(***************************************************************************)
EXTENDS ProjectDocument, TLAPS

(***************************************************************************)
(* The step a handler is at determines what it remembers.                  *)
(***************************************************************************)
LEMMA HandlerStates ==
  ASSUME NEW r \in HandlerState
  PROVE  /\ r.pc = "patch" => r \in PatchStep
         /\ r.pc = "snapshot" => r \in SnapshotStep
         /\ r.pc \in {"invite", "setRole", "remove"} => r \in MemberStep
         /\ r.pc = "dropLocks" => r \in DropStep
         /\ r.pc = "unlock" => r \in UnlockStep
         /\ r.pc = "readRevision" => r \in RevisionStep
         /\ r.pc = "announce" => r \in AnnounceStep
  BY DEF HandlerState, Idle, PatchStep, SnapshotStep, MemberStep, DropStep, UnlockStep,
         RevisionStep, AnnounceStep

(***************************************************************************)
(* Types of what the shared parts of the actions assign.                   *)
(***************************************************************************)
LEMMA GotoType ==
  ASSUME TypeOK, NEW h \in Handlers, NEW state \in HandlerState, Goto(h, state)
  PROVE  handler' \in [Handlers -> HandlerState]
  BY DEF TypeOK, Goto

LEMMA EmitType ==
  ASSUME TypeOK, NEW kind \in DesignKind \cup {"snapshot.created", "lock.updated", "member.updated"},
         NEW rev \in Revision, NEW actor \in Users, NEW about \in OpIds \cup SnapIds \cup {Nothing},
         Emit(kind, rev, actor, about)
  PROVE  events' \in Seq(Event)
  <1>1. [kind |-> kind, rev |-> rev, actor |-> actor, about |-> about] \in Event
    BY DEF Event
  <1> QED BY <1>1 DEF TypeOK, Emit

LEMMA NotifyType ==
  ASSUME TypeOK, NEW kind \in {"snapshot.created", "lock.updated", "member.updated"},
         NEW rev \in Revision, NEW actor \in Users, NEW about \in OpIds \cup SnapIds \cup {Nothing},
         Notify(kind, rev, actor, about)
  PROVE  events' \in Seq(Event)
  <1>1. CASE Emit(kind, rev, actor, about)
    BY <1>1, EmitType
  <1>2. CASE UNCHANGED events
    BY <1>2 DEF TypeOK
  <1> QED BY <1>1, <1>2 DEF Notify

LEMMA NextRevision ==
  ASSUME TypeOK, revision < MaxRevision
  PROVE  revision + 1 \in Revision /\ revision + 1 # 0
  BY DocumentAssumption DEF TypeOK, Revision

LEMMA PublishType ==
  ASSUME TypeOK, NEW actor \in Users, NEW content \in Design,
         NEW kind \in DesignKind \cup {"snapshot.created"},
         NEW about \in OpIds \cup SnapIds \cup {Nothing},
         Publish(actor, content, kind, about)
  PROVE  /\ revision' \in Revision
         /\ design' \in Design
         /\ history' \in [Revision -> Design]
         /\ events' \in Seq(Event)
  <1>1. revision < MaxRevision /\ Emit(kind, revision + 1, actor, about)
    BY DEF Publish
  <1>2. revision + 1 \in Revision
    BY <1>1, NextRevision
  <1>3. events' \in Seq(Event)
    BY <1>1, <1>2, EmitType
  <1> QED BY <1>2, <1>3 DEF Publish, TypeOK

LEMMA AnswerType ==
  ASSUME TypeOK, revision < MaxRevision, NEW u \in Users, NEW content \in Design,
         Answer(u, content)
  PROVE  draft' \in [Users -> Draft]
  <1>1. [rev |-> revision + 1, design |-> content] \in Draft
    BY NextRevision DEF Draft
  <1> QED BY <1>1 DEF Answer, TypeOK

LEMMA AcquireType ==
  ASSUME LockTypeOK, NEW u \in Users, NEW k \in LockKey, NEW ttl \in 1..LongestTtl, AcquireLock(u, k, ttl)
  PROVE  LockTypeOK'
  <1>1. [user |-> u, left |-> ttl] \in Lock
    BY LockAssumption DEF Lock
  <1> QED BY <1>1 DEF AcquireLock, LockTypeOK, LockKey

LEMMA ReleaseType ==
  ASSUME LockTypeOK,
         \/ \E u \in Users, k \in LockKey, any \in BOOLEAN : ReleaseLock(u, k, any)
         \/ \E u \in Users : DropLocksOf(u)
         \/ DropAllLocks \/ ClearExpired
  PROVE  LockTypeOK'
  <1>1. NoLock \in Lock
    BY DEF Lock
  <1>2. locks' \in [LockKey -> Lock]
    BY <1>1 DEF ReleaseLock, DropLocksOf, DropAllLocks, ClearExpired, LockTypeOK
  <1> QED BY <1>2 DEF LockTypeOK

LEMMA TickType == ASSUME LockTypeOK, Tick PROVE LockTypeOK'
  <1> DEFINE Less(lock) == [lock EXCEPT !.left = IF lock.left > 0 THEN lock.left - 1 ELSE 0]
  <1>1. ASSUME NEW lock \in Lock PROVE Less(lock) \in Lock
    <2>1. CASE lock \in [user : Users, left : Nat]
      BY <2>1 DEF Lock
    <2>2. CASE lock = NoLock
      BY <2>2 DEF Lock, NoLock
    <2> QED BY <1>1, <2>1, <2>2 DEF Lock
  <1>2. locks' = [k \in LockKey |-> Less(locks[k])]
    BY DEF Tick
  <1> HIDE DEF Less
  <1> QED BY <1>1, <1>2 DEF LockTypeOK

LEMMA MembershipType ==
  ASSUME AccessTypeOK,
         \/ \E t \in Users, role \in MemberRole \cup {"none"} : SetMember(t, role)
         \/ \E t \in Users, role \in OrgRole \cup {"none"} : SetOrgRole(t, role)
         \/ BindToTenant
  PROVE  AccessTypeOK'
  BY DEF SetMember, SetOrgRole, BindToTenant, AccessTypeOK

LEMMA SameAccess == ASSUME AccessTypeOK, UNCHANGED accessVars PROVE AccessTypeOK'
  BY DEF accessVars, AccessTypeOK

LEMMA SameLocks == ASSUME LockTypeOK, UNCHANGED lockVars PROVE LockTypeOK'
  BY DEF lockVars, LockTypeOK

(* A step that moves a handler on and leaves the document alone. *)
LEMMA HandlerStep ==
  ASSUME TypeOK, NEW h \in Handlers, NEW state \in HandlerState, Goto(h, state),
         UNCHANGED docVars, AccessTypeOK', LockTypeOK'
  PROVE  TypeOK'
  BY GotoType DEF docVars, TypeOK

(* A step that publishes a version. *)
LEMMA WriteStep ==
  ASSUME TypeOK, NEW u \in Users, NEW content \in Design,
         NEW kind \in DesignKind \cup {"snapshot.created"},
         NEW about \in OpIds \cup SnapIds \cup {Nothing},
         Publish(u, content, kind, about), Answer(u, content) \/ UNCHANGED draft,
         UNCHANGED <<snapshots, accessVars, lockVars>>,
         operations' \in [OpIds -> Revision], handler' \in [Handlers -> HandlerState]
  PROVE  TypeOK'
  <1>1. revision < MaxRevision
    BY DEF Publish
  <1>2. revision' \in Revision /\ design' \in Design /\ history' \in [Revision -> Design]
          /\ events' \in Seq(Event)
    BY PublishType
  <1>3. draft' \in [Users -> Draft]
    <2>1. CASE Answer(u, content)
      BY <1>1, <2>1, AnswerType
    <2>2. CASE UNCHANGED draft
      BY <2>2 DEF TypeOK
    <2> QED BY <2>1, <2>2
  <1>4. AccessTypeOK' /\ LockTypeOK'
    BY SameAccess, SameLocks DEF TypeOK
  <1>5. snapshots' \in [SnapIds -> Snapshot]
    BY DEF TypeOK
  <1> QED BY <1>2, <1>3, <1>4, <1>5 DEF TypeOK

(***************************************************************************)
(* The types hold at the start and every action keeps them.                *)
(***************************************************************************)
LEMMA TypeInit == Init => TypeOK
  <1> SUFFICES ASSUME Init PROVE TypeOK
    OBVIOUS
  <1>1. AccessTypeOK
    BY OwnerAssumption DEF Init, AccessInit, AccessTypeOK, MemberRole, OrgRole
  <1>2. LockTypeOK
    BY LockAssumption DEF Init, LockInit, LockTypeOK, Lock, NoLock
  <1>3. 0 \in Revision /\ Blank \in Design
    BY DocumentAssumption DEF Revision, Blank, Design
  <1>4. [rev |-> 0, design |-> Blank] \in Draft
    BY <1>3 DEF Draft
  <1>5. NoSnapshot \in Snapshot /\ Idle \in HandlerState
    BY DEF Snapshot, HandlerState
  <1> QED BY <1>1, <1>2, <1>3, <1>4, <1>5 DEF Init, TypeOK

LEMMA ReadType ==
  ASSUME TypeOK, NEW u \in Users, ReadProject(u)
  PROVE  TypeOK'
  <1>1. [rev |-> revision, design |-> design] \in Draft
    BY DEF TypeOK, Draft
  <1>2. draft' \in [Users -> Draft]
    BY <1>1 DEF ReadProject, TypeOK
  <1>3. AccessTypeOK' /\ LockTypeOK'
    BY SameAccess, SameLocks DEF ReadProject, TypeOK
  <1> QED BY <1>2, <1>3 DEF ReadProject, TypeOK

LEMMA PatchType ==
  ASSUME TypeOK, NEW h \in Handlers,
         (\E u \in Users : PatchBegin(h, u)) \/ PatchCommit(h) \/ PatchRefused(h)
  PROVE  TypeOK'
  <1>1. CASE \E u \in Users : PatchBegin(h, u)
    <2>1. PICK u \in Users : PatchBegin(h, u)
      BY <1>1
    <2>2. PICK state \in PatchStep : Goto(h, state)
      <3>1. Blank \in Design
        BY DEF Blank, Design
      <3>2. draft[u].rev \in Revision
        BY DEF TypeOK, Draft
      <3> QED BY <2>1, <3>1, <3>2 DEF PatchBegin, PatchStep
    <2>3. AccessTypeOK' /\ LockTypeOK'
      BY <2>1, SameAccess, SameLocks DEF PatchBegin, TypeOK
    <2> QED BY <2>1, <2>2, <2>3, HandlerStep DEF PatchBegin, HandlerState
  <1>2. CASE PatchCommit(h)
    <2> DEFINE r == handler[h]
    <2>1. r \in PatchStep
      BY <1>2, HandlerStates DEF PatchCommit, TypeOK
    <2>2. r.actor \in Users /\ r.next \in Design
      BY <2>1 DEF PatchStep
    <2>3. handler' \in [Handlers -> HandlerState]
      BY <1>2, GotoType DEF PatchCommit, HandlerState
    <2>4. operations' \in [OpIds -> Revision]
      BY <1>2 DEF PatchCommit, TypeOK
    <2>5. UNCHANGED <<snapshots, accessVars, lockVars>>
      BY <1>2 DEF PatchCommit
    <2>6. CASE r.save
      <3>1. Publish(r.actor, r.next, "design.updated", Nothing) /\ Answer(r.actor, r.next)
        BY <1>2, <2>6 DEF PatchCommit
      <3> QED BY <2>2, <2>3, <2>4, <2>5, <3>1, WriteStep DEF DesignKind
    <2>7. CASE ~r.save
      <3>1. Publish(r.actor, design, "snapshot.created", Nothing) /\ UNCHANGED draft
        BY <1>2, <2>7 DEF PatchCommit
      <3>2. design \in Design
        BY DEF TypeOK
      <3> QED BY <2>2, <2>3, <2>4, <2>5, <3>1, <3>2, WriteStep
    <2> QED BY <2>6, <2>7
  <1>3. CASE PatchRefused(h)
    <2>1. AccessTypeOK' /\ LockTypeOK'
      BY <1>3, SameAccess, SameLocks DEF PatchRefused, TypeOK
    <2> QED BY <1>3, <2>1, HandlerStep DEF PatchRefused, HandlerState
  <1> QED BY <1>1, <1>2, <1>3

LEMMA OperationType ==
  ASSUME TypeOK, NEW u \in Users, NEW id \in OpIds, NEW o \in Objects,
         NEW value \in Values \cup {Absent}, ApplyOperation(u, id, o, value)
  PROVE  TypeOK'
  <1> DEFINE next == [design EXCEPT ![o] = value]
  <1>1. next \in Design
    BY DEF TypeOK, Design
  <1>2. Publish(u, next, "operation.applied", id) /\ Answer(u, next)
    BY DEF ApplyOperation
  <1>3. revision + 1 \in Revision
    BY <1>2, NextRevision DEF Publish
  <1>4. operations' \in [OpIds -> Revision]
    BY <1>3 DEF ApplyOperation, TypeOK
  <1>5. handler' \in [Handlers -> HandlerState] /\ UNCHANGED <<snapshots, accessVars, lockVars>>
    BY DEF ApplyOperation, TypeOK
  <1> QED BY <1>1, <1>2, <1>4, <1>5, WriteStep DEF DesignKind

LEMMA RestoreType ==
  ASSUME TypeOK, NEW u \in Users, NEW s \in SnapIds, RestoreSnapshot(u, s)
  PROVE  TypeOK'
  <1> DEFINE content == snapshots[s].content
  <1>1. content \in Design
    <2>1. Blank \in Design
      BY DEF Blank, Design
    <2> QED BY <2>1 DEF TypeOK, Snapshot, NoSnapshot
  <1>2. Publish(u, content, "design.updated", Nothing) /\ Answer(u, content)
    BY DEF RestoreSnapshot
  <1>3. /\ handler' \in [Handlers -> HandlerState]
        /\ operations' \in [OpIds -> Revision]
        /\ UNCHANGED <<snapshots, accessVars, lockVars>>
    BY DEF RestoreSnapshot, TypeOK
  <1> QED BY <1>1, <1>2, <1>3, WriteStep DEF DesignKind

LEMMA SnapshotType ==
  ASSUME TypeOK, NEW h \in Handlers,
         \/ \E u \in Users, s \in SnapIds : SnapshotBegin(h, u, s)
         \/ \E s \in SnapIds : SnapshotInsert(h, s)
  PROVE  TypeOK'
  <1>1. CASE \E u \in Users, s \in SnapIds : SnapshotBegin(h, u, s)
    <2>1. PICK u \in Users, s \in SnapIds : SnapshotBegin(h, u, s)
      BY <1>1
    <2>2. PICK state \in SnapshotStep : Goto(h, state)
      <3>1. design \in Design /\ draft[u].design \in Design /\ revision \in Revision
        BY DEF TypeOK, Draft
      <3> QED BY <2>1, <3>1 DEF SnapshotBegin, SnapshotStep
    <2>3. AccessTypeOK' /\ LockTypeOK'
      BY <2>1, SameAccess, SameLocks DEF SnapshotBegin, TypeOK
    <2> QED BY <2>1, <2>2, <2>3, HandlerStep DEF SnapshotBegin, HandlerState
  <1>2. CASE \E s \in SnapIds : SnapshotInsert(h, s)
    <2>0. PICK s \in SnapIds : SnapshotInsert(h, s)
      BY <1>2
    <2> DEFINE r == handler[h]
               e == [kind |-> "snapshot.created", rev |-> r.rev, actor |-> r.actor,
                     about |-> s]
    <2>1. r \in SnapshotStep
      BY <2>0, HandlerStates DEF SnapshotInsert, TypeOK
    <2>2. s \in SnapIds /\ r.actor \in Users /\ r.rev \in Revision
            /\ [from |-> r.from, content |-> r.content] \in Snapshot
      BY <2>1 DEF SnapshotStep, Snapshot
    <2>3. snapshots' \in [SnapIds -> Snapshot]
      BY <2>0, <2>2 DEF SnapshotInsert, TypeOK
    <2>4. [pc |-> "announce", event |-> e] \in HandlerState
      <3>1. e \in Event /\ e.kind \notin DesignKind
        BY <2>2 DEF Event, DesignKind
      <3> HIDE DEF e
      <3> QED BY <3>1 DEF HandlerState, AnnounceStep
    <2>5. handler' \in [Handlers -> HandlerState]
      BY <2>0, <2>4, GotoType DEF SnapshotInsert
    <2>6. AccessTypeOK' /\ LockTypeOK'
      BY <2>0, SameAccess, SameLocks DEF SnapshotInsert, TypeOK
    <2> QED BY <2>0, <2>3, <2>5, <2>6 DEF SnapshotInsert, TypeOK
  <1> QED BY <1>1, <1>2

LEMMA LockRouteType ==
  ASSUME TypeOK,
         \/ \E u \in Users, k \in LockKey, ttl \in 1..LongestTtl : LockObject(u, k, ttl)
         \/ \E h \in Handlers, u \in Users, k \in LockKey : UnlockBegin(h, u, k)
         \/ \E h \in Handlers : UnlockDelete(h)
         \/ ListLocks
         \/ TimePasses
  PROVE  TypeOK'
  <1>1. CASE \E u \in Users, k \in LockKey, ttl \in 1..LongestTtl : LockObject(u, k, ttl)
    <2>1. PICK u \in Users, k \in LockKey, ttl \in 1..LongestTtl : LockObject(u, k, ttl)
      BY <1>1
    <2>2. LockTypeOK'
      BY <2>1, AcquireType DEF LockObject, TypeOK
    <2>3. events' \in Seq(Event)
      BY <2>1, NotifyType DEF LockObject, TypeOK
    <2>4. AccessTypeOK'
      BY <2>1, SameAccess DEF LockObject, TypeOK
    <2> QED BY <2>1, <2>2, <2>3, <2>4 DEF LockObject, TypeOK
  <1>2. CASE \E h \in Handlers, u \in Users, k \in LockKey : UnlockBegin(h, u, k)
    <2>1. PICK h \in Handlers, u \in Users, k \in LockKey : UnlockBegin(h, u, k)
      BY <1>2
    <2> DEFINE state == [pc |-> "unlock", actor |-> u, key |-> k, anyHolder |-> CanManage(u)]
    <2>2. CanManage(u) \in BOOLEAN
      BY DEF CanManage
    <2>3. state \in HandlerState /\ Goto(h, state)
      BY <2>1, <2>2 DEF UnlockBegin, HandlerState, UnlockStep
    <2>4. AccessTypeOK' /\ LockTypeOK'
      BY <2>1, SameAccess, SameLocks DEF UnlockBegin, TypeOK
    <2> HIDE DEF state
    <2> QED BY <2>1, <2>3, <2>4, HandlerStep DEF UnlockBegin
  <1>3. CASE \E h \in Handlers : UnlockDelete(h)
    <2>1. PICK h \in Handlers : UnlockDelete(h)
      BY <1>3
    <2> DEFINE r == handler[h]
    <2>2. r \in UnlockStep
      BY <2>1, HandlerStates DEF UnlockDelete, TypeOK
    <2>3. r.actor \in Users /\ r.key \in LockKey /\ r.anyHolder \in BOOLEAN
      BY <2>2 DEF UnlockStep
    <2>4. LockTypeOK'
      BY <2>1, <2>3, ReleaseType DEF UnlockDelete, TypeOK
    <2>5. PICK state \in HandlerState : Goto(h, state)
      BY <2>1, <2>3 DEF UnlockDelete, HandlerState, RevisionStep
    <2>6. AccessTypeOK'
      BY <2>1, SameAccess DEF UnlockDelete, TypeOK
    <2> QED BY <2>1, <2>4, <2>5, <2>6, HandlerStep DEF UnlockDelete
  <1>4. CASE ListLocks
    <2>1. LockTypeOK' /\ AccessTypeOK'
      BY <1>4, ReleaseType, SameAccess DEF ListLocks, TypeOK
    <2> QED BY <1>4, <2>1 DEF ListLocks, docVars, TypeOK
  <1>5. CASE TimePasses
    <2>1. LockTypeOK'
      BY <1>5, TickType DEF TimePasses, TypeOK
    <2>2. AccessTypeOK'
      BY <1>5, SameAccess DEF TimePasses, TypeOK
    <2> QED BY <1>5, <2>1, <2>2 DEF TimePasses, docVars, TypeOK
  <1> QED BY <1>1, <1>2, <1>3, <1>4, <1>5

LEMMA MemberRouteType ==
  ASSUME TypeOK, NEW h \in Handlers,
         \/ \E u \in Users, target \in Users, role \in MemberRole : MemberBegin(h, u, target, role)
         \/ InviteUpsert(h) \/ SetRoleUpdate(h) \/ RemoveDelete(h) \/ DropMemberLocks(h)
  PROVE  TypeOK'
  <1> DEFINE r == handler[h]
  <1>1. \A u \in Users : MemberUpdated(u) \in HandlerState
    BY DEF MemberUpdated, HandlerState, RevisionStep
  <1>2. \A u \in Users, t \in Users, b \in BOOLEAN :
          [pc |-> "dropLocks", actor |-> u, target |-> t, found |-> b] \in HandlerState
    BY DEF HandlerState, DropStep
  <1>3. ASSUME r \in MemberStep PROVE r.actor \in Users /\ r.target \in Users /\ r.role \in MemberRole
    BY <1>3 DEF MemberStep
  <1>4. CASE \E u \in Users, target \in Users, role \in MemberRole : MemberBegin(h, u, target, role)
    <2>1. PICK u \in Users, target \in Users, role \in MemberRole : MemberBegin(h, u, target, role)
      BY <1>4
    <2>2. PICK state \in MemberStep : Goto(h, state)
      BY <2>1 DEF MemberBegin, MemberStep, MemberRole
    <2>3. AccessTypeOK' /\ LockTypeOK'
      BY <2>1, SameAccess, SameLocks DEF MemberBegin, TypeOK
    <2> QED BY <2>1, <2>2, <2>3, HandlerStep DEF MemberBegin, HandlerState
  <1>5. CASE InviteUpsert(h)
    <2>1. r \in MemberStep
      BY <1>5, HandlerStates DEF InviteUpsert, TypeOK
    <2>2. AccessTypeOK' /\ LockTypeOK'
      BY <1>3, <1>5, <2>1, MembershipType, SameLocks DEF InviteUpsert, TypeOK
    <2>3. PICK state \in HandlerState : Goto(h, state)
      BY <1>1, <1>3, <1>5, <2>1 DEF InviteUpsert
    <2> QED BY <1>5, <2>2, <2>3, HandlerStep DEF InviteUpsert
  <1>6. CASE SetRoleUpdate(h)
    <2>1. r \in MemberStep
      BY <1>6, HandlerStates DEF SetRoleUpdate, TypeOK
    <2>2. AccessTypeOK' /\ LockTypeOK'
      BY <1>3, <1>6, <2>1, MembershipType, SameAccess, SameLocks DEF SetRoleUpdate, TypeOK
    <2>3. PICK state \in HandlerState : Goto(h, state)
      <3>1. Idle \in HandlerState
        BY DEF HandlerState
      <3>2. CASE members[r.target] = "none"
        BY <1>6, <3>1, <3>2 DEF SetRoleUpdate
      <3>3. CASE members[r.target] # "none" /\ r.role = "viewer"
        BY <1>2, <1>3, <1>6, <2>1, <3>3 DEF SetRoleUpdate
      <3>4. CASE members[r.target] # "none" /\ r.role # "viewer"
        BY <1>1, <1>3, <1>6, <2>1, <3>4 DEF SetRoleUpdate
      <3> QED BY <3>2, <3>3, <3>4
    <2> QED BY <1>6, <2>2, <2>3, HandlerStep DEF SetRoleUpdate
  <1>7. CASE RemoveDelete(h)
    <2>1. r \in MemberStep
      BY <1>7, HandlerStates DEF RemoveDelete, TypeOK
    <2>2. AccessTypeOK' /\ LockTypeOK'
      BY <1>3, <1>7, <2>1, MembershipType, SameLocks DEF RemoveDelete, TypeOK
    <2>3. PICK state \in HandlerState : Goto(h, state)
      BY <1>2, <1>3, <1>7, <2>1 DEF RemoveDelete
    <2> QED BY <1>7, <2>2, <2>3, HandlerStep DEF RemoveDelete
  <1>8. CASE DropMemberLocks(h)
    <2>1. r \in DropStep
      BY <1>8, HandlerStates DEF DropMemberLocks, TypeOK
    <2>2. r.actor \in Users /\ r.target \in Users
      BY <2>1 DEF DropStep
    <2>3. AccessTypeOK' /\ LockTypeOK'
      BY <1>8, <2>2, ReleaseType, SameAccess DEF DropMemberLocks, TypeOK
    <2>4. PICK state \in HandlerState : Goto(h, state)
      BY <1>1, <1>8, <2>2 DEF DropMemberLocks, HandlerState
    <2> QED BY <1>8, <2>3, <2>4, HandlerStep DEF DropMemberLocks
  <1> QED BY <1>4, <1>5, <1>6, <1>7, <1>8

LEMMA TailType ==
  ASSUME TypeOK, NEW h \in Handlers, ReadRevision(h) \/ Announce(h) \/ Stop(h)
  PROVE  TypeOK'
  <1> DEFINE r == handler[h]
  <1>1. CASE ReadRevision(h)
    <2> DEFINE e == [kind |-> r.kind, rev |-> revision, actor |-> r.actor, about |-> Nothing]
    <2>1. r \in RevisionStep
      BY <1>1, HandlerStates DEF ReadRevision, TypeOK
    <2>2. e \in Event /\ e.kind \notin DesignKind
      BY <2>1 DEF RevisionStep, Event, DesignKind, TypeOK
    <2>3. [pc |-> "announce", event |-> e] \in HandlerState
      <3> HIDE DEF e
      <3> QED BY <2>2 DEF HandlerState, AnnounceStep
    <2>4. AccessTypeOK' /\ LockTypeOK'
      BY <1>1, SameAccess, SameLocks DEF ReadRevision, TypeOK
    <2> QED BY <1>1, <2>3, <2>4, HandlerStep DEF ReadRevision
  <1>2. CASE Announce(h)
    <2>1. r \in AnnounceStep
      BY <1>2, HandlerStates DEF Announce, TypeOK
    <2>2. r.event \in Event
      BY <2>1 DEF AnnounceStep
    <2>3. events' \in Seq(Event)
      <3>1. r.event.kind \in {"snapshot.created", "lock.updated", "member.updated"}
              /\ r.event.rev \in Revision /\ r.event.actor \in Users
              /\ r.event.about \in OpIds \cup SnapIds \cup {Nothing}
        BY <2>1 DEF AnnounceStep, Event, DesignKind
      <3> QED BY <1>2, <3>1, NotifyType DEF Announce
    <2>4. handler' \in [Handlers -> HandlerState]
      BY <1>2, GotoType DEF Announce, HandlerState
    <2>5. AccessTypeOK' /\ LockTypeOK'
      BY <1>2, SameAccess, SameLocks DEF Announce, TypeOK
    <2> QED BY <1>2, <2>3, <2>4, <2>5 DEF Announce, TypeOK
  <1>3. CASE Stop(h)
    <2>1. AccessTypeOK' /\ LockTypeOK'
      BY <1>3, SameAccess, SameLocks DEF Stop, TypeOK
    <2> QED BY <1>3, <2>1, HandlerStep DEF Stop, HandlerState
  <1> QED BY <1>1, <1>2, <1>3

LEMMA TenantType ==
  ASSUME TypeOK,
         \/ \E u \in Users : BindProject(u)
         \/ \E actor \in Users, target \in Users, role \in OrgRole \ {"owner"} :
              ChangeTenant(actor, target, role)
         \/ EntitlementChanges
  PROVE  TypeOK'
  <1>1. CASE \E u \in Users : BindProject(u)
    <2>1. PICK u \in Users : BindProject(u)
      BY <1>1
    <2>2. revision + 1 \in Revision
      BY <2>1, NextRevision DEF BindProject
    <2>3. history' \in [Revision -> Design] /\ revision' \in Revision
      BY <2>1, <2>2 DEF BindProject, TypeOK
    <2>4. AccessTypeOK' /\ LockTypeOK'
      BY <2>1, MembershipType, ReleaseType DEF BindProject, TypeOK
    <2> QED BY <2>1, <2>3, <2>4 DEF BindProject, TypeOK
  <1>2. CASE \E actor \in Users, target \in Users, role \in OrgRole \ {"owner"} :
               ChangeTenant(actor, target, role)
    <2>1. PICK actor \in Users, target \in Users, role \in OrgRole \ {"owner"} :
            ChangeTenant(actor, target, role)
      BY <1>2
    <2>2. AccessTypeOK'
      <3>1. CASE SetOrgRole(target, role) \/ SetOrgRole(target, "none")
        BY <3>1, MembershipType DEF TypeOK
      <3>2. CASE /\ orgRole' = [orgRole EXCEPT ![actor] = "admin", ![target] = "owner"]
                 /\ UNCHANGED <<members, tenant, orgWritable>>
        BY <3>2 DEF TypeOK, AccessTypeOK, OrgRole
      <3> QED BY <2>1, <3>1, <3>2 DEF ChangeTenant
    <2>3. LockTypeOK'
      BY <2>1, ReleaseType, SameLocks DEF ChangeTenant, TypeOK, lockVars
    <2> QED BY <2>1, <2>2, <2>3 DEF ChangeTenant, docVars, TypeOK
  <1>3. CASE EntitlementChanges
    <2>1. AccessTypeOK'
      BY <1>3 DEF EntitlementChanges, AccessTypeOK, TypeOK
    <2>2. LockTypeOK'
      BY <1>3, SameLocks DEF EntitlementChanges, TypeOK
    <2> QED BY <1>3, <2>1, <2>2 DEF EntitlementChanges, docVars, TypeOK
  <1> QED BY <1>1, <1>2, <1>3

LEMMA TypeStep == TypeOK /\ [Next]_vars => TypeOK'
  <1> SUFFICES ASSUME TypeOK, [Next]_vars PROVE TypeOK'
    OBVIOUS
  <1>1. CASE UNCHANGED vars
    <2>1. AccessTypeOK' /\ LockTypeOK'
      BY <1>1, SameAccess, SameLocks DEF vars, TypeOK
    <2> QED BY <1>1, <2>1 DEF vars, docVars, TypeOK
  <1>2. CASE Next
    BY <1>2, ReadType, PatchType, OperationType, RestoreType, SnapshotType, LockRouteType,
       MemberRouteType, TailType, TenantType DEF Next, Requests
  <1> QED BY <1>1, <1>2

(* The tables, the leases and what every request in progress remembers stay *)
(* within their types however the routes interleave; in particular the      *)
(* revision never leaves the range of safe integers (routes/projects.ts:373).*)
THEOREM TypeCorrect == Spec => []TypeOK
  BY TypeInit, TypeStep, PTL DEF Spec
=============================================================================
