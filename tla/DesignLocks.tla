----------------------------- MODULE DesignLocks -----------------------------
(***************************************************************************)
(* The object leases of one project (project_locks) and the rule by which  *)
(* a lease protects part of the design from other editors                  *)
(* (server/src/designLocks.ts, server/src/routes/collaboration.ts).        *)
(*                                                                         *)
(* A design is abstracted to the value each identified object has in it;   *)
(* Absent stands for an object the design does not contain.  The clock is   *)
(* only ever compared with the end of a lease, so a lease is kept as the     *)
(* time it has left and has no bound on how often it is taken or renewed.    *)
(***************************************************************************)
EXTENDS ProjectAccess, Integers

CONSTANTS
  Nobody,         \* the holder of a lock row that does not exist
  Objects,        \* ids the objects of a design may have
  Values,         \* contents of an object
  Absent,         \* the content of an object the design lacks
  WholeProject,   \* the "__project__" lock key
  LongestTtl      \* the longest lease a client may ask for, 300 s

ASSUME LockAssumption ==
  /\ Nobody \notin Users
  /\ Absent \notin Values
  /\ WholeProject \notin Objects
  /\ LongestTtl \in Nat \ {0}

VARIABLE locks    \* project_locks: lock key -> holder and max(expires_at - now(), 0)

lockVars == <<locks>>

Design  == [Objects -> Values \cup {Absent}]
Blank   == [o \in Objects |-> Absent]          \* design_data IS NULL
LockKey == Objects \cup {WholeProject}
NoLock  == [user |-> Nobody, left |-> 0]
Lock    == [user : Users, left : Nat] \cup {NoLock}

LockTypeOK == locks \in [LockKey -> Lock]

LockInit == locks = [k \in LockKey |-> NoLock]

-----------------------------------------------------------------------------
HeldBy(k, u) == locks[k].user = u /\ locks[k].left > 0
Live(k)      == locks[k].user # Nobody /\ locks[k].left > 0

(* What a lock on k protects in a change from before to after: the object,  *)
(* or the whole design for the project lock and for an object in neither.   *)
Protects(k, before, after) ==
  IF k \in Objects /\ ~(before[k] = Absent /\ after[k] = Absent)
    THEN before[k] # after[k]
    ELSE before # after

ConflictingLock(u, before, after) ==
  \E k \in LockKey : Live(k) /\ ~HeldBy(k, u) /\ Protects(k, before, after)

-----------------------------------------------------------------------------
(* The upsert of POST locks: ownership and expiry are tested by the write. *)
AcquireLock(u, k, ttl) ==
  /\ ~Live(k) \/ locks[k].user = u
  /\ locks' = [locks EXCEPT ![k] = [user |-> u, left |-> ttl]]

(* DELETE of one row; an owner's request does not test the holder. *)
ReleaseLock(u, k, anyHolder) ==
  locks' = [locks EXCEPT ![k] = IF anyHolder \/ @.user = u THEN NoLock ELSE @]

DropLocksOf(u) ==
  locks' = [k \in LockKey |-> IF locks[k].user = u THEN NoLock ELSE locks[k]]

DropAllLocks == locks' = [k \in LockKey |-> NoLock]

(* GET locks deletes the rows that have expired before it answers. *)
ClearExpired == locks' = [k \in LockKey |-> IF locks[k].left = 0 THEN NoLock ELSE locks[k]]

Tick ==
  locks' = [k \in LockKey |->
              [locks[k] EXCEPT !.left = IF locks[k].left > 0 THEN locks[k].left - 1 ELSE 0]]
=============================================================================
