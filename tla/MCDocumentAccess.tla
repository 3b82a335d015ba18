--------------------------- MODULE MCDocumentAccess ---------------------------
(***************************************************************************)
(* Three parts of the project document, checked side by side with a bound of  *)
(* their own each: the leases and the writes they are tested by, with fixed   *)
(* rights; the rights and the writes, without leases; the rights and the      *)
(* leases, with a fixed design.                                             *)
(***************************************************************************)
EXTENDS LeaseHistory, TLC

VARIABLE part

CONSTANTS owner, editor, wall, present, h1, op1, snap1

Busy(steps) == \E h \in Handlers : handler[h].pc \in steps
Labels      == \E h \in Handlers : handler[h].pc = "patch" /\ ~handler[h].save

(* What each part leaves out, and in the first one the leases longer than 1. *)
Within ==
  \/ /\ part = "leases"
     /\ UNCHANGED accessVars
     /\ ~Busy({"invite", "setRole", "remove", "dropLocks"})' /\ ~Labels'
     /\ \A k \in LockKey : locks'[k].left <= 1
  \/ /\ part = "rights"
     /\ UNCHANGED <<lockVars, away, snapshots>>
     /\ ~Busy({"snapshot", "unlock"})'
  \/ /\ part = "members"
     /\ UNCHANGED <<design, operations, snapshots, draft>>
     /\ ~Busy({"patch", "snapshot"})'

PartsInit == part \in {"leases", "rights", "members"} /\ HistoryInit

PartsNext == HistoryNext /\ Within /\ UNCHANGED part

PartsSpec == PartsInit /\ [][PartsNext]_<<historyVars, part>>
===============================================================================
