----------------------------- MODULE LeaseHistory -----------------------------
(***************************************************************************)
(* The project document with a history variable: for how long each user has  *)
(* not been able to write.  It says how long a lease may outlive the access  *)
(* of its holder, whichever of the routes took the access away              *)
(* (server/src/routes/collaboration.ts, routes/organizations.ts).          *)
(***************************************************************************)
EXTENDS ProjectDocument

VARIABLE away   \* user -> time without write access, counted up to LongestTtl

historyVars == <<vars, away>>

HistoryInit ==
  /\ Init
  /\ away = [u \in Users |-> IF CanWrite(u) THEN 0 ELSE LongestTtl]

Longer(n, passed) == IF n + passed < LongestTtl THEN n + passed ELSE LongestTtl

Count(passed) ==
  away' = [u \in Users |-> IF CanWrite(u)' THEN 0 ELSE Longer(away[u], passed)]

HistoryNext ==
  \/ Requests   /\ Count(0)
  \/ TimePasses /\ Count(1)

HistorySpec == HistoryInit /\ [][HistoryNext]_historyVars

-----------------------------------------------------------------------------
(* A lease whose holder lost write access, by whichever route, whose locks   *)
(* were not dropped with it or were dropped before the last renewal, blocks   *)
(* the others for less than the longest lease from then on: it is not taken,  *)
(* renewed or lengthened without write access (routes/collaboration.ts:300). *)
OrphanedLeaseEnds ==
  \A k \in LockKey, u \in Users : HeldBy(k, u) => away[u] < LongestTtl
===============================================================================
