---------------------------- MODULE JobLifecycle ----------------------------
(***************************************************************************)
(* What the native job queue promises the people who submit jobs, without   *)
(* leases, tokens, workers and clocks: the phases a job goes through and    *)
(* when it has a result.  Jobs move independently, several in one step.     *)
(***************************************************************************)
EXTENDS Integers

CONSTANTS Jobs, MaxAttempts

VARIABLE job    \* job -> [phase, attempts, cancelled, results]

Is(s, phase, attempts, cancelled, results) ==
  s = [phase |-> phase, attempts |-> attempts, cancelled |-> cancelled, results |-> results]

Active  == {"queued", "running"}

Init == DOMAIN job = Jobs /\ \A j \in Jobs : Is(job[j], "none", 0, FALSE, {})

(* A job is tried at most MaxAttempts times, is published by its current     *)
(* attempt together with its success, and once it has ended only its record  *)
(* can go.  A cancelled job ends cancelled whatever its worker is doing.     *)
Pending(r)      == r.phase \in Active /\ ~r.cancelled
Submitted(r, s) == r.phase = "none" /\ Is(s, "queued", 0, FALSE, {})
Started(r, s)   == /\ Pending(r) /\ r.attempts < MaxAttempts
                   /\ Is(s, "running", r.attempts + 1, FALSE, {})
Requeued(r, s)  == /\ Pending(r) /\ r.phase = "running" /\ r.attempts < MaxAttempts
                   /\ Is(s, "queued", r.attempts, FALSE, {})
Succeeded(r, s) == /\ Pending(r) /\ r.phase = "running"
                   /\ Is(s, "succeeded", r.attempts, FALSE, {r.attempts})
Failed(r, s)    == /\ Pending(r)
                   /\ \/ Is(s, "failed", r.attempts, FALSE, {})
                      \/ /\ r.attempts < MaxAttempts         \* started and refused at once
                         /\ Is(s, "failed", r.attempts + 1, FALSE, {})
Flagged(r, s)   == r.phase = "running" /\ Is(s, "running", r.attempts, TRUE, {})
Cancelled(r, s) == /\ r.phase = "queued" \/ (r.phase = "running" /\ r.cancelled)
                   /\ Is(s, "cancelled", r.attempts, TRUE, {})
Removed(r, s)   == r.phase # "none" /\ Is(s, "deleted", r.attempts, r.cancelled, {})

Step(r, s) ==
  \/ s = r
  \/ Submitted(r, s) \/ Started(r, s) \/ Requeued(r, s) \/ Succeeded(r, s)
  \/ Failed(r, s) \/ Flagged(r, s) \/ Cancelled(r, s) \/ Removed(r, s)

Next == DOMAIN job' = Jobs /\ \A j \in Jobs : Step(job[j], job'[j])

Spec == Init /\ [][Next]_job
=============================================================================
