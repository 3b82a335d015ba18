------------------------- MODULE NativeWorkersProofs -------------------------
(***************************************************************************)
(* Theorems about the native job queue and its workers, for any number of   *)
(* jobs, workers, projects and users and any limits and lengths of leases.  *)
(***************************************************************************)
EXTENDS NativeWorkers, FiniteSetTheorems, TLAPS

(* A job that is queued is not cancelled and has an attempt left, one that is *)
(* running is in an attempt; one that has succeeded, and no other, has the    *)
(* outputs of its last attempt.                                             *)
Sound(r) ==
  /\ r.state = "queued" => ~r.cancel /\ r.attempts < MaxAttempts
  /\ r.state = "running" => r.attempts > 0
  /\ r.outputs = IF r.state = "succeeded" THEN {r.attempts} ELSE {}

AllSound == \A j \in Jobs : Sound(jobs[j])

(* Everything a step may do to one job. *)
Kept(r, s)      == s = r
Create(r, s)    == /\ r.state = "none"
                   /\ s \in Job /\ s.state = "queued" /\ s.attempts = 0 /\ s.cancel = FALSE
                   /\ s.outputs = {}
Flag(r, s)      == r.state = "running" /\ s = [r EXCEPT !.cancel = TRUE]
Withdraw(r, s)  == r.state = "queued" /\ s = [r EXCEPT !.cancel = TRUE, !.state = "cancelled"]
Remove(r, s)    == r.state # "none" /\ s = [r EXCEPT !.state = "deleted", !.until = 0, !.outputs = {}]
Requeue(r, s)   == /\ r.state = "running" /\ ~r.cancel /\ r.attempts < MaxAttempts
                   /\ s = [r EXCEPT !.state = "queued", !.until = 0]
Finish(r, s)    == /\ r.state \in Active
                   /\ s = [r EXCEPT !.state = IF r.cancel THEN "cancelled" ELSE "failed", !.until = 0]
Fit(r)          == r.state \in Active /\ ~r.cancel /\ r.attempts < MaxAttempts
Start(r, s)     == Fit(r) /\ s = [r EXCEPT !.state = "running", !.until = time + Lease, !.attempts = @ + 1]
Refuse(r, s)    == Fit(r) /\ s = [r EXCEPT !.state = "failed", !.until = 0, !.attempts = @ + 1]
Extend(r, s)    == r.state = "running" /\ \E t \in Nat : s = [r EXCEPT !.until = t]
Succeed(r, s)   == /\ r.state = "running" /\ ~r.cancel /\ time < r.expires /\ r.by \in allowed
                   /\ s = [r EXCEPT !.state = "succeeded", !.until = 0, !.outputs = @ \cup {r.attempts}]

Claimed(r, s)  == Kept(r, s) \/ Requeue(r, s) \/ Finish(r, s) \/ Start(r, s)
Moved(r, s)    == \/ Kept(r, s) \/ Create(r, s) \/ Flag(r, s) \/ Withdraw(r, s) \/ Remove(r, s)
                  \/ Requeue(r, s) \/ Finish(r, s) \/ Start(r, s) \/ Refuse(r, s)
                  \/ Extend(r, s) \/ Succeed(r, s)

-----------------------------------------------------------------------------
(* A recovered job is kept, queued again or ended. *)
LEMMA RecoveredJob ==
  ASSUME JobTypeOK, NEW j \in Jobs
  PROVE  LET s == Recovered(jobs)[j]
         IN  Kept(jobs[j], s) \/ Requeue(jobs[j], s) \/ Finish(jobs[j], s)
  <1> DEFINE r == jobs[j]
  <1>1. r \in Job
    BY DEF JobTypeOK
  <1>2. Recovered(jobs)[j] =
          IF ~Lapsed(r) THEN r
          ELSE [r EXCEPT !.until = 0,
                  !.state = IF r.cancel THEN "cancelled"
                            ELSE IF r.attempts >= MaxAttempts \/ r.expires <= time THEN "failed"
                            ELSE "queued"]
    BY DEF Recovered
  <1>3. r.attempts \in Nat /\ MaxAttempts \in Nat
    BY <1>1, JobAssumption DEF Job
  <1>4. CASE ~Lapsed(r)
    BY <1>2, <1>4 DEF Kept
  <1>5. CASE Lapsed(r) /\ ~r.cancel /\ ~(r.attempts >= MaxAttempts \/ r.expires <= time)
    <2>1. Recovered(jobs)[j] = [r EXCEPT !.until = 0, !.state = "queued"]
      BY <1>2, <1>5
    <2>2. Recovered(jobs)[j] = [r EXCEPT !.state = "queued", !.until = 0]
      BY <1>1, <2>1 DEF Job
    <2> QED BY <1>3, <1>5, <2>2 DEF Requeue, Lapsed
  <1>6. CASE Lapsed(r) /\ (r.cancel \/ r.attempts >= MaxAttempts \/ r.expires <= time)
    <2>1. Recovered(jobs)[j] = [r EXCEPT !.until = 0, !.state = IF r.cancel THEN "cancelled" ELSE "failed"]
      BY <1>2, <1>6
    <2>2. Recovered(jobs)[j] = [r EXCEPT !.state = IF r.cancel THEN "cancelled" ELSE "failed", !.until = 0]
      BY <1>1, <2>1 DEF Job
    <2> QED BY <1>6, <2>2 DEF Finish, Lapsed, Active
  <1> QED BY <1>4, <1>5, <1>6

(* What the scan of the queue does to one recovered job. *)
Ends(r, s)   == /\ r.state = "queued"
                /\ s = [r EXCEPT !.until = 0, !.state = IF r.cancel THEN "cancelled" ELSE "failed"]
Starts(r, s) == /\ r.state = "queued"
                /\ s = [r EXCEPT !.state = "running", !.until = time + Lease, !.attempts = @ + 1]
Scanned(r, s, picked) == IF picked THEN Starts(r, s) ELSE s = r \/ Ends(r, s)

LEMMA ScannedJob ==
  ASSUME JobTypeOK, NEW scope, NEW local, NEW scan \in Claims(scope, local)
  PROVE  /\ scan.table = [j \in Jobs |-> scan.table[j]]
         /\ scan.started \subseteq Jobs
         /\ \A j \in Jobs : Scanned(Recovered(jobs)[j], scan.table[j], j \in scan.started)
  <1> DEFINE js    == Recovered(jobs)
             queue == {j \in InState(js, {"queued"}) : js[j].project \in scope}
             dead  == {j \in queue : Unclaimable(js[j], local)}
             fit   == queue \ dead
             X     == {x \in [job : fit, swept : SUBSET dead] :
                        /\ \A k \in fit : js[x.job].created <= js[k].created
                        /\ \A d \in dead : /\ js[d].created < js[x.job].created => d \in x.swept
                                          /\ d \in x.swept => js[d].created <= js[x.job].created}
             R(q)  == [table |-> Started(Ended(js, q.swept), q.job), started |-> {q.job}]
  <1>1. js = [j \in Jobs |-> js[j]]
    BY DEF Recovered
  <1>2. \A j \in queue : j \in Jobs /\ js[j].state = "queued"
    BY DEF InState
  <1>3. \/ scan = [table |-> js, started |-> {}]
        \/ scan = [table |-> Ended(js, dead), started |-> {}]
        \/ \E q \in X : scan = R(q)
    BY DEF Claims, Scans
  <1>4. CASE scan = [table |-> js, started |-> {}]
    BY <1>1, <1>4 DEF Scanned
  <1>5. CASE scan = [table |-> Ended(js, dead), started |-> {}]
    <2> HIDE DEF js
    <2>1. scan.started = {} /\ scan.table = Ended(js, dead)
      BY <1>5
    <2>2. \A j \in dead : j \in Jobs /\ js[j].state = "queued"
      BY <1>2
    <2> HIDE DEF dead
    <2> QED BY <1>1, <2>1, <2>2 DEF Ended, Scanned, Ends, js
  <1>6. CASE \E q \in X : scan = R(q)
    <2>1. PICK q \in X : scan = R(q)
      BY <1>6
    <2>2. q.job \in queue /\ q.swept \subseteq queue /\ q.job \notin q.swept
      OBVIOUS
    <2> HIDE DEF X, fit, dead
    <2>3. scan.started = {q.job} /\ scan.table = Started(Ended(js, q.swept), q.job)
      BY <2>1
    <2>4. q.job \in Jobs /\ js[q.job].state = "queued"
            /\ \A j \in q.swept : j \in Jobs /\ js[j].state = "queued"
      BY <1>2, <2>2
    <2> HIDE DEF queue, js, R
    <2> DEFINE e == Ended(js, q.swept)
    <2>5. /\ e = [j \in Jobs |-> e[j]]
          /\ e[q.job] = js[q.job]
          /\ \A j \in Jobs : j \notin q.swept => e[j] = js[j]
          /\ \A j \in q.swept : e[j] = [js[j] EXCEPT !.until = 0,
                                         !.state = IF js[j].cancel THEN "cancelled" ELSE "failed"]
      BY <2>2, <2>4 DEF Ended
    <2> HIDE DEF e
    <2>6. /\ scan.table = [j \in Jobs |-> scan.table[j]]
          /\ scan.table[q.job] = [js[q.job] EXCEPT !.state = "running", !.until = time + Lease,
                                                   !.attempts = @ + 1]
          /\ \A j \in Jobs : j # q.job => scan.table[j] = e[j]
      BY <2>3, <2>4, <2>5 DEF Started, e
    <2>7. ASSUME NEW j \in Jobs
          PROVE  Scanned(js[j], scan.table[j], j \in scan.started)
      <3>1. CASE j = q.job
        BY <2>3, <2>4, <2>6, <3>1 DEF Scanned, Starts
      <3>2. CASE j # q.job /\ j \in q.swept
        <4>1. j \notin scan.started /\ scan.table[j] = e[j] /\ js[j].state = "queued"
          BY <2>3, <2>4, <2>6, <3>2
        <4>2. e[j] = [js[j] EXCEPT !.until = 0,
                                   !.state = IF js[j].cancel THEN "cancelled" ELSE "failed"]
          BY <2>5, <3>2, Zenon
        <4>3. Ends(js[j], scan.table[j])
          BY <4>1, <4>2, Zenon DEF Ends
        <4> QED BY <4>1, <4>3, Zenon DEF Scanned
      <3>3. CASE j # q.job /\ j \notin q.swept
        BY <2>3, <2>5, <2>6, <3>3 DEF Scanned
      <3> QED BY <3>1, <3>2, <3>3
    <2> QED BY <2>3, <2>4, <2>6, <2>7 DEF js
  <1> QED BY <1>3, <1>4, <1>5, <1>6

LEMMA ClaimedJob ==
  ASSUME JobTypeOK, AllSound, NEW scope, NEW local, NEW scan \in Claims(scope, local), NEW j \in Jobs
  PROVE  /\ Claimed(jobs[j], scan.table[j])
         /\ j \in scan.started => Start(jobs[j], scan.table[j])
  <1> DEFINE r == jobs[j]
             m == Recovered(jobs)[j]
             s == scan.table[j]
  <1>1. r \in Job
    BY DEF JobTypeOK
  <1>2. Kept(r, m) \/ Requeue(r, m) \/ Finish(r, m)
    BY RecoveredJob
  <1>3. j \in scan.started => Starts(m, s)
    BY ScannedJob DEF Scanned
  <1>4. j \notin scan.started => s = m \/ Ends(m, s)
    BY ScannedJob DEF Scanned
  <1> HIDE DEF m, s
  <1>5. CASE Kept(r, m)
    <2>1. m = r
      BY <1>5 DEF Kept
    <2>2. Starts(r, s) => Start(r, s)
      BY DEF Starts, Start, Fit, Active, AllSound, Sound
    <2>3. Ends(r, s) => Finish(r, s)
      <3>1. [r EXCEPT !.until = 0, !.state = IF r.cancel THEN "cancelled" ELSE "failed"]
              = [r EXCEPT !.state = IF r.cancel THEN "cancelled" ELSE "failed", !.until = 0]
        BY <1>1 DEF Job
      <3> QED BY <3>1 DEF Ends, Finish, Active
    <2> QED BY <1>3, <1>4, <2>1, <2>2, <2>3 DEF Claimed, Kept, s
  <1>6. CASE Requeue(r, m)
    <2>1. m = [r EXCEPT !.state = "queued", !.until = 0] /\ r.state = "running" /\ ~r.cancel
            /\ r.attempts < MaxAttempts
      BY <1>6 DEF Requeue
    <2>2. Starts(m, s) => Start(r, s)
      <3>1. [m EXCEPT !.state = "running", !.until = time + Lease, !.attempts = @ + 1]
              = [r EXCEPT !.state = "running", !.until = time + Lease, !.attempts = @ + 1]
        BY <1>1, <2>1 DEF Job
      <3> QED BY <2>1, <3>1 DEF Starts, Start, Fit, Active
    <2>3. Ends(m, s) => Finish(r, s)
      <3>1. [m EXCEPT !.until = 0, !.state = IF m.cancel THEN "cancelled" ELSE "failed"]
              = [r EXCEPT !.state = IF r.cancel THEN "cancelled" ELSE "failed", !.until = 0]
        BY <1>1, <2>1 DEF Job
      <3> QED BY <2>1, <3>1 DEF Ends, Finish, Active
    <2>4. CASE s = m
      BY <1>3, <1>4, <1>6, <2>2, <2>4 DEF Claimed, s
    <2> QED BY <1>3, <1>4, <2>2, <2>3, <2>4 DEF Claimed, s
  <1>7. CASE Finish(r, m)
    <2>1. m.state # "queued"
      BY <1>1, <1>7 DEF Finish, Job
    <2> QED BY <1>3, <1>4, <1>7, <2>1 DEF Claimed, Starts, Ends, s
  <1> QED BY <1>2, <1>5, <1>6, <1>7

-----------------------------------------------------------------------------
(* Each of these moves keeps a job's type and soundness... *)
LEMMA TypedMove ==
  ASSUME NEW r \in Job, NEW s, Sound(r), time \in Nat, Moved(r, s)
  PROVE  s \in Job /\ Sound(s)
  <1> USE JobAssumption
  <1>0. /\ r.attempts \in 0..MaxAttempts /\ MaxAttempts \in Nat \ {0} /\ time + Lease \in Nat
    BY DEF Job
  <1>1. CASE Kept(r, s)
    BY <1>1 DEF Kept
  <1>2. CASE Create(r, s)
    BY <1>0, <1>2 DEF Create, Sound
  <1>3. CASE Flag(r, s)
    <2>1. s \in Job
      BY <1>3 DEF Flag, Job
    <2>2. s.state = "running" /\ s.attempts = r.attempts /\ s.outputs = r.outputs
      BY <1>3 DEF Flag, Job
    <2> QED BY <1>3, <2>1, <2>2 DEF Flag, Sound
  <1>4. CASE Withdraw(r, s)
    <2>1. s \in Job
      BY <1>4 DEF Withdraw, Job, Terminal
    <2>2. s.state = "cancelled" /\ s.outputs = r.outputs
      BY <1>4 DEF Withdraw, Job
    <2> QED BY <1>4, <2>1, <2>2 DEF Withdraw, Sound
  <1>5. CASE Remove(r, s)
    <2>1. s \in Job
      BY <1>5 DEF Remove, Job
    <2>2. s.state = "deleted" /\ s.outputs = {}
      BY <1>5 DEF Remove, Job
    <2> QED BY <2>1, <2>2 DEF Sound
  <1>6. CASE Requeue(r, s)
    <2>1. s \in Job
      BY <1>6 DEF Requeue, Job, Active
    <2>2. /\ s.state = "queued" /\ s.outputs = r.outputs /\ s.attempts = r.attempts
          /\ s.cancel = r.cancel
      BY <1>6 DEF Requeue, Job
    <2> QED BY <1>6, <2>1, <2>2 DEF Requeue, Sound
  <1>7. CASE Finish(r, s)
    <2>1. PICK x \in {"cancelled", "failed"} : s = [r EXCEPT !.state = x, !.until = 0]
      BY <1>7 DEF Finish
    <2>2. s \in Job
      BY <2>1 DEF Job, Terminal
    <2>3. s.state = x /\ s.outputs = r.outputs
      BY <2>1 DEF Job
    <2> QED BY <1>7, <2>2, <2>3 DEF Finish, Active, Sound
  <1>8. CASE Start(r, s)
    <2>1. s \in Job
      <3>1. r.attempts + 1 \in 0..MaxAttempts
        BY <1>0, <1>8 DEF Start, Fit
      <3> QED BY <1>0, <1>8, <3>1 DEF Start, Job, Active
    <2>2. s.state = "running" /\ s.outputs = r.outputs /\ s.attempts = r.attempts + 1
      BY <1>8 DEF Start, Job
    <2> QED BY <1>0, <1>8, <2>1, <2>2 DEF Start, Fit, Active, Sound
  <1>9. CASE Refuse(r, s)
    <2>1. s \in Job
      <3>1. r.attempts + 1 \in 0..MaxAttempts
        BY <1>0, <1>9 DEF Refuse, Fit
      <3> QED BY <1>9, <3>1 DEF Refuse, Job, Terminal
    <2>2. s.state = "failed" /\ s.outputs = r.outputs
      BY <1>9 DEF Refuse, Job
    <2> QED BY <1>9, <2>1, <2>2 DEF Refuse, Fit, Active, Sound
  <1>10. CASE Extend(r, s)
    <2>1. s \in Job
      BY <1>10 DEF Extend, Job
    <2>2. s.state = "running" /\ s.outputs = r.outputs /\ s.attempts = r.attempts
      BY <1>10 DEF Extend, Job
    <2> QED BY <1>10, <2>1, <2>2 DEF Extend, Sound
  <1>11. CASE Succeed(r, s)
    <2>1. r.outputs = {} /\ r.attempts \in Attempt
      BY <1>0, <1>11 DEF Succeed, Sound, Attempt
    <2>2. s \in Job
      <3>1. r.outputs \cup {r.attempts} \in SUBSET Attempt
        BY <2>1
      <3> QED BY <1>11, <3>1 DEF Succeed, Job, Terminal
    <2>3. s.state = "succeeded" /\ s.outputs = {r.attempts} /\ s.attempts = r.attempts
      BY <1>11, <2>1 DEF Succeed, Job
    <2> QED BY <2>2, <2>3 DEF Sound
  <1> QED BY <1>1, <1>2, <1>3, <1>4, <1>5, <1>6, <1>7, <1>8, <1>9, <1>10, <1>11 DEF Moved

LEMMA ViewFields ==
  ASSUME NEW r
  PROVE  /\ View(r).phase = r.state /\ View(r).attempts = r.attempts
         /\ View(r).cancelled = r.cancel /\ View(r).results = r.outputs
  BY DEF View

(* ... and is a step of its life cycle. *)
LEMMA LifecycleMove ==
  ASSUME NEW r \in Job, NEW s, Sound(r), Moved(r, s)
  PROVE  JL!Step(View(r), View(s))
  <1>0. /\ View(r).phase = r.state /\ View(r).attempts = r.attempts
        /\ View(r).cancelled = r.cancel /\ View(r).results = r.outputs
    BY ViewFields
  <1>1. CASE Kept(r, s)
    BY <1>1 DEF Kept, JL!Step
  <1>2. CASE Create(r, s)
    <2>1. s.state = "queued" /\ s.attempts = 0 /\ s.cancel = FALSE /\ s.outputs = {}
      BY <1>2 DEF Create, Sound, Active, Fit, Job
    <2>2. JL!Is(View(s), "queued", 0, FALSE, {})
      BY <2>1, Zenon DEF View, JL!Is
    <2>3. JL!Submitted(View(r), View(s))
      BY <1>0, <1>2, <2>2 DEF Create, Fit, Active, JL!Submitted
    <2> QED BY <2>3 DEF JL!Step
  <1>3. CASE Flag(r, s)
    <2>1. s.state = "running" /\ s.attempts = r.attempts /\ s.cancel = TRUE /\ s.outputs = {}
      BY <1>3 DEF Flag, Sound, Active, Fit, Job
    <2>2. JL!Is(View(s), "running", r.attempts, TRUE, {})
      BY <2>1, Zenon DEF View, JL!Is
    <2>3. JL!Flagged(View(r), View(s))
      BY <1>0, <1>3, <2>2 DEF Flag, Fit, Active, JL!Flagged
    <2> QED BY <2>3 DEF JL!Step
  <1>4. CASE Withdraw(r, s)
    <2>1. s.state = "cancelled" /\ s.attempts = r.attempts /\ s.cancel = TRUE /\ s.outputs = {}
      BY <1>4 DEF Withdraw, Sound, Active, Fit, Job
    <2>2. JL!Is(View(s), "cancelled", r.attempts, TRUE, {})
      BY <2>1, Zenon DEF View, JL!Is
    <2>3. JL!Cancelled(View(r), View(s))
      BY <1>0, <1>4, <2>2 DEF Withdraw, Fit, Active, JL!Cancelled
    <2> QED BY <2>3 DEF JL!Step
  <1>5. CASE Remove(r, s)
    <2>1. s.state = "deleted" /\ s.attempts = r.attempts /\ s.cancel = r.cancel /\ s.outputs = {}
      BY <1>5 DEF Remove, Sound, Active, Fit, Job
    <2>2. JL!Is(View(s), "deleted", r.attempts, r.cancel, {})
      BY <2>1, Zenon DEF View, JL!Is
    <2>3. JL!Removed(View(r), View(s))
      BY <1>0, <1>5, <2>2 DEF Remove, Fit, Active, JL!Removed
    <2> QED BY <2>3 DEF JL!Step
  <1>6. CASE Requeue(r, s)
    <2>1. s.state = "queued" /\ s.attempts = r.attempts /\ s.cancel = FALSE /\ s.outputs = {}
      BY <1>6 DEF Requeue, Sound, Active, Fit, Job
    <2>2. JL!Is(View(s), "queued", r.attempts, FALSE, {})
      BY <2>1, Zenon DEF View, JL!Is
    <2>3. JL!Requeued(View(r), View(s))
      BY <1>0, <1>6, <2>2 DEF Requeue, Fit, Active, JL!Requeued, JL!Pending, JL!Active
    <2> QED BY <2>3 DEF JL!Step
  <1>7. CASE Finish(r, s)
    <2>1. CASE r.cancel
      <3>1. r.state = "running"
        BY <1>7, <2>1 DEF Finish, Active, Sound
      <3>2. s.state = "cancelled" /\ s.attempts = r.attempts /\ s.cancel = TRUE /\ s.outputs = {}
        BY <1>7, <2>1, <3>1 DEF Finish, Job, Sound
      <3>3. JL!Is(View(s), "cancelled", r.attempts, TRUE, {})
        BY <3>2, Zenon DEF View, JL!Is
      <3>4. JL!Cancelled(View(r), View(s))
        BY <1>0, <2>1, <3>1, <3>3 DEF JL!Cancelled
      <3> QED BY <3>4 DEF JL!Step
    <2>2. CASE ~r.cancel
      <3>1. s.state = "failed" /\ s.attempts = r.attempts /\ s.cancel = FALSE /\ s.outputs = {}
        BY <1>7, <2>2 DEF Finish, Job, Active, Sound
      <3>2. JL!Is(View(s), "failed", r.attempts, FALSE, {})
        BY <3>1, Zenon DEF View, JL!Is
      <3>3. JL!Failed(View(r), View(s))
        BY <1>0, <1>7, <2>2, <3>2 DEF Finish, Active, JL!Failed, JL!Pending, JL!Active
      <3> QED BY <3>3 DEF JL!Step
    <2> QED BY <2>1, <2>2
  <1>8. CASE Start(r, s)
    <2>1. s.state = "running" /\ s.attempts = r.attempts + 1 /\ s.cancel = FALSE /\ s.outputs = {}
      BY <1>8 DEF Start, Sound, Active, Fit, Job
    <2>2. JL!Is(View(s), "running", r.attempts + 1, FALSE, {})
      BY <2>1, Zenon DEF View, JL!Is
    <2>3. JL!Started(View(r), View(s))
      BY <1>0, <1>8, <2>2 DEF Start, Fit, Active, JL!Started, JL!Pending, JL!Active
    <2> QED BY <2>3 DEF JL!Step
  <1>9. CASE Refuse(r, s)
    <2>1. s.state = "failed" /\ s.attempts = r.attempts + 1 /\ s.cancel = FALSE /\ s.outputs = {}
      BY <1>9 DEF Refuse, Sound, Active, Fit, Job
    <2>2. JL!Is(View(s), "failed", r.attempts + 1, FALSE, {})
      BY <2>1, Zenon DEF View, JL!Is
    <2>3. JL!Failed(View(r), View(s))
      BY <1>0, <1>9, <2>2 DEF Refuse, Fit, Active, JL!Failed, JL!Pending, JL!Active
    <2> QED BY <2>3 DEF JL!Step
  <1>10. CASE Extend(r, s)
    <2>1. s.state = r.state /\ s.attempts = r.attempts /\ s.cancel = r.cancel /\ s.outputs = r.outputs
      BY <1>10 DEF Extend, Job
    <2> QED BY <2>1, Zenon DEF View, JL!Step
  <1>11. CASE Succeed(r, s)
    <2>1. s.state = "succeeded" /\ s.attempts = r.attempts /\ s.cancel = FALSE /\ s.outputs = {r.attempts}
      BY <1>11 DEF Succeed, Sound, Active, Fit, Job
    <2>2. JL!Is(View(s), "succeeded", r.attempts, FALSE, {r.attempts})
      BY <2>1, Zenon DEF View, JL!Is
    <2>3. JL!Succeeded(View(r), View(s))
      BY <1>0, <1>11, <2>2 DEF Succeed, Fit, Active, JL!Succeeded, JL!Pending, JL!Active
    <2> QED BY <2>3 DEF JL!Step
  <1> QED BY <1>1, <1>2, <1>3, <1>4, <1>5, <1>6, <1>7, <1>8, <1>9, <1>10, <1>11 DEF Moved

-----------------------------------------------------------------------------
(* Every step moves every job in one of these ways. *)
Moves == jobs' = [j \in Jobs |-> jobs'[j]] /\ \A j \in Jobs : Moved(jobs[j], jobs'[j])

LEMMA NoMove ==
  ASSUME JobTypeOK, UNCHANGED jobs
  PROVE  Moves
  BY DEF JobTypeOK, Moves, Moved, Kept

LEMMA OneMove ==
  ASSUME JobTypeOK, NEW k \in Jobs, NEW s, jobs' = [jobs EXCEPT ![k] = s], Moved(jobs[k], s)
  PROVE  Moves
  <1>1. jobs = [j \in Jobs |-> jobs[j]]
    BY DEF JobTypeOK
  <1>2. jobs' = [j \in Jobs |-> jobs'[j]] /\ jobs'[k] = s /\ \A j \in Jobs : j # k => jobs'[j] = jobs[j]
    BY <1>1
  <1> QED BY <1>2 DEF Moves, Moved, Kept

LEMMA EndMoves ==
  ASSUME JobTypeOK, NEW k \in Jobs, jobs[k].state = "running", End(k)
  PROVE  Moves
  <1> DEFINE e == [jobs[k] EXCEPT !.state = IF jobs[k].cancel THEN "cancelled" ELSE "failed", !.until = 0]
  <1>1. /\ jobs' = [j \in Jobs |-> jobs'[j]]
        /\ jobs'[k] = [jobs[k] EXCEPT !.until = 0,
                         !.state = IF jobs[k].cancel THEN "cancelled" ELSE "failed"]
        /\ \A j \in Jobs : j # k => jobs'[j] = jobs[j]
    BY DEF End, Ended
  <1>2. jobs'[k] = e
    BY <1>1 DEF JobTypeOK, Job
  <1>3. Finish(jobs[k], jobs'[k])
    BY <1>2 DEF Finish, Active
  <1> QED BY <1>1, <1>3 DEF Moves, Moved, Kept

LEMMA RenewedMoves ==
  ASSUME JobTypeOK, NEW c, c.job \in Jobs, Renewed(c)
  PROVE  Moves
  <1>1. CASE ~Owned(c)
    BY <1>1, NoMove DEF Renewed
  <1>2. CASE Owned(c) /\ Settled(jobs[c.job])
    BY <1>2, EndMoves DEF Renewed, Owned
  <1>3. CASE Owned(c) /\ ~Settled(jobs[c.job])
    <2> DEFINE t == Earlier(time + Lease, jobs[c.job].expires)
               s == [jobs[c.job] EXCEPT !.until = t]
    <2>1. t \in Nat
      BY JobAssumption DEF Earlier, JobTypeOK, Job
    <2>2. Moved(jobs[c.job], s)
      <3> HIDE DEF t
      <3> QED BY <1>3, <2>1 DEF Moved, Extend, Owned
    <2>3. jobs' = [jobs EXCEPT ![c.job] = s]
      BY <1>3 DEF Renewed
    <2> HIDE DEF s
    <2> QED BY <2>2, <2>3, OneMove
  <1> QED BY <1>1, <1>2, <1>3

LEMMA ClaimMoves ==
  ASSUME TypeOK, AllSound, NEW w \in Workers, Claim(w)
  PROVE  Moves
  <1>0. JobTypeOK
    BY DEF TypeOK
  <1>1. PICK scan \in Claims(Scope[w], w \notin Remote) :
          \/ jobs' = scan.table
          \/ jobs' = Ended(scan.table, scan.started)
    BY DEF Claim
  <1>2. /\ scan.table = [j \in Jobs |-> scan.table[j]]
        /\ scan.started \subseteq Jobs
    BY <1>0, ScannedJob
  <1>3. \A j \in Jobs : /\ Claimed(jobs[j], scan.table[j])
                        /\ j \in scan.started => Start(jobs[j], scan.table[j])
    BY <1>0, ClaimedJob
  <1>4. CASE jobs' = scan.table
    BY <1>2, <1>3, <1>4 DEF Moves, Moved, Claimed
  <1>5. CASE jobs' = Ended(scan.table, scan.started)
    <2>1. jobs' = [j \in Jobs |-> jobs'[j]]
      BY <1>5 DEF Ended
    <2>2. ASSUME NEW j \in Jobs
          PROVE  Moved(jobs[j], jobs'[j])
      <3>1. CASE j \notin scan.started
        BY <1>3, <1>5, <3>1 DEF Ended, Moved, Claimed
      <3>2. CASE j \in scan.started
        <4> DEFINE r == jobs[j]
                   m == scan.table[j]
        <4>1. r \in Job
          BY <1>0 DEF JobTypeOK
        <4>2. Fit(r) /\ m = [r EXCEPT !.state = "running", !.until = time + Lease, !.attempts = @ + 1]
          BY <1>3, <3>2 DEF Start
        <4>3. m.cancel = r.cancel
          BY <4>1, <4>2 DEF Job
        <4>4. jobs'[j] = [m EXCEPT !.until = 0, !.state = IF m.cancel THEN "cancelled" ELSE "failed"]
          BY <1>5, <3>2 DEF Ended
        <4> HIDE DEF r, m
        <4>5. jobs'[j] = [m EXCEPT !.until = 0, !.state = "failed"]
          BY <4>2, <4>3, <4>4 DEF Fit
        <4>6. jobs'[j] = [r EXCEPT !.state = "failed", !.until = 0, !.attempts = @ + 1]
          BY <4>1, <4>2, <4>5 DEF Job
        <4> QED BY <4>2, <4>6 DEF Moved, Refuse, r
      <3> QED BY <3>1, <3>2
    <2> QED BY <2>1, <2>2 DEF Moves
  <1> QED BY <1>1, <1>4, <1>5

LEMMA RequestMoves ==
  ASSUME JobTypeOK, AllSound
  PROVE  /\ \A j \in Jobs, u \in Users, p \in Projects : Submit(j, u, p) => Moves
         /\ \A j \in Jobs : Cancel(j) \/ Delete(j) => Moves
         /\ \A p \in Projects : DeleteProject(p) => Moves
  <1>1. ASSUME NEW j \in Jobs, NEW u \in Users, NEW p \in Projects, Submit(j, u, p)
        PROVE  Moves
    <2> DEFINE s == [Unused EXCEPT !.state = "queued", !.project = p, !.by = u,
                                   !.created = time, !.expires = time + Deadline]
    <2>1. time \in Nat /\ time + Deadline \in Nat /\ 0 \in 0..MaxAttempts
      BY JobAssumption DEF JobTypeOK
    <2>2. Unused \in Job /\ Unused.attempts = 0 /\ Unused.cancel = FALSE /\ Unused.outputs = {}
      BY <2>1, JobAssumption DEF Unused, Job
    <2>4. s \in Job /\ s.state = "queued" /\ s.attempts = 0 /\ s.cancel = FALSE /\ s.outputs = {}
      BY <2>1, <2>2 DEF Job, Active
    <2>3. jobs' = [jobs EXCEPT ![j] = s] /\ jobs[j].state = "none"
      BY <1>1 DEF Submit
    <2> HIDE DEF s
    <2>5. Moved(jobs[j], s)
      BY <2>3, <2>4 DEF Moved, Create
    <2> QED BY <2>3, <2>5, OneMove
  <1>2. ASSUME NEW j \in Jobs, Cancel(j)
        PROVE  Moves
    <2> DEFINE r == jobs[j]
               s == [r EXCEPT !.cancel = TRUE, !.state = IF @ = "queued" THEN "cancelled" ELSE @]
    <2>1. r \in Job
      BY DEF JobTypeOK
    <2>2. jobs' = [jobs EXCEPT ![j] = s] /\ r.state \in Active
      BY <1>2 DEF Cancel
    <2>3. CASE r.state = "queued"
      <3>1. s = [r EXCEPT !.cancel = TRUE, !.state = "cancelled"]
        BY <2>1, <2>3 DEF Job
      <3> HIDE DEF r, s
      <3>2. Moved(r, s)
        BY <2>3, <3>1 DEF Moved, Withdraw
      <3> QED BY <2>2, <3>2, OneMove DEF r
    <2>4. CASE r.state = "running"
      <3>1. s = [r EXCEPT !.cancel = TRUE]
        BY <2>1, <2>4 DEF Job
      <3> HIDE DEF r, s
      <3>2. Moved(r, s)
        BY <2>4, <3>1 DEF Moved, Flag
      <3> QED BY <2>2, <3>2, OneMove DEF r
    <2> QED BY <2>2, <2>3, <2>4 DEF Active
  <1>3. ASSUME NEW j \in Jobs, Delete(j)
        PROVE  Moves
    <2> DEFINE s == [jobs[j] EXCEPT !.state = "deleted", !.until = 0, !.outputs = {}]
    <2>1. jobs' = [jobs EXCEPT ![j] = s] /\ jobs[j].state # "none"
      BY <1>3 DEF Delete, Removed, Terminal
    <2>2. Moved(jobs[j], s)
      BY <2>1 DEF Moved, Remove
    <2> HIDE DEF s
    <2> QED BY <2>1, <2>2, OneMove
  <1>4. ASSUME NEW p \in Projects, DeleteProject(p)
        PROVE  Moves
    BY <1>4 DEF DeleteProject, Moves, Moved, Kept, Remove
  <1> QED BY <1>1, <1>2, <1>3, <1>4

LEMMA WorkerMoves ==
  ASSUME TypeOK, AllSound, NEW w \in Workers,
         Heartbeat(w) \/ PublishFails(w) \/ Works(w) \/ Crash(w)
  PROVE  Moves
  <1> DEFINE c == worker[w]
  <1>0. JobTypeOK
    BY DEF TypeOK
  <1>1. c.pc # "idle" => c \in Busy
    BY DEF TypeOK, Resting
  <1>2. CASE Heartbeat(w) \/ FirstRenewal(w)
    <2>1. c.pc # "idle" /\ Renewed(c)
      BY <1>2 DEF Heartbeat, FirstRenewal
    <2> HIDE DEF c
    <2> QED BY <1>0, <1>1, <2>1, RenewedMoves DEF Busy
  <1>3. CASE PublishFails(w) \/ Crash(w) \/ Execute(w)
    BY <1>0, <1>3, NoMove DEF PublishFails, Crash, Execute, jobVars
  <1>4. CASE Stage(w)
    <2>1. c.pc # "idle" /\ (UNCHANGED jobs \/ (Owned(c) /\ End(c.job)))
      BY <1>4 DEF Stage
    <2> HIDE DEF c
    <2> QED BY <1>0, <1>1, <2>1, NoMove, EndMoves DEF Owned, Busy
  <1>5. CASE PublishRefused(w)
    <2>1. c.pc # "idle" /\ (UNCHANGED jobs \/ (Owned(c) /\ End(c.job)))
      BY <1>5 DEF PublishRefused
    <2> HIDE DEF c
    <2> QED BY <1>0, <1>1, <2>1, NoMove, EndMoves DEF Owned, Busy
  <1>6. CASE ReportFailure(w)
    <2>1. c.pc # "idle" /\ (UNCHANGED jobs \/ (Owned(c) /\ End(c.job)))
      BY <1>6 DEF ReportFailure
    <2> HIDE DEF c
    <2> QED BY <1>0, <1>1, <2>1, NoMove, EndMoves DEF Owned, Busy
  <1>7. CASE Publish(w)
    <2> DEFINE r == jobs[c.job]
               s == [r EXCEPT !.state = "succeeded", !.until = 0, !.outputs = @ \cup {c.attempt}]
    <2>1. c.pc # "idle" /\ Good(c) /\ jobs' = [jobs EXCEPT ![c.job] = s]
      BY <1>7 DEF Publish
    <2>2. c.job \in Jobs
      BY <1>1, <2>1 DEF Busy
    <2>3. /\ r.state = "running" /\ r.attempts = c.attempt
          /\ ~r.cancel /\ ~(r.expires <= time) /\ r.by \in allowed
      BY <2>1 DEF Good, Owned, Settled
    <2>4. time < r.expires
      BY <1>0, <2>2, <2>3, JobAssumption DEF JobTypeOK, Job
    <2>5. Moved(r, s)
      BY <2>3, <2>4 DEF Moved, Succeed
    <2> HIDE DEF s
    <2> QED BY <1>0, <2>1, <2>2, <2>5, OneMove
  <1> QED BY <1>2, <1>3, <1>4, <1>5, <1>6, <1>7 DEF Works

LEMMA StepMoves ==
  ASSUME TypeOK, AllSound, [Next]_vars
  PROVE  Moves
  <1>0. JobTypeOK
    BY DEF TypeOK
  <1>1. CASE \/ \E j \in Jobs, u \in Users, p \in Projects : Submit(j, u, p)
             \/ \E j \in Jobs : Cancel(j) \/ Delete(j)
             \/ \E p \in Projects : DeleteProject(p)
    BY <1>0, <1>1, RequestMoves
  <1>2. CASE \E w \in Workers : Claim(w) \/ Heartbeat(w) \/ PublishFails(w) \/ Works(w) \/ Crash(w)
    BY <1>2, ClaimMoves, WorkerMoves
  <1>3. CASE AccessChanges \/ TimePasses \/ UNCHANGED vars
    BY <1>0, <1>3, NoMove DEF AccessChanges, TimePasses, vars, jobVars
  <1> QED BY <1>1, <1>2, <1>3 DEF Next

-----------------------------------------------------------------------------
Inv == TypeOK /\ AllSound

LEMMA InitInv == Init => Inv
  <1> SUFFICES ASSUME Init PROVE Inv
    OBVIOUS
  <1>1. /\ Unused \in Job /\ Unused.state = "none" /\ Unused.outputs = {}
    BY JobAssumption DEF Unused, Job
  <1>2. \A j \in Jobs : jobs[j] = Unused
    BY DEF Init, JobInit
  <1>3. jobs \in [Jobs -> Job]
    BY <1>1 DEF Init, JobInit
  <1>4. [a \in Attempt |-> 0] \in [Attempt -> 0..Chunks]
    BY JobAssumption
  <1>5. TypeOK
    BY <1>3, <1>4, JobAssumption DEF TypeOK, JobTypeOK, Init, JobInit
  <1>6. AllSound
    BY <1>1, <1>2 DEF AllSound, Sound
  <1> QED BY <1>5, <1>6 DEF Inv

(* The staged rows stay within the size of the outputs. *)
LEMMA StagedType ==
  ASSUME TypeOK, [Next]_vars
  PROVE  staged' \in [Jobs -> [Attempt -> 0..Chunks]]
  <1> DEFINE S == [Jobs -> [Attempt -> 0..Chunks]]
             none == [a \in Attempt |-> 0]
  <1>0. staged \in S /\ none \in [Attempt -> 0..Chunks]
    BY JobAssumption DEF TypeOK, JobTypeOK
  <1>1. ASSUME NEW k \in Jobs, NEW a \in Attempt, NEW n \in 0..Chunks,
               staged' = [staged EXCEPT ![k][a] = n]
        PROVE  staged' \in S
    BY <1>0, <1>1
  <1>2. CASE UNCHANGED staged
    BY <1>0, <1>2
  <1>3. CASE \E j \in Jobs : Delete(j)
    BY <1>0, <1>3 DEF Delete, Removed
  <1>4. CASE \E p \in Projects : DeleteProject(p)
    BY <1>0, <1>4 DEF DeleteProject
  <1>5. CASE staged' = Cleaned
    BY <1>0, <1>5, JobAssumption DEF Cleaned
  <1>6. ASSUME NEW w \in Workers, worker[w].pc \in {"ready", "failing"}
        PROVE  worker[w].job \in Jobs /\ worker[w].attempt \in Attempt
    BY <1>6 DEF TypeOK, Resting, Busy
  <1>7. ASSUME NEW w \in Workers, Stage(w), ~UNCHANGED staged
        PROVE  staged' \in S
    <2> DEFINE c == worker[w]
    <2>1. c.job \in Jobs /\ c.attempt \in Attempt
      BY <1>6, <1>7 DEF Stage
    <2>2. /\ staged[c.job][c.attempt] < Chunks
          /\ staged' = [staged EXCEPT ![c.job][c.attempt] = staged[c.job][c.attempt] + 1]
      BY <1>7 DEF Stage
    <2>3. staged[c.job][c.attempt] + 1 \in 0..Chunks
      BY <1>0, <2>1, <2>2, JobAssumption
    <2> HIDE DEF c, S
    <2> QED BY <1>1, <2>1, <2>2, <2>3
  <1>8. ASSUME NEW w \in Workers, Publish(w) \/ ReportFailure(w), ~UNCHANGED staged
        PROVE  staged' \in S
    <2>1. worker[w].job \in Jobs /\ worker[w].attempt \in Attempt
      BY <1>6, <1>8 DEF Publish, ReportFailure
    <2>2. staged' = [staged EXCEPT ![worker[w].job][worker[w].attempt] = 0]
      BY <1>8 DEF Publish, ReportFailure
    <2>3. 0 \in 0..Chunks
      BY JobAssumption
    <2> HIDE DEF S
    <2> QED BY <1>1, <2>1, <2>2, <2>3
  <1>9. CASE \E w \in Workers : Claim(w)
    BY <1>2, <1>5, <1>9 DEF Claim
  <1>10. CASE \E w \in Workers : Heartbeat(w) \/ PublishFails(w) \/ Works(w) \/ Crash(w)
    BY <1>2, <1>7, <1>8, <1>10
       DEF Heartbeat, PublishFails, Works, Crash, FirstRenewal, Execute, PublishRefused, jobVars
  <1>11. CASE \/ \E j \in Jobs, u \in Users, p \in Projects : Submit(j, u, p)
              \/ \E j \in Jobs : Cancel(j)
    BY <1>2, <1>11 DEF Submit, Cancel
  <1>12. CASE AccessChanges \/ TimePasses \/ UNCHANGED vars
    BY <1>2, <1>12 DEF AccessChanges, TimePasses, vars, jobVars
  <1> QED BY <1>3, <1>4, <1>9, <1>10, <1>11, <1>12 DEF Next

(* A worker rests or is busy with an attempt of a job. *)
LEMMA WorkerType ==
  ASSUME Inv, [Next]_vars
  PROVE  worker' \in [Workers -> {Resting} \cup Busy]
  <1> DEFINE W == [Workers -> {Resting} \cup Busy]
  <1>0. worker \in W
    BY DEF Inv, TypeOK
  <1>1. ASSUME NEW w \in Workers, Rest(w)
        PROVE  worker' \in W
    BY <1>0, <1>1 DEF Rest
  <1>2. ASSUME NEW w \in Workers, worker[w].pc \in {"claimed", "working", "ready", "failing"},
               NEW pc \in {"working", "ready", "failing"}, Goto(w, pc)
        PROVE  worker' \in W
    BY <1>0, <1>2 DEF Goto, Resting, Busy
  <1>3. CASE UNCHANGED worker
    BY <1>0, <1>3
  <1>4. ASSUME NEW w \in Workers, Claim(w)
        PROVE  worker' \in W
    <2>1. PICK scan \in Claims(Scope[w], w \notin Remote) :
            \/ UNCHANGED worker
            \/ \E j \in scan.started :
                 worker' = [worker EXCEPT ![w] = [pc |-> "claimed", job |-> j,
                                                  attempt |-> scan.table[j].attempts]]
      BY <1>4 DEF Claim
    <2>2. ASSUME NEW j \in scan.started
          PROVE  j \in Jobs /\ scan.table[j].attempts \in Attempt
      <3> DEFINE r == jobs[j]
                 m == scan.table[j]
      <3>1. j \in Jobs /\ JobTypeOK /\ AllSound
        BY <2>2, ScannedJob DEF Inv, TypeOK
      <3>2. Start(r, m)
        BY <3>1, ClaimedJob
      <3>3. r \in Job
        BY <3>1 DEF JobTypeOK
      <3> HIDE DEF r, m
      <3>4. m.attempts = r.attempts + 1 /\ r.attempts < MaxAttempts /\ r.attempts \in 0..MaxAttempts
        BY <3>2, <3>3 DEF Start, Fit, Job
      <3>5. m.attempts \in Attempt
        BY <3>4, JobAssumption DEF Attempt
      <3> QED BY <3>1, <3>5 DEF m
    <2> QED BY <1>0, <2>1, <2>2 DEF Busy
  <1>5. ASSUME NEW w \in Workers, FirstRenewal(w) \/ Execute(w) \/ Heartbeat(w) \/ PublishFails(w)
        PROVE  worker' \in W
    <2>1. worker[w].pc \in {"claimed", "working", "ready", "failing"}
      BY <1>5 DEF FirstRenewal, Execute, Heartbeat, PublishFails
    <2>2. \/ UNCHANGED worker \/ Rest(w)
          \/ Goto(w, "working") \/ Goto(w, "ready") \/ Goto(w, "failing")
      BY <1>5 DEF FirstRenewal, Execute, Heartbeat, PublishFails
    <2>3. ASSUME NEW pc \in {"working", "ready", "failing"}, Goto(w, pc)
          PROVE  worker' \in W
      BY <1>2, <2>1, <2>3
    <2> QED BY <1>1, <1>3, <2>2, <2>3
  <1>6. ASSUME NEW w \in Workers, Stage(w)
        PROVE  worker' \in W
    <2>1. worker[w].pc \in {"claimed", "working", "ready", "failing"}
      BY <1>6 DEF Stage
    <2>2. \/ UNCHANGED worker \/ Rest(w)
          \/ Goto(w, "working") \/ Goto(w, "ready") \/ Goto(w, "failing")
      BY <1>6 DEF Stage
    <2>3. ASSUME NEW pc \in {"working", "ready", "failing"}, Goto(w, pc)
          PROVE  worker' \in W
      BY <1>2, <2>1, <2>3
    <2> QED BY <1>1, <1>3, <2>2, <2>3
  <1>7. ASSUME NEW w \in Workers, Publish(w) \/ PublishRefused(w) \/ ReportFailure(w) \/ Crash(w)
        PROVE  worker' \in W
    <2> HIDE DEF W
    <2> QED BY <1>1, <1>2, <1>7 DEF Publish, PublishRefused, ReportFailure, Crash
  <1>8. CASE AccessChanges \/ TimePasses \/ UNCHANGED vars
    BY <1>3, <1>8 DEF AccessChanges, TimePasses, vars
  <1> QED BY <1>3, <1>4, <1>5, <1>6, <1>7, <1>8 DEF Next, Works

LEMMA StepInv == Inv /\ [Next]_vars => Inv'
  <1> SUFFICES ASSUME Inv, [Next]_vars PROVE Inv'
    OBVIOUS
  <1>1. /\ jobs' = [j \in Jobs |-> jobs'[j]]
        /\ \A j \in Jobs : Moved(jobs[j], jobs'[j])
    BY StepMoves DEF Inv, Moves
  <1>2. \A j \in Jobs : jobs[j] \in Job /\ Sound(jobs[j]) /\ time \in Nat
    BY JobAssumption DEF Inv, TypeOK, JobTypeOK, AllSound
  <1>3. \A j \in Jobs : jobs'[j] \in Job /\ Sound(jobs'[j])
    BY <1>1, <1>2, TypedMove
  <1>4. jobs' \in [Jobs -> Job]
    BY <1>1, <1>3
  <1>5. allowed' \in SUBSET Users /\ time' \in 0..MaxClock
    <2>1. allowed \in SUBSET Users /\ time \in 0..MaxClock
      BY DEF Inv, TypeOK, JobTypeOK
    <2>2. UNCHANGED <<allowed, time>> \/ AccessChanges \/ TimePasses
      BY DEF Next, vars, jobVars, Submit, Cancel, Delete, Removed, DeleteProject, Claim, Heartbeat,
             PublishFails, Works, Crash, FirstRenewal, Execute, Stage, Publish, PublishRefused,
             ReportFailure
    <2> QED BY <2>1, <2>2, JobAssumption DEF AccessChanges, TimePasses
  <1>6. TypeOK'
    BY <1>4, <1>5, StagedType, WorkerType DEF Inv, TypeOK, JobTypeOK
  <1>7. AllSound'
    BY <1>3 DEF AllSound
  <1> QED BY <1>6, <1>7 DEF Inv

LEMMA Invariance == Spec => []Inv
  BY InitInv, StepInv, PTL DEF Spec

(* Every state of the queue and its workers is well-typed. *)
THEOREM WorkersTypeCorrect == Spec => []TypeOK
  <1>1. Inv => TypeOK
    BY DEF Inv
  <1> QED BY <1>1, Invariance, PTL

(* A job has outputs exactly when it has succeeded, and only those of its     *)
(* last attempt, whatever workers whose lease was lost still send.           *)
THEOREM OnePublicationCorrect == Spec => []OnePublication
  <1>1. Inv => OnePublication
    BY DEF Inv, AllSound, Sound, OnePublication
  <1> QED BY <1>1, Invariance, PTL

(* Nothing is published past its deadline or without its submitter's access. *)
THEOREM PublishedInTimeCorrect == Spec => PublishedInTime
  <1> DEFINE A == \A j \in Jobs :
                    jobs'[j].state = "succeeded" /\ jobs[j].state # "succeeded"
                      => time < jobs[j].expires /\ jobs[j].by \in allowed
  <1>1. Inv /\ [Next]_vars => A
    <2> SUFFICES ASSUME Inv, [Next]_vars, NEW j \in Jobs,
                        jobs'[j].state = "succeeded", jobs[j].state # "succeeded"
                 PROVE  time < jobs[j].expires /\ jobs[j].by \in allowed
      OBVIOUS
    <2>1. Moved(jobs[j], jobs'[j])
      BY StepMoves DEF Inv, Moves
    <2>2. jobs[j] \in Job
      BY DEF Inv, TypeOK, JobTypeOK
    <2>3. ASSUME NEW r \in Job, NEW s, s.state = "succeeded", r.state # "succeeded", Moved(r, s)
          PROVE  Succeed(r, s)
      <3>1. ~(Requeue(r, s) \/ Finish(r, s) \/ Start(r, s) \/ Refuse(r, s) \/ Extend(r, s))
        BY <2>3 DEF Requeue, Finish, Start, Refuse, Extend, Job
      <3>2. ~(Kept(r, s) \/ Create(r, s) \/ Flag(r, s) \/ Withdraw(r, s) \/ Remove(r, s))
        BY <2>3 DEF Kept, Create, Flag, Withdraw, Remove, Job
      <3> QED BY <2>3, <3>1, <3>2 DEF Moved
    <2>4. Succeed(jobs[j], jobs'[j])
      BY <2>1, <2>2, <2>3
    <2> QED BY <2>4 DEF Succeed
  <1> HIDE DEF A
  <1>2. Inv /\ [Next]_vars => [A]_vars
    BY <1>1
  <1>3. Spec => [][A]_vars
    BY <1>2, Invariance, PTL DEF Spec
  <1> QED BY <1>3 DEF A, PublishedInTime

(* The queue with its workers implements the life cycle of a job. *)
THEOREM LifecycleImplemented == Spec => Lifecycle
  <1>1. Init => JL!Init
    <2> SUFFICES ASSUME Init PROVE JL!Init
      OBVIOUS
    <2>1. \A j \in Jobs : jobs[j] = Unused
      BY DEF Init, JobInit
    <2>2. JL!Is(View(Unused), "none", 0, FALSE, {})
      BY DEF Unused, View, JL!Is
    <2> QED BY <2>1, <2>2 DEF JL!Init
  <1>2. Inv /\ [Next]_vars => JL!Next
    <2> SUFFICES ASSUME Inv, [Next]_vars PROVE JL!Next
      OBVIOUS
    <2>1. ASSUME NEW j \in Jobs
          PROVE  JL!Step(View(jobs[j]), View(jobs'[j]))
      <3>1. Moved(jobs[j], jobs'[j]) /\ jobs[j] \in Job /\ Sound(jobs[j])
        BY StepMoves DEF Inv, Moves, TypeOK, JobTypeOK, AllSound
      <3> QED BY <3>1, LifecycleMove
    <2> QED BY <2>1 DEF JL!Next, View
  <1> QED BY <1>1, <1>2, Invariance, PTL DEF Spec, Lifecycle, JL!Spec

-----------------------------------------------------------------------------
(* The queue's limits. *)
Running(js)    == InState(js, {"running"})
Open(js)       == InState(js, Active)
Recorded(js)   == InState(js, Active \cup Terminal)

CapacityInv ==
  /\ IsFiniteSet(Open(jobs))
  /\ \A p \in Projects : IsFiniteSet(Recorded(jobs) \cap OfProject(p))
  /\ CapacityKept

(* What any step but a submission does to one job: it opens none. *)
Calm(r, s) ==
  /\ s.project = r.project
  /\ s.state \in Active => r.state \in Active
  /\ s.state \in Active \cup Terminal => r.state \in Active \cup Terminal

AllCalm   == \A j \in Jobs : Calm(jobs[j], jobs'[j])
NoneStart == \A j \in Jobs : jobs'[j].state = "running" => jobs[j].state = "running"

LEMMA Fewer ==
  ASSUME NEW S, NEW T, NEW n \in Nat, IsFiniteSet(S), Cardinality(S) <= n, T \subseteq S
  PROVE  IsFiniteSet(T) /\ Cardinality(T) <= n
  <1>1. IsFiniteSet(T) /\ Cardinality(T) <= Cardinality(S)
    BY FS_Subset
  <1>2. Cardinality(S) \in Nat /\ Cardinality(T) \in Nat
    BY <1>1, FS_CardinalityType
  <1> QED BY <1>1, <1>2

LEMMA CapacityParts ==
  CapacityKept <=>
    /\ Cardinality(Running(jobs)) <= MaxRunning
    /\ Cardinality(Open(jobs)) <= MaxGlobal
    /\ \A p \in Projects : /\ Cardinality(Open(jobs) \cap OfProject(p)) <= MaxActive
                           /\ Cardinality(Recorded(jobs) \cap OfProject(p)) <= MaxRecords
  BY DEF CapacityKept, Running, Open, Recorded

LEMMA CapacityPartsNext ==
  CapacityKept' <=>
    /\ Cardinality(Running(jobs)') <= MaxRunning
    /\ Cardinality(Open(jobs)') <= MaxGlobal
    /\ \A p \in Projects : /\ Cardinality((Open(jobs) \cap OfProject(p))') <= MaxActive
                           /\ Cardinality((Recorded(jobs) \cap OfProject(p))') <= MaxRecords
  BY DEF CapacityKept, Running, Open, Recorded

(* The limits hold in a step that opens no job, if they hold for what runs. *)
LEMMA CalmKeeps ==
  ASSUME CapacityInv, AllCalm, Cardinality(Running(jobs)') <= MaxRunning
  PROVE  CapacityInv'
  <1>0. MaxGlobal \in Nat /\ MaxActive \in Nat /\ MaxRecords \in Nat
    BY JobAssumption
  <1>1. Open(jobs)' \subseteq Open(jobs)
    BY DEF AllCalm, Calm, Open, InState
  <1>2. \A p \in Projects :
          /\ (Open(jobs) \cap OfProject(p))' \subseteq Open(jobs) \cap OfProject(p)
          /\ (Recorded(jobs) \cap OfProject(p))' \subseteq Recorded(jobs) \cap OfProject(p)
    BY DEF AllCalm, Calm, Open, Recorded, InState, OfProject
  <1>3. /\ IsFiniteSet(Open(jobs)) /\ Cardinality(Open(jobs)) <= MaxGlobal
        /\ \A p \in Projects : /\ Cardinality(Open(jobs) \cap OfProject(p)) <= MaxActive
                               /\ Cardinality(Recorded(jobs) \cap OfProject(p)) <= MaxRecords
                               /\ IsFiniteSet(Recorded(jobs) \cap OfProject(p))
    BY CapacityParts DEF CapacityInv
  <1>4. IsFiniteSet(Open(jobs)') /\ Cardinality(Open(jobs)') <= MaxGlobal
    BY <1>0, <1>1, <1>3, Fewer
  <1>5. ASSUME NEW p \in Projects
        PROVE  /\ Cardinality((Open(jobs) \cap OfProject(p))') <= MaxActive
               /\ IsFiniteSet((Recorded(jobs) \cap OfProject(p))')
               /\ Cardinality((Recorded(jobs) \cap OfProject(p))') <= MaxRecords
    <2>1. IsFiniteSet(Open(jobs) \cap OfProject(p))
      <3>1. Open(jobs) \cap OfProject(p) \subseteq Open(jobs)
        OBVIOUS
      <3> QED BY <1>3, <3>1, FS_Subset
    <2> QED BY <1>0, <1>2, <1>3, <2>1, Fewer
  <1>6. CapacityKept'
    BY <1>4, <1>5, CapacityPartsNext
  <1> QED BY <1>4, <1>5, <1>6 DEF CapacityInv

LEMMA RunningFinite ==
  ASSUME CapacityInv
  PROVE  IsFiniteSet(Running(jobs)) /\ Cardinality(Running(jobs)) <= MaxRunning
  <1>1. Running(jobs) \subseteq Open(jobs)
    BY DEF Running, Open, InState, Active
  <1> QED BY <1>1, FS_Subset, CapacityParts DEF CapacityInv

LEMMA QuietKeeps ==
  ASSUME CapacityInv, AllCalm, NoneStart
  PROVE  CapacityInv'
  <1>1. Running(jobs)' \subseteq Running(jobs)
    BY DEF NoneStart, Running, InState
  <1>2. Cardinality(Running(jobs)') <= MaxRunning
    BY <1>1, RunningFinite, Fewer, JobAssumption
  <1> QED BY <1>2, CalmKeeps

(* One job is ended, removed, renewed or published. *)
LEMMA OneQuiet ==
  ASSUME JobTypeOK, NEW k \in Jobs, NEW s, jobs' = [jobs EXCEPT ![k] = s], Calm(jobs[k], s),
         s.state = "running" => jobs[k].state = "running"
  PROVE  AllCalm /\ NoneStart
  <1>1. jobs'[k] = s /\ \A j \in Jobs \ {k} : jobs'[j] = jobs[j]
    BY DEF JobTypeOK
  <1> QED BY <1>1 DEF AllCalm, NoneStart, Calm

LEMMA EndQuiet ==
  ASSUME JobTypeOK, NEW k \in Jobs, jobs[k].state = "running", End(k)
  PROVE  AllCalm /\ NoneStart
  <1> DEFINE x == IF jobs[k].cancel THEN "cancelled" ELSE "failed"
             s == [jobs[k] EXCEPT !.until = 0, !.state = x]
  <1>1. jobs' = [jobs EXCEPT ![k] = s] /\ jobs[k] \in Job
    BY DEF End, Ended, JobTypeOK
  <1>2. x \in Terminal
    BY DEF Terminal
  <1> HIDE DEF x
  <1>3. s.project = jobs[k].project /\ s.state = x
    BY <1>1 DEF Job
  <1> HIDE DEF s
  <1>4. Calm(jobs[k], s) /\ s.state # "running"
    BY <1>2, <1>3 DEF Calm, Active, Terminal
  <1> QED BY <1>1, <1>4, OneQuiet

LEMMA SameQuiet ==
  ASSUME UNCHANGED jobs
  PROVE  AllCalm /\ NoneStart
  BY DEF AllCalm, NoneStart, Calm

LEMMA RenewedQuiet ==
  ASSUME JobTypeOK, NEW c, c.job \in Jobs, Renewed(c)
  PROVE  AllCalm /\ NoneStart
  <1>1. CASE ~Owned(c)
    BY <1>1, SameQuiet DEF Renewed
  <1>2. CASE Owned(c) /\ Settled(jobs[c.job])
    BY <1>2, EndQuiet DEF Renewed, Owned
  <1>3. CASE Owned(c) /\ ~Settled(jobs[c.job])
    <2> DEFINE t == Earlier(time + Lease, jobs[c.job].expires)
               s == [jobs[c.job] EXCEPT !.until = t]
    <2>1. jobs' = [jobs EXCEPT ![c.job] = s] /\ jobs[c.job] \in Job
      BY <1>3 DEF Renewed, JobTypeOK
    <2> HIDE DEF t
    <2>2. s.project = jobs[c.job].project /\ s.state = jobs[c.job].state
      BY <2>1 DEF Job
    <2> HIDE DEF s
    <2>3. Calm(jobs[c.job], s)
      BY <2>2 DEF Calm
    <2> QED BY <2>1, <2>2, <2>3, OneQuiet
  <1> QED BY <1>1, <1>2, <1>3

LEMMA WorkerQuiet ==
  ASSUME TypeOK, NEW w \in Workers,
         Heartbeat(w) \/ PublishFails(w) \/ Works(w) \/ Crash(w)
  PROVE  AllCalm /\ NoneStart
  <1> DEFINE c == worker[w]
  <1>0. JobTypeOK
    BY DEF TypeOK
  <1>1. c.pc # "idle" => c \in Busy
    BY DEF TypeOK, Resting
  <1>2. CASE Heartbeat(w) \/ FirstRenewal(w)
    <2>1. c.pc # "idle" /\ Renewed(c)
      BY <1>2 DEF Heartbeat, FirstRenewal
    <2> HIDE DEF c
    <2> QED BY <1>0, <1>1, <2>1, RenewedQuiet DEF Busy
  <1>3. CASE PublishFails(w) \/ Crash(w) \/ Execute(w)
    BY <1>3, SameQuiet DEF PublishFails, Crash, Execute, jobVars
  <1>4. CASE Stage(w) \/ PublishRefused(w) \/ ReportFailure(w)
    <2>1. c.pc # "idle" /\ (UNCHANGED jobs \/ (Owned(c) /\ End(c.job)))
      BY <1>4 DEF Stage, PublishRefused, ReportFailure
    <2> HIDE DEF c
    <2> QED BY <1>0, <1>1, <2>1, SameQuiet, EndQuiet DEF Owned, Busy
  <1>5. CASE Publish(w)
    <2> DEFINE o == jobs[c.job].outputs \cup {c.attempt}
               s == [jobs[c.job] EXCEPT !.state = "succeeded", !.until = 0, !.outputs = o]
    <2>1. /\ c.pc # "idle" /\ jobs[c.job].state = "running"
          /\ jobs' = [jobs EXCEPT ![c.job] = s]
      BY <1>5 DEF Publish, Good, Owned
    <2>2. c.job \in Jobs /\ jobs[c.job] \in Job
      BY <1>0, <1>1, <2>1 DEF Busy, JobTypeOK
    <2> HIDE DEF o, c
    <2>3. s.project = jobs[c.job].project /\ s.state = "succeeded"
      BY <2>2 DEF Job
    <2> HIDE DEF s
    <2>4. Calm(jobs[c.job], s) /\ s.state # "running"
      BY <2>1, <2>3 DEF Calm, Active, Terminal
    <2> QED BY <1>0, <2>1, <2>2, <2>4, OneQuiet
  <1> QED BY <1>2, <1>3, <1>4, <1>5 DEF Works

LEMMA RequestQuiet ==
  ASSUME JobTypeOK, \/ \E j \in Jobs : Cancel(j) \/ Delete(j)
                    \/ \E p \in Projects : DeleteProject(p)
  PROVE  AllCalm /\ NoneStart
  <1>1. CASE \E j \in Jobs : Cancel(j)
    <2>1. PICK j \in Jobs : Cancel(j)
      BY <1>1
    <2> DEFINE x == IF jobs[j].state = "queued" THEN "cancelled" ELSE jobs[j].state
               s == [jobs[j] EXCEPT !.cancel = TRUE, !.state = x]
    <2>2. jobs' = [jobs EXCEPT ![j] = s] /\ jobs[j] \in Job /\ jobs[j].state \in Active
      BY <2>1 DEF Cancel, JobTypeOK
    <2>3. x \in {"cancelled", "running"} /\ (x = "running" => jobs[j].state = "running")
      BY <2>2 DEF Active
    <2> HIDE DEF x
    <2>4. s.project = jobs[j].project /\ s.state = x
      BY <2>2 DEF Job
    <2> HIDE DEF s
    <2>5. Calm(jobs[j], s)
      BY <2>2, <2>3, <2>4 DEF Calm, Active, Terminal
    <2> QED BY <2>2, <2>3, <2>4, <2>5, OneQuiet
  <1>2. CASE \E j \in Jobs : Delete(j)
    <2>1. PICK j \in Jobs : Delete(j)
      BY <1>2
    <2> DEFINE s == [jobs[j] EXCEPT !.state = "deleted", !.until = 0, !.outputs = {}]
    <2>2. jobs' = [jobs EXCEPT ![j] = s] /\ jobs[j] \in Job
      BY <2>1 DEF Delete, Removed, JobTypeOK
    <2>3. s.project = jobs[j].project /\ s.state = "deleted"
      BY <2>2 DEF Job
    <2> HIDE DEF s
    <2>4. Calm(jobs[j], s)
      BY <2>3 DEF Calm, Active, Terminal
    <2> QED BY <2>2, <2>3, <2>4, OneQuiet
  <1>3. CASE \E p \in Projects : DeleteProject(p)
    <2>1. ASSUME NEW j \in Jobs
          PROVE  Calm(jobs[j], jobs'[j]) /\ (jobs'[j].state = "running" => jobs[j].state = "running")
      <3> DEFINE s == [jobs[j] EXCEPT !.state = "deleted", !.until = 0, !.outputs = {}]
      <3>1. jobs'[j] = jobs[j] \/ jobs'[j] = s
        BY <1>3 DEF DeleteProject
      <3>2. s.project = jobs[j].project /\ s.state = "deleted"
        BY DEF JobTypeOK, Job
      <3> HIDE DEF s
      <3> QED BY <3>1, <3>2 DEF Calm, Active, Terminal
    <2> QED BY <2>1 DEF AllCalm, NoneStart
  <1> QED BY <1>1, <1>2, <1>3

(* A claim ends, requeues and starts jobs, and creates none. *)
LEMMA ClaimedCalm ==
  ASSUME NEW r \in Job, NEW s, Claimed(r, s) \/ Refuse(r, s)
  PROVE  Calm(r, s)
  <1>1. CASE Kept(r, s)
    BY <1>1 DEF Kept, Calm
  <1>2. CASE Requeue(r, s)
    <2>1. s.project = r.project
      BY <1>2 DEF Requeue, Job
    <2> QED BY <1>2, <2>1 DEF Requeue, Calm, Active
  <1>3. CASE Finish(r, s)
    <2>1. PICK x \in {"cancelled", "failed"} : s = [r EXCEPT !.state = x, !.until = 0]
      BY <1>3 DEF Finish
    <2>2. s.project = r.project /\ s.state = x
      BY <2>1 DEF Job
    <2> QED BY <1>3, <2>2 DEF Finish, Calm, Active
  <1>4. CASE Start(r, s)
    <2>1. s.project = r.project
      BY <1>4 DEF Start, Job
    <2> QED BY <1>4, <2>1 DEF Start, Fit, Calm, Active
  <1>5. CASE Refuse(r, s)
    <2>1. s.project = r.project
      BY <1>5 DEF Refuse, Job
    <2> QED BY <1>5, <2>1 DEF Refuse, Fit, Calm, Active
  <1> QED BY <1>1, <1>2, <1>3, <1>4, <1>5 DEF Claimed

(* What runs after the scan ran before it, or is the job the scan started,    *)
(* for which there was room when the lapsed leases had been recovered.       *)
LEMMA ScanRoom ==
  ASSUME NEW scope, NEW local, NEW scan \in Claims(scope, local)
  PROVE  \/ scan.started = {}
         \/ /\ ~Full(Recovered(jobs))
            /\ \E k : scan.started = {k}
  <1> DEFINE js    == Recovered(jobs)
             queue == {j \in InState(js, {"queued"}) : js[j].project \in scope}
             dead  == {j \in queue : Unclaimable(js[j], local)}
             fit   == queue \ dead
             X     == {x \in [job : fit, swept : SUBSET dead] :
                        /\ \A k \in fit : js[x.job].created <= js[k].created
                        /\ \A d \in dead : /\ js[d].created < js[x.job].created => d \in x.swept
                                          /\ d \in x.swept => js[d].created <= js[x.job].created}
             R(q)  == [table |-> Started(Ended(js, q.swept), q.job), started |-> {q.job}]
  <1>1. scan \in IF Full(js) THEN {[table |-> js, started |-> {}]}
               ELSE IF fit = {} THEN {[table |-> Ended(js, dead), started |-> {}]}
               ELSE {R(q) : q \in X}
    BY DEF Claims, Scans
  <1> HIDE DEF js, dead, fit, X
  <1>2. CASE Full(js)
    BY <1>1, <1>2
  <1>3. CASE ~Full(js) /\ fit = {}
    BY <1>1, <1>3
  <1>4. CASE ~Full(js) /\ fit # {}
    <2>1. PICK q \in X : scan = R(q)
      BY <1>1, <1>4
    <2>2. scan.started = {q.job}
      BY <2>1
    <2> QED BY <1>4, <2>2 DEF js
  <1> QED BY <1>2, <1>3, <1>4

LEMMA RecoveredRuns ==
  ASSUME JobTypeOK, AllSound
  PROVE  Running(Recovered(jobs)) \subseteq Running(jobs)
  <1>1. ASSUME NEW j \in Jobs, Recovered(jobs)[j].state = "running"
        PROVE  jobs[j].state = "running"
    <2> DEFINE r == jobs[j]
               m == Recovered(jobs)[j]
    <2>1. r \in Job
      BY DEF JobTypeOK
    <2>2. Kept(r, m) \/ Requeue(r, m) \/ Finish(r, m)
      BY RecoveredJob
    <2>3. m.state = "running"
      BY <1>1
    <2> HIDE DEF r, m
    <2>4. ~Requeue(r, m)
      BY <2>1, <2>3 DEF Requeue, Job
    <2>5. ~Finish(r, m)
      <3>1. ASSUME NEW x \in {"cancelled", "failed"}
            PROVE  m # [r EXCEPT !.state = x, !.until = 0]
        BY <2>1, <2>3 DEF Job
      <3> QED BY <3>1 DEF Finish
    <2>6. r.state = "running"
      BY <2>2, <2>3, <2>4, <2>5 DEF Kept
    <2> QED BY <2>6 DEF r
  <1> QED BY <1>1 DEF Running, InState

LEMMA ScanRuns ==
  ASSUME JobTypeOK, AllSound, NEW scope, NEW local, NEW scan \in Claims(scope, local)
  PROVE  Running(scan.table) \subseteq Running(Recovered(jobs)) \cup scan.started
  <1>1. ASSUME NEW j \in Jobs, scan.table[j].state = "running", j \notin scan.started
        PROVE  Recovered(jobs)[j].state = "running"
    <2> DEFINE r == jobs[j]
               m == Recovered(jobs)[j]
               s == scan.table[j]
    <2>1. s = m \/ Ends(m, s)
      BY <1>1, ScannedJob DEF Scanned
    <2>2. r \in Job /\ Sound(r) /\ time \in Nat
      BY JobAssumption DEF JobTypeOK, AllSound
    <2>3. Kept(r, m) \/ Requeue(r, m) \/ Finish(r, m)
      BY RecoveredJob
    <2>4. s.state = "running"
      BY <1>1
    <2> HIDE DEF r, m, s
    <2>5. m \in Job
      BY <2>2, <2>3, TypedMove DEF Moved
    <2>6. ~Ends(m, s)
      BY <2>4, <2>5 DEF Ends, Job
    <2>7. m.state = "running"
      BY <2>1, <2>4, <2>6
    <2> QED BY <2>7 DEF m
  <1> QED BY <1>1 DEF Running, InState

(* Where there is room, there is room for one more. *)
LEMMA OneMore ==
  ASSUME NEW S, NEW T, NEW x, NEW n \in Nat, IsFiniteSet(S), Cardinality(S) < n,
         T \subseteq S \cup {x}
  PROVE  IsFiniteSet(T) /\ Cardinality(T) <= n
  <1>1. Cardinality(S) \in Nat
    BY FS_CardinalityType
  <1>2. /\ IsFiniteSet(S \cup {x})
        /\ \/ Cardinality(S \cup {x}) = Cardinality(S)
           \/ Cardinality(S \cup {x}) = Cardinality(S) + 1
    BY FS_AddElement, Zenon
  <1>3. Cardinality(S \cup {x}) \in Nat
    BY <1>2, FS_CardinalityType
  <1>4. Cardinality(S \cup {x}) <= n
    BY <1>1, <1>2, <1>3
  <1> QED BY <1>2, <1>4, Fewer

LEMMA ScanFits ==
  ASSUME JobTypeOK, AllSound, CapacityInv,
         NEW scope, NEW local, NEW scan \in Claims(scope, local)
  PROVE  IsFiniteSet(Running(scan.table)) /\ Cardinality(Running(scan.table)) <= MaxRunning
  <1> DEFINE R == Running(Recovered(jobs))
  <1>0. MaxRunning \in Nat
    BY JobAssumption
  <1>1. IsFiniteSet(R) /\ Cardinality(R) <= MaxRunning
    BY <1>0, RecoveredRuns, RunningFinite, Fewer
  <1>2. Cardinality(R) \in Nat
    BY <1>1, FS_CardinalityType
  <1>3. Running(scan.table) \subseteq R \cup scan.started
    BY ScanRuns
  <1>4. ~Full(Recovered(jobs)) => Cardinality(R) < MaxRunning
    BY <1>0, <1>2 DEF Full, Running
  <1> HIDE DEF R
  <1>5. CASE scan.started = {}
    BY <1>0, <1>1, <1>3, <1>5, Fewer
  <1>6. CASE ~Full(Recovered(jobs)) /\ \E k : scan.started = {k}
    <2>1. PICK k : scan.started = {k}
      BY <1>6
    <2> QED BY <1>0, <1>1, <1>3, <1>4, <1>6, <2>1, OneMore
  <1> QED BY <1>5, <1>6, ScanRoom

LEMMA ClaimKeeps ==
  ASSUME TypeOK, AllSound, CapacityInv, NEW w \in Workers, Claim(w)
  PROVE  CapacityInv'
  <1>0. JobTypeOK
    BY DEF TypeOK
  <1>1. PICK scan \in Claims(Scope[w], w \notin Remote) :
          \/ jobs' = scan.table
          \/ jobs' = Ended(scan.table, scan.started)
    BY DEF Claim
  <1>2. \A j \in Jobs : /\ Claimed(jobs[j], scan.table[j])
                        /\ j \in scan.started => Start(jobs[j], scan.table[j])
                        /\ jobs[j] \in Job /\ Sound(jobs[j]) /\ time \in Nat
    BY <1>0, ClaimedJob, JobAssumption DEF JobTypeOK, AllSound
  <1>3. \A j \in Jobs : scan.table[j] \in Job /\ Calm(jobs[j], scan.table[j])
    BY <1>2, TypedMove, ClaimedCalm DEF Claimed, Moved
  <1>4. ASSUME NEW j \in Jobs
        PROVE  /\ Calm(jobs[j], jobs'[j])
               /\ jobs'[j].state = "running" => scan.table[j].state = "running"
    <2> DEFINE r == jobs[j]
               m == scan.table[j]
               e == IF m.cancel THEN "cancelled" ELSE "failed"
               f == [m EXCEPT !.until = 0, !.state = e]
    <2>1. \/ jobs'[j] = m
          \/ j \in scan.started /\ jobs'[j] = f
      BY <1>1 DEF Ended
    <2>2. m \in Job /\ Calm(r, m) /\ (j \in scan.started => r.state \in Active)
      BY <1>2, <1>3 DEF Start, Fit
    <2>3. e \in Terminal
      BY DEF Terminal
    <2> HIDE DEF r, m, e
    <2>4. f.project = m.project /\ f.state = e
      BY <2>2 DEF Job
    <2> HIDE DEF f
    <2>5. j \in scan.started => Calm(r, f) /\ f.state # "running"
      BY <2>2, <2>3, <2>4 DEF Calm, Active, Terminal
    <2> QED BY <2>1, <2>2, <2>5 DEF r, m
  <1>5. AllCalm
    BY <1>4 DEF AllCalm
  <1>6. Running(jobs)' \subseteq Running(scan.table)
    BY <1>4 DEF Running, InState
  <1>7. Cardinality(Running(jobs)') <= MaxRunning
    BY <1>0, <1>6, ScanFits, Fewer, JobAssumption
  <1> QED BY <1>5, <1>7, CalmKeeps

LEMMA SubmitKeeps ==
  ASSUME JobTypeOK, CapacityInv, NEW k \in Jobs, NEW u \in Users, NEW q \in Projects, Submit(k, u, q)
  PROVE  CapacityInv'
  <1>0. /\ MaxGlobal \in Nat /\ MaxActive \in Nat /\ MaxRecords \in Nat /\ MaxRunning \in Nat
    BY JobAssumption
  <1>1. /\ jobs'[k].state = "queued" /\ jobs'[k].project = q
        /\ \A j \in Jobs \ {k} : jobs'[j] = jobs[j]
    BY DEF Submit, JobTypeOK, Unused
  <1>2. /\ IsFiniteSet(Open(jobs)) /\ Cardinality(Open(jobs)) < MaxGlobal
        /\ Cardinality(Open(jobs) \cap OfProject(q)) < MaxActive
        /\ Cardinality(Recorded(jobs) \cap OfProject(q)) < MaxRecords
        /\ \A p \in Projects : IsFiniteSet(Recorded(jobs) \cap OfProject(p))
        /\ \A p \in Projects : /\ Cardinality(Open(jobs) \cap OfProject(p)) <= MaxActive
                               /\ Cardinality(Recorded(jobs) \cap OfProject(p)) <= MaxRecords
    BY CapacityParts DEF CapacityInv, Submit, Open, Recorded
  <1>3. Running(jobs)' \subseteq Running(jobs)
    BY <1>1 DEF Running, InState
  <1>4. Open(jobs)' \subseteq Open(jobs) \cup {k}
    BY <1>1 DEF Open, InState
  <1>5. /\ (Open(jobs) \cap OfProject(q))' \subseteq (Open(jobs) \cap OfProject(q)) \cup {k}
        /\ (Recorded(jobs) \cap OfProject(q))' \subseteq (Recorded(jobs) \cap OfProject(q)) \cup {k}
    BY <1>1 DEF Open, Recorded, InState, OfProject
  <1>6. \A p \in Projects \ {q} :
          /\ (Open(jobs) \cap OfProject(p))' \subseteq Open(jobs) \cap OfProject(p)
          /\ (Recorded(jobs) \cap OfProject(p))' \subseteq Recorded(jobs) \cap OfProject(p)
    BY <1>1 DEF Open, Recorded, InState, OfProject
  <1>7. \A p \in Projects : IsFiniteSet(Open(jobs) \cap OfProject(p))
    <2>1. \A p \in Projects : Open(jobs) \cap OfProject(p) \subseteq Open(jobs)
      OBVIOUS
    <2> QED BY <1>2, <2>1, FS_Subset
  <1>8. Cardinality(Running(jobs)') <= MaxRunning
    BY <1>0, <1>3, RunningFinite, Fewer
  <1>9. IsFiniteSet(Open(jobs)') /\ Cardinality(Open(jobs)') <= MaxGlobal
    BY <1>0, <1>2, <1>4, OneMore
  <1>10. ASSUME NEW p \in Projects
         PROVE  /\ Cardinality((Open(jobs) \cap OfProject(p))') <= MaxActive
                /\ IsFiniteSet((Recorded(jobs) \cap OfProject(p))')
                /\ Cardinality((Recorded(jobs) \cap OfProject(p))') <= MaxRecords
    <2>1. CASE p = q
      BY <1>0, <1>2, <1>5, <1>7, <2>1, OneMore
    <2>2. CASE p # q
      BY <1>0, <1>2, <1>6, <1>7, <2>2, Fewer
    <2> QED BY <2>1, <2>2
  <1>11. CapacityKept'
    BY <1>8, <1>9, <1>10, CapacityPartsNext
  <1> QED BY <1>9, <1>10, <1>11 DEF CapacityInv

LEMMA InitCapacity == Init => CapacityInv
  <1> SUFFICES ASSUME Init PROVE CapacityInv
    OBVIOUS
  <1>1. \A j \in Jobs : jobs[j].state = "none"
    BY DEF Init, JobInit, Unused
  <1>2. Running(jobs) = {} /\ Open(jobs) = {} /\ Recorded(jobs) = {}
    BY <1>1 DEF Running, Open, Recorded, InState, Active, Terminal
  <1>3. \A p \in Projects : Open(jobs) \cap OfProject(p) = {} /\ Recorded(jobs) \cap OfProject(p) = {}
    BY <1>2
  <1>4. IsFiniteSet({}) /\ Cardinality({}) = 0
    BY FS_EmptySet
  <1>5. 0 <= MaxRunning /\ 0 <= MaxGlobal /\ 0 <= MaxActive /\ 0 <= MaxRecords
    BY JobAssumption
  <1>6. CapacityKept
    BY <1>2, <1>3, <1>4, <1>5, CapacityParts
  <1> QED BY <1>2, <1>3, <1>4, <1>6 DEF CapacityInv

LEMMA StepCapacity == Inv /\ CapacityInv /\ [Next]_vars => CapacityInv'
  <1> SUFFICES ASSUME Inv, CapacityInv, [Next]_vars PROVE CapacityInv'
    OBVIOUS
  <1>0. TypeOK /\ JobTypeOK /\ AllSound
    BY DEF Inv, TypeOK
  <1>1. CASE \E j \in Jobs, u \in Users, p \in Projects : Submit(j, u, p)
    BY <1>0, <1>1, SubmitKeeps
  <1>2. CASE \/ \E j \in Jobs : Cancel(j) \/ Delete(j)
             \/ \E p \in Projects : DeleteProject(p)
    BY <1>0, <1>2, RequestQuiet, QuietKeeps
  <1>3. CASE \E w \in Workers : Claim(w)
    BY <1>0, <1>3, ClaimKeeps
  <1>4. CASE \E w \in Workers : Heartbeat(w) \/ PublishFails(w) \/ Works(w) \/ Crash(w)
    BY <1>0, <1>4, WorkerQuiet, QuietKeeps
  <1>5. CASE AccessChanges \/ TimePasses \/ UNCHANGED vars
    BY <1>5, SameQuiet, QuietKeeps DEF AccessChanges, TimePasses, vars, jobVars
  <1> QED BY <1>1, <1>2, <1>3, <1>4, <1>5 DEF Next

(* The limits on running, active and recorded jobs hold in every state,       *)
(* whatever claims recover, end, requeue and start in one transaction.       *)
THEOREM CapacityCorrect == Spec => []CapacityKept
  <1>1. Spec => []CapacityInv
    BY InitCapacity, StepCapacity, Invariance, PTL DEF Spec
  <1>2. CapacityInv => CapacityKept
    BY DEF CapacityInv
  <1> QED BY <1>1, <1>2, PTL
=============================================================================
