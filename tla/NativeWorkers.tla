---------------------------- MODULE NativeWorkers ----------------------------
(***************************************************************************)
(* Native job workers around the durable queue: the poll, execute and       *)
(* heartbeat loop (server/src/nativeWorkerLoop.ts), the supervisor's local  *)
(* worker (nativeJobWorker.ts) and the dedicated remote worker, which       *)
(* reaches the queue by requests that can be lost on either way             *)
(* (nativeWorkerClient.ts, nativeWorkerAuthority.ts).                       *)
(***************************************************************************)
EXTENDS NativeJobs

CONSTANTS
  Workers,
  Remote,        \* the workers that go through the worker API
  Scope          \* worker -> projects it may claim for, all for a local one

ASSUME WorkerAssumption ==
  /\ Remote \subseteq Workers
  /\ Scope \in [Workers -> SUBSET Projects]
  /\ \A w \in Workers \ Remote : Scope[w] = Projects

VARIABLE worker  \* what each worker is doing, and for which claim

vars == <<jobVars, worker>>

Resting == [pc |-> "idle"]
Busy    == [pc : {"claimed", "working", "ready", "failing"}, job : Jobs, attempt : Attempt]

TypeOK == JobTypeOK /\ worker \in [Workers -> {Resting} \cup Busy]

Init == JobInit /\ worker = [w \in Workers |-> Resting]

Goto(w, pc) == worker' = [worker EXCEPT ![w].pc = pc]
Rest(w)     == worker' = [worker EXCEPT ![w] = Resting]

-----------------------------------------------------------------------------
(* The lease a worker's call is fenced by. *)
(* Mutant: any live lease of the job will do. *)
Owned_AnyAttempt(c) ==
  jobs[c.job].state = "running" /\ jobs[c.job].until > time

Owned(c) ==
  /\ jobs[c.job].state = "running"
  /\ jobs[c.job].attempts = c.attempt
  /\ jobs[c.job].until > time

(* A lease that is still held ends here instead: the job was cancelled, is   *)
(* past its deadline, or its submitter may no longer write.                *)
(* Mutant: the submitter's access is not looked at again. *)
Settled_StaleAccess(r) == r.cancel \/ r.expires <= time

Settled(r) == r.cancel \/ r.expires <= time \/ r.by \notin allowed

End(j) == jobs' = Ended(jobs, {j})

(* Mutant: rows of jobs that have ended are kept. *)
Cleaned_RunningOnly ==
  [j \in Jobs |-> [a \in Attempt |->
     IF jobs[j].state = "running" /\ ~(Owned([job |-> j, attempt |-> a]) /\ ~jobs[j].cancel)
       THEN 0 ELSE staged[j][a]]]

(* The staged rows a remote claim leaves: those of claims in good standing. *)
Cleaned ==
  [j \in Jobs |-> [a \in Attempt |->
     IF Owned([job |-> j, attempt |-> a]) /\ jobs[j].expires > time /\ ~jobs[j].cancel
       THEN staged[j][a] ELSE 0]]

(* claim: a remote claim whose input does not verify is failed at once; an   *)
(* answer may be lost, and a worker that stops meanwhile drops it.          *)
Claim(w) ==
  /\ worker[w] = Resting
  /\ staged' = IF w \in Remote THEN Cleaned ELSE staged
  /\ \E scan \in Claims(Scope[w], w \notin Remote) :
       \/ /\ jobs' = scan.table
          /\ \/ UNCHANGED worker
             \/ \E j \in scan.started :
                  worker' = [worker EXCEPT ![w] = [pc |-> "claimed", job |-> j,
                                                   attempt |-> scan.table[j].attempts]]
       \/ /\ w \in Remote
          /\ scan.started # {}
          /\ jobs' = Ended(scan.table, scan.started)
          /\ UNCHANGED worker
  /\ UNCHANGED <<allowed, time>>

Earlier(s, t) == IF s <= t THEN s ELSE t

(* One renewal at the queue. *)
Renewed(c) ==
  IF ~Owned(c) THEN UNCHANGED jobs
  ELSE IF Settled(jobs[c.job]) THEN End(c.job)
  ELSE jobs' = [jobs EXCEPT ![c.job].until = Earlier(time + Lease, jobs[c.job].expires)]

Good(c) == Owned(c) /\ ~Settled(jobs[c.job])

(* The renewal before the execution: without a positive answer nothing is   *)
(* executed, and nothing is reported either.                               *)
FirstRenewal(w) ==
  /\ worker[w].pc = "claimed"
  /\ Renewed(worker[w])
  /\ \/ Good(worker[w]) /\ Goto(w, "working")
     \/ Rest(w)                                    \* refused, lost or stopped
  /\ UNCHANGED <<staged, allowed, time>>

(* A heartbeat or an explicit check while the work goes on.  A negative or   *)
(* missing answer aborts it; the local worker may then just return.         *)
Heartbeat(w) ==
  /\ worker[w].pc \in {"working", "ready"}
  /\ Renewed(worker[w])
  /\ \/ Good(worker[w]) /\ UNCHANGED worker
     \/ Goto(w, "failing")
     \/ w \notin Remote /\ Rest(w)
  /\ UNCHANGED <<staged, allowed, time>>

(* The execution produces its outputs or fails. *)
Execute(w) ==
  /\ worker[w].pc = "working"
  /\ Goto(w, "ready") \/ Goto(w, "failing")
  /\ UNCHANGED jobVars

(* One chunk of a remote worker's outputs.  Nothing is sent twice: without   *)
(* an acknowledgement the attempt is given up.                             *)
Stage(w) ==
  LET c == worker[w] IN
  /\ w \in Remote /\ c.pc = "ready"
  /\ staged[c.job][c.attempt] < Chunks
  /\ IF Good(c)
       THEN /\ staged' = [staged EXCEPT ![c.job][c.attempt] = @ + 1]
            /\ UNCHANGED jobs
            /\ UNCHANGED worker \/ Goto(w, "failing")
       ELSE /\ IF Owned(c) THEN End(c.job) ELSE UNCHANGED jobs
            /\ UNCHANGED staged
            /\ Goto(w, "failing")
  /\ UNCHANGED <<allowed, time>>

(* finish: the outputs and the state in one transaction. *)
Publish(w) ==
  LET c == worker[w] IN
  /\ c.pc = "ready"
  /\ w \in Remote => staged[c.job][c.attempt] = Chunks
  /\ Good(c)
  /\ jobs' = [jobs EXCEPT ![c.job].state = "succeeded", ![c.job].until = 0,
                          ![c.job].outputs = @ \cup {c.attempt}]
  /\ staged' = [staged EXCEPT ![c.job][c.attempt] = 0]
  /\ Rest(w) \/ (w \in Remote /\ Goto(w, "failing"))    \* the answer is lost
  /\ UNCHANGED <<allowed, time>>

(* finish refused: a job that is cancelled or overdue is ended; a submitter  *)
(* without access ends it only through the worker API, in the local worker    *)
(* it throws.  A worker that is refused without an error is done.            *)
PublishRefused(w) ==
  LET c == worker[w]
      r == jobs[c.job]
      ends == Owned(c) /\ (r.cancel \/ r.expires <= time \/ (w \in Remote /\ Settled(r)))
  IN
  /\ c.pc = "ready"
  /\ w \in Remote => staged[c.job][c.attempt] = Chunks
  /\ ~Good(c)
  /\ IF ends THEN End(c.job) ELSE UNCHANGED jobs
  /\ IF w \in Remote \/ (Owned(c) /\ ~ends) THEN Goto(w, "failing") ELSE Rest(w)
  /\ UNCHANGED <<staged, allowed, time>>

(* A transaction that throws (storage full, integrity) leaves no trace. *)
PublishFails(w) ==
  /\ worker[w].pc = "ready"
  /\ Goto(w, "failing")
  /\ UNCHANGED jobVars

(* Mutant: the report of a failure does not look at the lease. *)
ReportFailure_Unfenced(w) ==
  LET c == worker[w] IN
  /\ c.pc = "failing"
  /\ End(c.job)
  /\ UNCHANGED staged
  /\ Rest(w)
  /\ UNCHANGED <<allowed, time>>

(* fail: refused like every call without a live lease.  Through the worker   *)
(* API the staged outputs go with the attempt, unless the job was already    *)
(* settled: then the refusal is all that is committed.                      *)
ReportFailure(w) ==
  LET c == worker[w] IN
  /\ c.pc = "failing"
  /\ IF Owned(c) THEN End(c.job) ELSE UNCHANGED jobs
  /\ staged' = IF w \in Remote /\ Good(c) THEN [staged EXCEPT ![c.job][c.attempt] = 0] ELSE staged
  /\ Rest(w)
  /\ UNCHANGED <<allowed, time>>

(* The process dies and is started again, or its last report is lost. *)
Crash(w) ==
  /\ worker[w] # Resting
  /\ Rest(w)
  /\ UNCHANGED jobVars

-----------------------------------------------------------------------------
(* Sessions end and begin, roles are changed. *)
AccessChanges ==
  /\ \E u \in Users : allowed' = IF u \in allowed THEN allowed \ {u} ELSE allowed \cup {u}
  /\ UNCHANGED <<jobs, staged, time, worker>>

TimePasses ==
  /\ time < MaxClock
  /\ time' = time + 1
  /\ UNCHANGED <<jobs, staged, allowed, worker>>

Works(w) == FirstRenewal(w) \/ Execute(w) \/ Stage(w) \/ Publish(w) \/ PublishRefused(w)
              \/ ReportFailure(w)

Next ==
  \/ /\ \/ \E j \in Jobs, u \in Users, p \in Projects : Submit(j, u, p)
        \/ \E j \in Jobs : Cancel(j) \/ Delete(j)
        \/ \E p \in Projects : DeleteProject(p)
     /\ UNCHANGED worker
  \/ \E w \in Workers : Claim(w) \/ Heartbeat(w) \/ PublishFails(w) \/ Works(w) \/ Crash(w)
  \/ AccessChanges
  \/ TimePasses

Spec == Init /\ [][Next]_vars

(* Workers keep polling, renewals and executions come to an end (requests    *)
(* time out after 5 s, executions after 130 s) and time goes on.             *)
FairSpec ==
  /\ Spec
  /\ WF_vars(TimePasses)
  /\ \A w \in Workers : WF_vars(Claim(w)) /\ WF_vars(Works(w))

-----------------------------------------------------------------------------
(* A job's outputs are attached exactly when it has succeeded, and they are  *)
(* those of its last attempt: a worker whose lease was lost and recovered    *)
(* cannot publish next to, or instead of, the one that replaced it           *)
(* (nativeJobs.ts:361).                                                    *)
OnePublication ==
  \A j \in Jobs :
    jobs[j].outputs = IF jobs[j].state = "succeeded" THEN {jobs[j].attempts} ELSE {}

(* The queue's limits hold although claims recover, end, requeue and start   *)
(* jobs in one transaction (nativeJobs.ts:217, 277).                        *)
CapacityKept ==
  /\ Cardinality(InState(jobs, {"running"})) <= MaxRunning
  /\ Cardinality(InState(jobs, Active)) <= MaxGlobal
  /\ \A p \in Projects :
       /\ Cardinality(InState(jobs, Active) \cap OfProject(p)) <= MaxActive
       /\ Cardinality(InState(jobs, Active \cup Terminal) \cap OfProject(p)) <= MaxRecords

(* Nothing is published after the job's deadline, although the lease of its   *)
(* claim may reach past it, nor for somebody who may no longer write.        *)
PublishedInTime ==
  [][\A j \in Jobs :
       jobs'[j].state = "succeeded" /\ jobs[j].state # "succeeded"
         => time < jobs[j].expires /\ jobs[j].by \in allowed]_vars

(* Whatever happens to the workers, a submitted job does not stay queued or   *)
(* running for ever where a worker is configured for its project.            *)
EveryJobEnds ==
  \A j \in Jobs :
    (jobs[j].state \in Active /\ \E w \in Workers : jobs[j].project \in Scope[w])
      ~> jobs[j].state \notin Active

(* Chunks staged by an attempt that came to nothing do not stay in the        *)
(* database (nativeWorkerAuthority.ts:111).                                 *)
StagingCleaned ==
  \A j \in Jobs, a \in Attempt : staged[j][a] > 0 ~> staged[j][a] = 0

-----------------------------------------------------------------------------
(* The queue with its workers implements the life cycle of a job. *)
View(r) == [phase |-> r.state, attempts |-> r.attempts, cancelled |-> r.cancel,
            results |-> r.outputs]

JL == INSTANCE JobLifecycle WITH job <- [j \in Jobs |-> View(jobs[j])]

Lifecycle == JL!Spec
=============================================================================
