----------------------------- MODULE NativeJobs -----------------------------
(***************************************************************************)
(* The durable queue of native jobs (server/src/nativeJobs.ts) and the      *)
(* staging of a remote worker's outputs (server/src/nativeWorkerAuthority.ts).*)
(* Every operation is one transaction.                                     *)
(*                                                                         *)
(* The random token of a claim is modelled by the number of the attempt it  *)
(* starts: both are fresh at each claim of a job.  A grant (600 s from the   *)
(* claim) outlives the job's deadline (600 s from the submission), so its    *)
(* expiry never decides anything and is left out, as is the expiry of the   *)
(* staged rows it is copied to.  At most MaxGlobal (64) jobs are active, so  *)
(* the LIMIT 64 of the two scans does not show.                             *)
(***************************************************************************)
EXTENDS Integers, FiniteSets

CONSTANTS
  Jobs,           \* random ids jobs may get
  Projects,
  Users,
  LocalProjects,  \* projects whose kind of job the local runtime supports
  MaxAttempts,    \* 2
  MaxRunning,     \* 4 jobs may run at a time
  MaxActive,      \* 2 jobs of a project may be queued or running
  MaxRecords,     \* 32 job records of a project
  MaxGlobal,      \* 64 active jobs
  Lease,          \* LEASE_SECONDS
  Deadline,       \* JOB_DEADLINE_SECONDS
  Chunks,         \* chunks in the outputs of one attempt
  MaxClock        \* bound: no job is submitted that could outlive this time

ASSUME JobAssumption ==
  /\ MaxAttempts \in Nat \ {0} /\ MaxRunning \in Nat \ {0} /\ MaxActive \in Nat \ {0}
  /\ MaxRecords \in Nat \ {0} /\ MaxGlobal \in Nat \ {0}
  /\ Lease \in Nat \ {0} /\ Deadline \in Nat \ {0}
  /\ Chunks \in Nat \ {0} /\ MaxClock \in Nat
  /\ LocalProjects \subseteq Projects
  /\ Projects # {} /\ Users # {}

VARIABLES
  jobs,      \* project_native_jobs with the attempts whose outputs are attached
  staged,    \* native_worker_outputs: job -> attempt -> chunks received
  allowed,   \* users whose submitting session is active and who may write
  time       \* now()

jobVars == <<jobs, staged, allowed, time>>

Active   == {"queued", "running"}
Terminal == {"succeeded", "failed", "cancelled"}
Attempt  == 1..MaxAttempts

Job == [state : {"none", "deleted"} \cup Active \cup Terminal,
        project : Projects, by : Users, created : Nat, expires : Nat, until : Nat,
        attempts : 0..MaxAttempts, cancel : BOOLEAN, outputs : SUBSET Attempt]

JobTypeOK ==
  /\ jobs \in [Jobs -> Job]
  /\ staged \in [Jobs -> [Attempt -> 0..Chunks]]
  /\ allowed \in SUBSET Users
  /\ time \in 0..MaxClock

Unused == [state |-> "none", project |-> CHOOSE p \in Projects : TRUE,
           by |-> CHOOSE u \in Users : TRUE, created |-> 0, expires |-> 0, until |-> 0,
           attempts |-> 0, cancel |-> FALSE, outputs |-> {}]

JobInit ==
  /\ jobs = [j \in Jobs |-> Unused]
  /\ staged = [j \in Jobs |-> [a \in Attempt |-> 0]]
  /\ allowed = Users
  /\ time = 0

-----------------------------------------------------------------------------
InState(js, S) == {j \in Jobs : js[j].state \in S}
OfProject(p)   == {j \in Jobs : jobs[j].project = p}

(* Mutant: a job that runs no longer counts against the limits of the active. *)
Submit_QueuedOnly(j, u, p) ==
  /\ jobs[j].state = "none"
  /\ u \in allowed
  /\ time + Deadline + Lease <= MaxClock
  /\ Cardinality(InState(jobs, Active \cup Terminal) \cap OfProject(p)) < MaxRecords
  /\ Cardinality(InState(jobs, {"queued"}) \cap OfProject(p)) < MaxActive
  /\ Cardinality(InState(jobs, {"queued"})) < MaxGlobal
  /\ jobs' = [jobs EXCEPT ![j] = [Unused EXCEPT !.state = "queued", !.project = p, !.by = u,
                                   !.created = time, !.expires = time + Deadline]]
  /\ UNCHANGED <<staged, allowed, time>>

(* A new job.  A repeated submission with the same idempotency key answers  *)
(* with the job it finds and changes nothing.                              *)
Submit(j, u, p) ==
  /\ jobs[j].state = "none"
  /\ u \in allowed
  /\ time + Deadline + Lease <= MaxClock                          \* bound
  /\ Cardinality(InState(jobs, Active \cup Terminal) \cap OfProject(p)) < MaxRecords
  /\ Cardinality(InState(jobs, Active) \cap OfProject(p)) < MaxActive
  /\ Cardinality(InState(jobs, Active)) < MaxGlobal
  /\ jobs' = [jobs EXCEPT ![j] = [Unused EXCEPT !.state = "queued", !.project = p, !.by = u,
                                   !.created = time, !.expires = time + Deadline]]
  /\ UNCHANGED <<staged, allowed, time>>

(* Any editor of the project may cancel; a finished job stays as it is. *)
Cancel(j) ==
  /\ jobs[j].state \in Active
  /\ jobs' = [jobs EXCEPT ![j].cancel = TRUE,
                          ![j].state = IF @ = "queued" THEN "cancelled" ELSE @]
  /\ UNCHANGED <<staged, allowed, time>>

Removed(j) ==
  /\ jobs' = [jobs EXCEPT ![j].state = "deleted", ![j].until = 0, ![j].outputs = {}]
  /\ staged' = [staged EXCEPT ![j] = [a \in Attempt |-> 0]]
  /\ UNCHANGED <<allowed, time>>

(* DELETE of a finished job's record. *)
Delete(j) == jobs[j].state \in Terminal /\ Removed(j)

(* Deleting the project deletes its jobs, running ones too. *)
DeleteProject(p) ==
  /\ InState(jobs, Active \cup Terminal) \cap OfProject(p) # {}
  /\ jobs' = [j \in Jobs |-> IF jobs[j].state # "none" /\ jobs[j].project = p
                               THEN [jobs[j] EXCEPT !.state = "deleted", !.until = 0, !.outputs = {}]
                               ELSE jobs[j]]
  /\ staged' = [j \in Jobs |-> IF jobs[j].project = p THEN [a \in Attempt |-> 0] ELSE staged[j]]
  /\ UNCHANGED <<allowed, time>>

-----------------------------------------------------------------------------
(* Recovery of leases that ran out, the first part of every claim. *)
Lapsed(r) == r.state = "running" /\ r.until <= time

Recovered(js) ==
  [j \in Jobs |->
    IF ~Lapsed(js[j]) THEN js[j]
    ELSE [js[j] EXCEPT !.until = 0,
            !.state = IF js[j].cancel THEN "cancelled"
                      ELSE IF js[j].attempts >= MaxAttempts \/ js[j].expires <= time THEN "failed"
                      ELSE "queued"]]

(* Queued jobs a claim does not start but ends: past the deadline, submitted *)
(* by someone who may no longer write, or of a kind a local worker lacks.    *)
(* (Cancelling a queued job ends it at once, so none of them is cancelled.)  *)
Unclaimable(r, local) ==
  \/ r.cancel \/ r.expires <= time
  \/ r.by \notin allowed
  \/ local /\ r.project \notin LocalProjects

Ended(js, S) ==
  [j \in Jobs |-> IF j \in S
     THEN [js[j] EXCEPT !.until = 0, !.state = IF js[j].cancel THEN "cancelled" ELSE "failed"]
     ELSE js[j]]

Started(js, j) ==
  [js EXCEPT ![j].state = "running", ![j].until = time + Lease, ![j].attempts = @ + 1]

(* Mutant: one job too many may run. *)
Full_OffByOne(js) == Cardinality(InState(js, {"running"})) > MaxRunning

Full(js) == Cardinality(InState(js, {"running"})) >= MaxRunning

(* What a claim leaves behind: the table and the job it started, if any.  The *)
(* queue is scanned by (created, id), so the unclaimable jobs created before  *)
(* the one it starts are ended, and any of those created in the same second.  *)
Scans(js, scope, local) ==
  LET queue == {j \in InState(js, {"queued"}) : js[j].project \in scope}
      dead  == {j \in queue : Unclaimable(js[j], local)}
      fit   == queue \ dead
  IN  IF Full(js)
        THEN {[table |-> js, started |-> {}]}
      ELSE IF fit = {}
        THEN {[table |-> Ended(js, dead), started |-> {}]}
      ELSE {[table |-> Started(Ended(js, q.swept), q.job), started |-> {q.job}] :
              q \in {x \in [job : fit, swept : SUBSET dead] :
                       /\ \A k \in fit : js[x.job].created <= js[k].created
                       /\ \A d \in dead : /\ js[d].created < js[x.job].created => d \in x.swept
                                         /\ d \in x.swept => js[d].created <= js[x.job].created}}

(* Mutant: the running jobs are counted before the lapsed leases are found. *)
Claims_CountFirst(scope, local) ==
  IF Full(jobs)
    THEN {[table |-> jobs, started |-> {}]}
    ELSE Scans(Recovered(jobs), scope, local)

Claims(scope, local) == Scans(Recovered(jobs), scope, local)
=============================================================================
