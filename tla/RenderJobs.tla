------------------------------ MODULE RenderJobs ------------------------------
(***************************************************************************)
(* Render jobs (server/src/renderJobs.ts): durable rows that the instance   *)
(* which accepts a job executes itself, in the background, between a permit *)
(* of ProviderBudget and the artifact it stores.  Other instances see the   *)
(* row only; they may cancel the job, and every instance fails the jobs     *)
(* nobody seems to work on, when it starts and once a minute after that.    *)
(*                                                                         *)
(* Transactions are steps.  An executor is lost with its instance; its row  *)
(* and its permit stay.  Rendering is configured: without a provider a job  *)
(* is stored in a state of its own and nothing else happens.               *)
(***************************************************************************)
EXTENDS ProviderBudget

CONSTANTS
  Instances,    \* processes that serve the API
  Noone,        \* the instance of an executor that is gone
  Grace,        \* 120 s a job may go unheard of beyond the timeout
  MaxHistory,   \* 200 jobs of a project
  MaxDelay,     \* the longest time from a request's timestamp to its provider call
  LastRequest   \* bound: no job is accepted after this time

ASSUME RenderAssumption ==
  /\ Instances # {} /\ Noone \notin Instances
  /\ Grace \in Nat /\ MaxHistory \in Nat \ {0} /\ LastRequest \in Nat
  /\ MaxDelay \in Nat /\ MaxDelay < Slack

VARIABLES
  executor,   \* what works on each job, and for the instance in which process
  up          \* the instances that run

vars == <<budgetVars, executor, up>>

Gone == [pc |-> "gone", at |-> Noone, since |-> 0, aborted |-> FALSE]

Executor == {Gone} \cup
  [pc : {"start", "look", "read", "call", "save", "fail", "release"}, at : Instances,
   since : Nat, aborted : BOOLEAN]

TypeOK ==
  /\ BudgetTypeOK
  /\ executor \in [Jobs -> Executor]
  /\ up \in SUBSET Instances

Init ==
  /\ BudgetInit
  /\ executor = [j \in Jobs |-> Gone]
  /\ up = Instances

Goto(j, pc) == executor' = [executor EXCEPT ![j].pc = pc]
At(j, pc)   == executor[j].pc = pc
Calling     == {j \in Jobs : At(j, "call")}

-----------------------------------------------------------------------------
(* The common part of a submission and a retry: one transaction, after      *)
(* which the instance starts the executor.  The row's timestamp was read    *)
(* before the transaction had its turn.                                    *)
Accept(i, j, u, p, source) ==
  /\ jobs[j].state = "none"
  /\ time <= LastRequest                                           \* bound
  /\ i \in up /\ u \in allowed
  /\ Cardinality(OfProject({k \in Jobs : jobs[k].state # "none"}, p)) < MaxHistory
  /\ MayAdmit(u, p)
  /\ Admit(j, u)
  /\ \E t \in {x \in 0..time : time - x <= MaxDelay} :
       jobs' = [jobs EXCEPT ![j] = [Unused EXCEPT !.state = "queued", !.project = p, !.by = u,
                                      !.source = source, !.updated = t, !.day = Today]]
  /\ executor' = [executor EXCEPT ![j] = [pc |-> "start", at |-> i, since |-> time,
                                          aborted |-> FALSE]]
  /\ UNCHANGED <<allowed, time, up>>

(* POST renders with an image: stored as an artifact beside the reservation *)
(* for the output.                                                         *)
SubmitImage(i, j, u, p, a) ==
  /\ files[a] = Nowhere
  /\ Claimed(p) + 1 < MaxArtifacts
  /\ files' = [files EXCEPT ![a] = p]
  /\ Accept(i, j, u, p, a)

(* POST renders with an artifact of the project *)
SubmitArtifact(i, j, u, p, a) ==
  /\ files[a] = p
  /\ Accept(i, j, u, p, a)
  /\ UNCHANGED files

(* POST renders/:id/retry: a new job from the source of one that is over *)
Retry(i, j, u, old) ==
  /\ jobs[old].state \in Over
  /\ files[jobs[old].source] = jobs[old].project
  /\ Accept(i, j, u, jobs[old].project, jobs[old].source)
  /\ UNCHANGED files

(* The time of the last change is of no use to a job that is over. *)
Ended(j, state) == [jobs EXCEPT ![j].state = state, ![j].updated = 0]

(* Mutant: a job that is already over is cancelled as well. *)
Cancel_AnyState(i, j) ==
  /\ i \in up /\ allowed # {}
  /\ jobs[j].state # "none"
  /\ jobs' = Ended(j, "cancelled")
  /\ executor' = [executor EXCEPT ![j].aborted = @ \/ executor[j].at = i]
  /\ UNCHANGED <<permit, usage, files, allowed, time, up>>

(* POST renders/:id/cancel: the controller is known to one instance only. *)
Cancel(i, j) ==
  /\ i \in up /\ allowed # {}
  /\ jobs[j].state \in Active
  /\ jobs' = Ended(j, "cancelled")
  /\ executor' = [executor EXCEPT ![j].aborted = @ \/ executor[j].at = i]
  /\ UNCHANGED <<permit, usage, files, allowed, time, up>>

(* The transaction fails after the controller has been told. *)
CancelFails(i, j) ==
  /\ i \in up /\ allowed # {}
  /\ jobs[j].state \in Active
  /\ executor[j].at = i
  /\ executor' = [executor EXCEPT ![j].aborted = TRUE]
  /\ UNCHANGED <<budgetVars, up>>

-----------------------------------------------------------------------------
(* executeRenderJob *)
MarkRunning(j) ==
  /\ At(j, "start")
  /\ jobs[j].by \in allowed
  /\ jobs' = IF jobs[j].state = "queued"
               THEN [jobs EXCEPT ![j].state = "running", ![j].updated = time] ELSE jobs
  /\ Goto(j, "look")
  /\ UNCHANGED <<permit, usage, files, allowed, time, up>>

Look(j) ==
  /\ At(j, "look")
  /\ Goto(j, IF jobs[j].state = "running" THEN "read" ELSE "release")
  /\ UNCHANGED <<budgetVars, up>>

(* The source has been read; an aborted controller stops the call at once. *)
Call(j) ==
  /\ At(j, "read")
  /\ files[jobs[j].source] = jobs[j].project
  /\ executor' = IF executor[j].aborted
                   THEN [executor EXCEPT ![j].pc = "fail"]
                   ELSE [executor EXCEPT ![j].pc = "call", ![j].since = time]
  /\ UNCHANGED <<budgetVars, up>>

Answered(j) ==
  /\ At(j, "call") /\ ~executor[j].aborted
  /\ Goto(j, "save")
  /\ UNCHANGED <<budgetVars, up>>

(* An exception: access or the database on the way to the call; an abort, a  *)
(* timeout, a provider's error or an image too large; no room or no access   *)
(* at the end.                                                             *)
Fails(j) ==
  /\ executor[j].pc \in {"start", "look", "read", "call", "save"}
  /\ Goto(j, "fail")
  /\ UNCHANGED <<budgetVars, up>>

(* Mutant: whether the job is still running is not looked at again. *)
Save_Unchecked(j) ==
  /\ At(j, "save")
  /\ jobs[j].by \in allowed
  /\ Release(j)
  /\ \E a \in Artifacts :
       /\ files[a] = Nowhere
       /\ files' = [files EXCEPT ![a] = jobs[j].project]
       /\ Claimed(jobs[j].project) - Cardinality({j} \cap Live) < MaxArtifacts
       /\ jobs' = [Ended(j, "succeeded") EXCEPT ![j].output = a]
  /\ Goto(j, "release")
  /\ UNCHANGED <<allowed, time, up>>

Save(j) ==
  /\ At(j, "save")
  /\ jobs[j].by \in allowed
  /\ jobs[j].state = "running" /\ ~executor[j].aborted
  /\ Release(j)
  /\ \E a \in Artifacts :
       /\ files[a] = Nowhere
       /\ files' = [files EXCEPT ![a] = jobs[j].project]
       /\ Claimed(jobs[j].project) - Cardinality({j} \cap Live) < MaxArtifacts
       /\ jobs' = [Ended(j, "succeeded") EXCEPT ![j].output = a]
  /\ Goto(j, "release")
  /\ UNCHANGED <<allowed, time, up>>

(* Too late: the row is left as it is. *)
Drop(j) ==
  /\ At(j, "save")
  /\ jobs[j].by \in allowed
  /\ jobs[j].state # "running" \/ executor[j].aborted
  /\ Goto(j, "release")
  /\ UNCHANGED <<budgetVars, up>>

StoreFailure(j) ==
  /\ At(j, "fail")
  /\ jobs' = IF jobs[j].state \in Active
               THEN Ended(j, IF executor[j].aborted THEN "cancelled" ELSE "failed") ELSE jobs
  /\ Goto(j, "release")
  /\ UNCHANGED <<permit, usage, files, allowed, time, up>>

Finish(j) ==
  /\ At(j, "release")
  /\ Release(j)
  /\ executor' = [executor EXCEPT ![j] = Gone]
  /\ UNCHANGED <<jobs, files, allowed, time, up>>

(* The database fails: the failure or the release is not stored. *)
Unpersisted(j) ==
  /\ \/ At(j, "fail") /\ Goto(j, "release")
     \/ At(j, "release") /\ executor' = [executor EXCEPT ![j] = Gone]
  /\ UNCHANGED <<budgetVars, up>>

-----------------------------------------------------------------------------
(* Mutant: a restart takes every unfinished job for interrupted. *)
Interrupted_All == {j \in Jobs : jobs[j].state \in Active}

(* Mutant: a job that was never started is not looked for. *)
Interrupted_Running ==
  {j \in Jobs : /\ jobs[j].state = "running"
                /\ jobs[j].updated + Timeout + Grace < time
                /\ OfProject(Live, jobs[j].project) = {}}

(* Mutant: a permit that has run out keeps the jobs of its project as well. *)
Interrupted_AnyPermit ==
  {j \in Jobs : /\ jobs[j].state \in Active
                /\ jobs[j].updated + Timeout + Grace < time
                /\ OfProject({k \in Jobs : permit[k] > 0}, jobs[j].project) = {}}

(* Jobs unheard of for the time of a call and more, in projects without a   *)
(* live permit.                                                            *)
Interrupted ==
  {j \in Jobs : /\ jobs[j].state \in Active
                /\ jobs[j].updated + Timeout + Grace < time
                /\ OfProject(Live, jobs[j].project) = {}}

(* reconcileInterruptedRenderJobs *)
Reconciled ==
  jobs' = [j \in Jobs |-> IF j \in Interrupted
                            THEN [jobs[j] EXCEPT !.state = "failed", !.updated = 0] ELSE jobs[j]]

Reconcile ==
  /\ up # {}
  /\ Reconciled
  /\ UNCHANGED <<permit, usage, files, allowed, time, executor, up>>

Crash(i) ==
  /\ i \in up
  /\ up' = up \ {i}
  /\ executor' = [j \in Jobs |-> IF executor[j].at = i THEN Gone ELSE executor[j]]
  /\ UNCHANGED budgetVars

Start(i) ==
  /\ i \notin up
  /\ up' = up \cup {i}
  /\ Reconciled
  /\ UNCHANGED <<permit, usage, files, allowed, time, executor>>

AccessChanges(u) ==
  /\ allowed' = IF u \in allowed THEN allowed \ {u} ELSE allowed \cup {u}
  /\ UNCHANGED <<jobs, permit, usage, files, time, executor, up>>

(* Timers fire: a call ends with its timeout, and no more than MaxDelay     *)
(* passes between a request and its call.                                  *)
TimePasses ==
  /\ time < MaxClock
  /\ \A j \in Jobs :
       /\ executor[j].pc \in {"start", "look", "read"} => time < executor[j].since + MaxDelay
       /\ At(j, "call") => time < executor[j].since + Timeout
  /\ time' = time + 1
  /\ UNCHANGED <<jobs, permit, usage, files, allowed, executor, up>>

Step(j) ==
  \/ MarkRunning(j) \/ Look(j) \/ Call(j) \/ Answered(j) \/ Fails(j)
  \/ Save(j) \/ Drop(j) \/ StoreFailure(j) \/ Finish(j) \/ Unpersisted(j)

Next ==
  \/ \E i \in Instances, j \in Jobs, u \in Users, p \in Projects, a \in Artifacts :
       SubmitImage(i, j, u, p, a) \/ SubmitArtifact(i, j, u, p, a)
  \/ \E i \in Instances, j, old \in Jobs, u \in Users : Retry(i, j, u, old)
  \/ \E i \in Instances, j \in Jobs : Cancel(i, j) \/ CancelFails(i, j)
  \/ \E j \in Jobs : Step(j)
  \/ \E p \in Projects, a \in Artifacts : Upload(p, a) /\ UNCHANGED <<executor, up>>
  \/ \E a \in Artifacts : DeleteArtifact(a) /\ UNCHANGED <<executor, up>>
  \/ Reconcile
  \/ \E i \in Instances : Crash(i) \/ Start(i)
  \/ \E u \in Users : AccessChanges(u)
  \/ TimePasses

Spec == Init /\ [][Next]_vars

(* The timer of reconciliation, an executor's own steps and the restart of   *)
(* an instance, none of which waits for a user.                            *)
Fairness ==
  /\ \A j \in Jobs : WF_vars(Step(j))
  /\ \A i \in Instances : WF_vars(Start(i))
  /\ WF_vars(Reconcile)
  /\ WF_vars(TimePasses)

-----------------------------------------------------------------------------
(* However jobs are cancelled, lost and retried, no more provider calls are  *)
(* under way than the limits allow: a permit is only given back, or runs    *)
(* out, once its call is over (providerBudget.ts:84, 118).                  *)
ConcurrencyKept ==
  /\ Cardinality(Calling) <= GlobalLimit
  /\ \A u \in Users : Cardinality(OfUser(Calling, u)) <= UserLimit

(* A day's jobs cost no more than the day's budget, whatever became of them *)
(* (providerBudget.ts:45 "not refunded after dispatch").                    *)
SpendingKept ==
  \A d \in Day :
    LET Charged == {j \in Jobs : jobs[j].state # "none" /\ jobs[j].day = d} IN
    /\ Cardinality(Charged) <= Budget[Everyone]
    /\ \A u \in Users : Cardinality(OfUser(Charged, u)) <= Budget[u]

(* The two limits of a provider, on what is under way and on what a day costs. *)
BudgetKept == ConcurrencyKept /\ SpendingKept

(* What is stored and what is reserved fit into a project together: a call   *)
(* that is paid for finds room for its image as long as its permit is live  *)
(* (providerBudget.ts:107, workspaces.ts:243).                              *)
RoomReserved == \A p \in Projects : Claimed(p) <= MaxArtifacts

(* The images of a job exist for as long as its row does, although a retry   *)
(* or another job may be the only one left to refer to them, and no output  *)
(* belongs to two jobs (workspaces.ts:305).                                 *)
ImagesKept ==
  /\ \A j \in Jobs :
       /\ jobs[j].state # "none" => files[jobs[j].source] = jobs[j].project
       /\ IF jobs[j].state = "succeeded" THEN files[jobs[j].output] = jobs[j].project
                                         ELSE jobs[j].output = NoArtifact
  /\ \A j, k \in Jobs : jobs[j].output = jobs[k].output => j = k \/ jobs[j].output = NoArtifact

(* A job has one outcome: what a cancellation, a reconciliation, a late      *)
(* result or a late failure finds decided stays as it is.                  *)
OutcomeKept ==
  [][\A j \in Jobs : jobs[j].state \in Over => jobs'[j] = jobs[j]]_vars

(* Nobody gives a job up for lost while its executor is on the way to the    *)
(* provider or waits for it, on this instance or another                   *)
(* (renderJobs.ts:519 "Another API instance may still own the work").       *)
WorkKept ==
  [][\A j \in Jobs :
       jobs[j].state \in Active /\ jobs'[j].state = "failed"
         => executor[j].pc \notin {"start", "look", "read", "call"}]_vars

(* Every accepted job ends, although its instance dies and although other    *)
(* jobs of the project keep reconciliation waiting with their permits: a    *)
(* project has at most MaxHistory of them.                                  *)
EveryJobEnds == \A j \in Jobs : (jobs[j].state \in Active) ~> (jobs[j].state \in Over)
=============================================================================
