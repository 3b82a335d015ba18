--------------------------- MODULE RenderJobsProofs ---------------------------
(***************************************************************************)
(* Theorems about render jobs, for any number of jobs, users, projects and  *)
(* instances, any limits, budgets and lengths of time.                     *)
(***************************************************************************)
EXTENDS RenderJobs, FiniteSetTheorems, TLAPS

-----------------------------------------------------------------------------
(* Types. *)

(* The record of a job that is not used yet. *)
LEMMA UnusedType == Unused \in Job
  <1>1. /\ (CHOOSE p \in Projects : TRUE) \in Projects
        /\ (CHOOSE u \in Users : TRUE) \in Users
    BY BudgetAssumption
  <1>2. 0 \in 0..MaxClock
    BY BudgetAssumption
  <1>3. (CHOOSE d \in Day : TRUE) \in Day
    BY <1>2 DEF Day
  <1> QED BY <1>1, <1>3 DEF Unused, Job

(* A job that ends keeps the rest of its row. *)
LEMMA EndedType ==
  ASSUME TypeOK, NEW j \in Jobs, NEW state \in Over
  PROVE  Ended(j, state) \in [Jobs -> Job]
  <1>1. jobs \in [Jobs -> Job]
    BY DEF TypeOK, BudgetTypeOK
  <1>2. [jobs[j] EXCEPT !.state = state, !.updated = 0] \in Job
    BY <1>1 DEF Job
  <1>3. Ended(j, state) = [jobs EXCEPT ![j] = [jobs[j] EXCEPT !.state = state, !.updated = 0]]
    BY <1>1 DEF Ended
  <1> QED BY <1>1, <1>2, <1>3

LEMMA TodayType == ASSUME TypeOK PROVE Today \in Day
  BY DEF TypeOK, BudgetTypeOK, Today, Day

(* Admission writes a permit and two counters. *)
LEMMA AdmitType ==
  ASSUME TypeOK, NEW j \in Jobs, NEW u \in Users, Admit(j, u)
  PROVE  permit' \in [Jobs -> Nat] /\ usage' \in [Scope -> [Day -> Nat]]
  <1>1. /\ permit \in [Jobs -> Nat] /\ usage \in [Scope -> [Day -> Nat]] /\ time \in Nat
        /\ Timeout \in Nat /\ Slack \in Nat
    BY BudgetAssumption DEF TypeOK, BudgetTypeOK
  <1>2. \A s \in Scope : [usage[s] EXCEPT ![Today] = @ + 1] \in [Day -> Nat]
    BY <1>1, TodayType
  <1> QED BY <1>1, <1>2 DEF Admit

LEMMA ReleaseType ==
  ASSUME TypeOK, NEW j \in Jobs, Release(j)
  PROVE  permit' \in [Jobs -> Nat] /\ usage' \in [Scope -> [Day -> Nat]]
  BY DEF TypeOK, BudgetTypeOK, Release

(* An executor that goes on. *)
LEMMA GotoType ==
  ASSUME TypeOK, NEW j \in Jobs, executor[j] # Gone,
         NEW pc \in {"start", "look", "read", "call", "save", "fail", "release"}, Goto(j, pc)
  PROVE  executor' \in [Jobs -> Executor]
  <1>1. executor \in [Jobs -> Executor] /\ executor[j] \in Executor \ {Gone}
    BY DEF TypeOK
  <1>2. [executor[j] EXCEPT !.pc = pc] \in Executor
    BY <1>1 DEF Executor
  <1>3. executor' = [executor EXCEPT ![j] = [executor[j] EXCEPT !.pc = pc]]
    BY <1>1 DEF Goto
  <1> QED BY <1>1, <1>2, <1>3

(* The transaction that accepts a job. *)
LEMMA AcceptType ==
  ASSUME TypeOK, NEW i \in Instances, NEW j \in Jobs, NEW u \in Users, NEW p \in Projects,
         NEW a \in Artifacts \cup {NoArtifact}, Accept(i, j, u, p, a)
  PROVE  /\ jobs' \in [Jobs -> Job] /\ permit' \in [Jobs -> Nat]
         /\ usage' \in [Scope -> [Day -> Nat]] /\ executor' \in [Jobs -> Executor]
         /\ allowed' = allowed /\ time' = time /\ up' = up
  <1>1. PICK t \in 0..time :
          jobs' = [jobs EXCEPT ![j] = [Unused EXCEPT !.state = "queued", !.project = p, !.by = u,
                                         !.source = a, !.updated = t, !.day = Today]]
    BY DEF Accept
  <1>2. t \in Nat /\ time \in Nat /\ jobs \in [Jobs -> Job] /\ executor \in [Jobs -> Executor]
    BY BudgetAssumption DEF TypeOK, BudgetTypeOK
  <1>3. [Unused EXCEPT !.state = "queued", !.project = p, !.by = u, !.source = a,
                       !.updated = t, !.day = Today] \in Job
    BY <1>2, UnusedType, TodayType DEF Job, Active
  <1>4. jobs' \in [Jobs -> Job]
    BY <1>1, <1>2, <1>3
  <1>5. [pc |-> "start", at |-> i, since |-> time, aborted |-> FALSE] \in Executor
    BY <1>2 DEF Executor
  <1>6. executor' \in [Jobs -> Executor]
    BY <1>2, <1>5 DEF Accept
  <1>7. Admit(j, u)
    BY DEF Accept
  <1>8. permit' \in [Jobs -> Nat] /\ usage' \in [Scope -> [Day -> Nat]]
    BY <1>7, AdmitType
  <1> QED BY <1>4, <1>6, <1>8 DEF Accept

(* The executor whose program counter is at a step is there. *)
LEMMA AtType ==
  ASSUME TypeOK, NEW j \in Jobs, executor[j].pc # "gone"
  PROVE  /\ executor[j] \in Executor /\ executor[j] # Gone
         /\ jobs[j] \in Job
  BY DEF TypeOK, BudgetTypeOK, Gone

(* The steps of an executor keep the types. *)
LEMMA StepType ==
  ASSUME TypeOK, NEW j \in Jobs, Step(j)
  PROVE  TypeOK'
  <1> USE DEF At
  <1>1. CASE MarkRunning(j)
    <2>1. executor[j] # Gone
      BY <1>1, AtType DEF MarkRunning
    <2>2. executor' \in [Jobs -> Executor]
      BY <1>1, <2>1, GotoType DEF MarkRunning
    <2>3. jobs \in [Jobs -> Job] /\ time \in Nat
      BY BudgetAssumption DEF TypeOK, BudgetTypeOK
    <2>4. [jobs[j] EXCEPT !.state = "running", !.updated = time] \in Job
      BY <2>3 DEF Job, Active
    <2>5. jobs' = [jobs EXCEPT ![j] = [jobs[j] EXCEPT !.state = "running", !.updated = time]] \/ jobs' = jobs
      BY <1>1, <2>3 DEF MarkRunning
    <2>6. jobs' \in [Jobs -> Job]
      BY <2>3, <2>4, <2>5
    <2> QED BY <1>1, <2>2, <2>6 DEF MarkRunning, TypeOK, BudgetTypeOK
  <1>2. CASE Look(j)
    <2>1. executor[j] # Gone
      BY <1>2, AtType DEF Look
    <2>2. executor' \in [Jobs -> Executor]
      BY <1>2, <2>1, GotoType DEF Look
    <2> QED BY <1>2, <2>2 DEF Look, TypeOK, BudgetTypeOK, budgetVars
  <1>3. CASE Call(j)
    <2>1. executor[j] # Gone /\ executor \in [Jobs -> Executor] /\ time \in Nat
      BY <1>3, AtType, BudgetAssumption DEF Call, TypeOK, BudgetTypeOK
    <2>2. /\ [executor[j] EXCEPT !.pc = "fail"] \in Executor
          /\ [executor[j] EXCEPT !.pc = "call", !.since = time] \in Executor
      BY <2>1 DEF Executor
    <2>3. executor' = [executor EXCEPT ![j] = [executor[j] EXCEPT !.pc = "fail"]]
          \/ executor' = [executor EXCEPT ![j] = [executor[j] EXCEPT !.pc = "call", !.since = time]]
      BY <1>3, <2>1 DEF Call
    <2>4. executor' \in [Jobs -> Executor]
      BY <2>1, <2>2, <2>3
    <2> QED BY <1>3, <2>4 DEF Call, TypeOK, BudgetTypeOK, budgetVars
  <1>4. CASE Answered(j)
    <2>1. executor[j] # Gone
      BY <1>4, AtType DEF Answered
    <2>2. executor' \in [Jobs -> Executor]
      BY <1>4, <2>1, GotoType DEF Answered
    <2> QED BY <1>4, <2>2 DEF Answered, TypeOK, BudgetTypeOK, budgetVars
  <1>5. CASE Fails(j)
    <2>1. executor[j] # Gone
      BY <1>5, AtType DEF Fails
    <2>2. executor' \in [Jobs -> Executor]
      BY <1>5, <2>1, GotoType DEF Fails
    <2> QED BY <1>5, <2>2 DEF Fails, TypeOK, BudgetTypeOK, budgetVars
  <1>6. CASE Save(j)
    <2>1. executor[j] # Gone
      BY <1>6, AtType DEF Save
    <2>2. executor' \in [Jobs -> Executor]
      BY <1>6, <2>1, GotoType DEF Save
    <2>3. permit' \in [Jobs -> Nat] /\ usage' \in [Scope -> [Day -> Nat]]
      BY <1>6, ReleaseType DEF Save
    <2>4. PICK a \in Artifacts : /\ files' = [files EXCEPT ![a] = jobs[j].project]
                                 /\ jobs' = [Ended(j, "succeeded") EXCEPT ![j].output = a]
      BY <1>6 DEF Save
    <2>5. Ended(j, "succeeded") \in [Jobs -> Job]
      BY EndedType DEF Over
    <2>6. [Ended(j, "succeeded")[j] EXCEPT !.output = a] \in Job
      BY <2>5 DEF Job
    <2>7. jobs' = [Ended(j, "succeeded") EXCEPT ![j] = [Ended(j, "succeeded")[j] EXCEPT !.output = a]]
      BY <2>4, <2>5
    <2>8. jobs' \in [Jobs -> Job]
      BY <2>5, <2>6, <2>7
    <2>9. files' \in [Artifacts -> Projects \cup {Nowhere}]
      <3>1. jobs[j].project \in Projects
        BY DEF TypeOK, BudgetTypeOK, Job
      <3> QED BY <2>4, <3>1 DEF TypeOK, BudgetTypeOK
    <2> QED BY <1>6, <2>2, <2>3, <2>8, <2>9 DEF Save, TypeOK, BudgetTypeOK
  <1>7. CASE Drop(j)
    <2>1. executor[j] # Gone
      BY <1>7, AtType DEF Drop
    <2>2. executor' \in [Jobs -> Executor]
      BY <1>7, <2>1, GotoType DEF Drop
    <2> QED BY <1>7, <2>2 DEF Drop, TypeOK, BudgetTypeOK, budgetVars
  <1>8. CASE StoreFailure(j)
    <2>1. executor[j] # Gone
      BY <1>8, AtType DEF StoreFailure
    <2>2. executor' \in [Jobs -> Executor]
      BY <1>8, <2>1, GotoType DEF StoreFailure
    <2>3. jobs' \in [Jobs -> Job]
      <3>1. jobs' = Ended(j, "cancelled") \/ jobs' = Ended(j, "failed") \/ jobs' = jobs
        BY <1>8 DEF StoreFailure
      <3> QED BY <3>1, EndedType DEF Over, TypeOK, BudgetTypeOK
    <2> QED BY <1>8, <2>2, <2>3 DEF StoreFailure, TypeOK, BudgetTypeOK
  <1>9. CASE Finish(j)
    <2>1. permit' \in [Jobs -> Nat] /\ usage' \in [Scope -> [Day -> Nat]]
      BY <1>9, ReleaseType DEF Finish
    <2>2. executor' \in [Jobs -> Executor]
      BY <1>9 DEF Finish, TypeOK, Executor
    <2> QED BY <1>9, <2>1, <2>2 DEF Finish, TypeOK, BudgetTypeOK
  <1>10. CASE Unpersisted(j)
    <2>1. executor' \in [Jobs -> Executor]
      <3>1. CASE At(j, "fail") /\ Goto(j, "release")
        <4>1. executor[j] # Gone
          BY <3>1, AtType
        <4> QED BY <3>1, <4>1, GotoType
      <3>2. CASE executor' = [executor EXCEPT ![j] = Gone]
        BY <3>2 DEF TypeOK, Executor
      <3> QED BY <1>10, <3>1, <3>2 DEF Unpersisted
    <2> QED BY <1>10, <2>1 DEF Unpersisted, TypeOK, BudgetTypeOK, budgetVars
  <1> QED BY <1>1, <1>2, <1>3, <1>4, <1>5, <1>6, <1>7, <1>8, <1>9, <1>10 DEF Step

(* Reconciliation fails some rows. *)
LEMMA ReconciledType ==
  ASSUME TypeOK, Reconciled
  PROVE  jobs' \in [Jobs -> Job]
  <1>1. \A j \in Jobs : jobs[j] \in Job
    BY DEF TypeOK, BudgetTypeOK
  <1>2. \A j \in Jobs : [jobs[j] EXCEPT !.state = "failed", !.updated = 0] \in Job
    BY <1>1 DEF Job, Over
  <1> QED BY <1>1, <1>2 DEF Reconciled

(* Only the flag of an executor changes. *)
LEMMA AbortType ==
  ASSUME TypeOK, NEW j \in Jobs, NEW i \in Instances, NEW b \in BOOLEAN, executor[j].at = i,
         executor' = [executor EXCEPT ![j].aborted = b]
  PROVE  executor' \in [Jobs -> Executor]
  <1>1. executor \in [Jobs -> Executor] /\ executor[j] # Gone
    BY RenderAssumption DEF TypeOK, Gone
  <1>2. [executor[j] EXCEPT !.aborted = b] \in Executor
    BY <1>1 DEF Executor
  <1> QED BY <1>1, <1>2

LEMMA CancelledType ==
  ASSUME TypeOK, NEW j \in Jobs, NEW i \in Instances,
         executor' = [executor EXCEPT ![j].aborted = @ \/ executor[j].at = i]
  PROVE  executor' \in [Jobs -> Executor]
  <1>1. executor \in [Jobs -> Executor] /\ executor[j] \in Executor
    BY DEF TypeOK
  <1>2. executor[j].aborted \in BOOLEAN
    <2>1. CASE executor[j] = Gone
      <3>1. Gone.aborted = FALSE
        BY DEF Gone
      <3> QED BY <2>1, <3>1
    <2>2. CASE executor[j] # Gone
      BY <1>1, <2>2 DEF Executor
    <2> QED BY <2>1, <2>2
  <1>3. CASE executor[j].at = i
    <2>1. executor' = [executor EXCEPT ![j].aborted = TRUE]
      BY <1>3
    <2> QED BY <1>3, <2>1, AbortType
  <1>4. CASE executor[j].at # i
    <2>1. executor' = [executor EXCEPT ![j].aborted = @]
      BY <1>2, <1>4
    <2>2. [executor[j] EXCEPT !.aborted = @] = executor[j]
      BY <1>1 DEF Executor, Gone
    <2> QED BY <1>1, <2>1, <2>2
  <1> QED BY <1>3, <1>4

LEMMA NextType == TypeOK /\ [Next]_vars => TypeOK'
  <1> SUFFICES ASSUME TypeOK, [Next]_vars PROVE TypeOK'
    OBVIOUS
  <1> USE DEF TypeOK, BudgetTypeOK
  <1>1. CASE \E i \in Instances, j \in Jobs, u \in Users, p \in Projects, a \in Artifacts :
               SubmitImage(i, j, u, p, a) \/ SubmitArtifact(i, j, u, p, a)
    <2>1. PICK i \in Instances, j \in Jobs, u \in Users, p \in Projects, a \in Artifacts :
             SubmitImage(i, j, u, p, a) \/ SubmitArtifact(i, j, u, p, a)
      BY <1>1
    <2>2. Accept(i, j, u, p, a)
      BY <2>1 DEF SubmitImage, SubmitArtifact
    <2>3. files' \in [Artifacts -> Projects \cup {Nowhere}]
      BY <2>1 DEF SubmitImage, SubmitArtifact
    <2> QED BY <2>2, <2>3, AcceptType
  <1>2. CASE \E i \in Instances, j, old \in Jobs, u \in Users : Retry(i, j, u, old)
    <2>1. PICK i \in Instances, j \in Jobs, old \in Jobs, u \in Users : Retry(i, j, u, old)
      BY <1>2
    <2>2. Accept(i, j, u, jobs[old].project, jobs[old].source)
      BY <2>1 DEF Retry
    <2>3. jobs[old].project \in Projects /\ jobs[old].source \in Artifacts \cup {NoArtifact}
      BY DEF Job
    <2>4. files' = files
      BY <2>1 DEF Retry
    <2> QED BY <2>2, <2>3, <2>4, AcceptType
  <1>3. CASE \E i \in Instances, j \in Jobs : Cancel(i, j) \/ CancelFails(i, j)
    <2>1. PICK i \in Instances, j \in Jobs : Cancel(i, j) \/ CancelFails(i, j)
      BY <1>3
    <2>2. CASE Cancel(i, j)
      <3>1. jobs' \in [Jobs -> Job]
        BY <2>2, EndedType DEF Cancel, Over
      <3>2. executor' \in [Jobs -> Executor]
        BY <2>2, CancelledType DEF Cancel
      <3> QED BY <2>2, <3>1, <3>2 DEF Cancel
    <2>3. CASE CancelFails(i, j)
      <3>1. executor' \in [Jobs -> Executor]
        BY <2>3, AbortType DEF CancelFails
      <3> QED BY <2>3, <3>1 DEF CancelFails, budgetVars
    <2> QED BY <2>1, <2>2, <2>3
  <1>4. CASE \E j \in Jobs : Step(j)
    BY <1>4, StepType
  <1>5. CASE \E p \in Projects, a \in Artifacts : Upload(p, a) /\ UNCHANGED <<executor, up>>
    BY <1>5 DEF Upload
  <1>6. CASE \E a \in Artifacts : DeleteArtifact(a) /\ UNCHANGED <<executor, up>>
    BY <1>6 DEF DeleteArtifact
  <1>7. CASE Reconcile
    BY <1>7, ReconciledType DEF Reconcile
  <1>8. CASE \E i \in Instances : Crash(i) \/ Start(i)
    <2>1. PICK i \in Instances : Crash(i) \/ Start(i)
      BY <1>8
    <2>2. CASE Crash(i)
      BY <2>2 DEF Crash, Executor, budgetVars
    <2>3. CASE Start(i)
      BY <2>3, ReconciledType DEF Start
    <2> QED BY <2>1, <2>2, <2>3
  <1>9. CASE \E u \in Users : AccessChanges(u)
    BY <1>9 DEF AccessChanges
  <1>10. CASE TimePasses
    BY <1>10, BudgetAssumption DEF TimePasses
  <1>11. CASE UNCHANGED vars
    BY <1>11 DEF vars, budgetVars
  <1> QED BY <1>1, <1>2, <1>3, <1>4, <1>5, <1>6, <1>7, <1>8, <1>9, <1>10, <1>11 DEF Next

LEMMA InitType == Init => TypeOK
  <1> SUFFICES ASSUME Init PROVE TypeOK
    OBVIOUS
  <1>1. Unused \in Job /\ 0 \in 0..MaxClock
    BY UnusedType, BudgetAssumption
  <1> QED BY <1>1 DEF Init, BudgetInit, TypeOK, BudgetTypeOK, Executor

(* Job rows, permits, counters, artifacts and executors keep their types    *)
(* (renderJobs.ts, providerBudget.ts): no counter of the daily usage goes   *)
(* below zero.                                                             *)
THEOREM RenderTypeCorrect == Spec => []TypeOK
  BY InitType, NextType, PTL DEF Spec

-----------------------------------------------------------------------------
(* The inductive invariant. *)

Before == {"start", "look", "read"}
Busy   == Before \cup {"call"}

(* A permit outlives the call it was given for. *)
Timely ==
  \A j \in Jobs :
    /\ executor[j].pc \in Before => /\ time =< executor[j].since + MaxDelay
                                   /\ executor[j].since + Timeout + Slack =< permit[j]
    /\ executor[j].pc = "call" => /\ time =< executor[j].since + Timeout
                                 /\ executor[j].since + Timeout < permit[j]

UnusedIdle == \A j \in Jobs : jobs[j].state = "none" => executor[j] = Gone /\ permit[j] = 0

WithinLimits ==
  /\ IsFiniteSet(Live)
  /\ Cardinality(Live) =< GlobalLimit
  /\ \A u \in Users : Cardinality(OfUser(Live, u)) =< UserLimit

Charged(d) == {j \in Jobs : jobs[j].state # "none" /\ jobs[j].day = d}

(* Every job is charged for once, on the day it was accepted. *)
Accounted ==
  \A d \in Day :
    /\ IsFiniteSet(Charged(d))
    /\ Cardinality(Charged(d)) = usage[Everyone][d]
    /\ \A u \in Users : Cardinality(OfUser(Charged(d), u)) = usage[u][d]
    /\ \A s \in Scope : usage[s][d] =< Budget[s]

Inv == TypeOK /\ Timely /\ UnusedIdle /\ WithinLimits /\ Accounted

(* Whoever is on the way to the provider, or waits for it, has a live permit. *)
LEMMA BusyAreLive ==
  ASSUME TypeOK, Timely, NEW j \in Jobs, executor[j].pc \in Busy
  PROVE  j \in Live
  <1>1. /\ executor[j] \in Executor /\ executor[j].since \in Nat /\ permit[j] \in Nat /\ time \in Nat
        /\ MaxDelay \in Nat /\ Timeout \in Nat \ {0} /\ Slack \in Nat /\ MaxDelay < Slack
    <2>1. executor[j] \in Executor \ {Gone}
      BY DEF TypeOK, Gone, Busy, Before
    <2> QED BY <2>1, BudgetAssumption, RenderAssumption DEF Executor, TypeOK, BudgetTypeOK
  <1>2. time < permit[j]
    BY <1>1 DEF Timely, Busy, Before
  <1> QED BY <1>1, <1>2 DEF Live

(* What any step but the acceptance of a job and the clock does to a job. *)
RowKept(k) ==
  /\ jobs'[k].by = jobs[k].by /\ jobs'[k].day = jobs[k].day
  /\ jobs'[k].state = "none" <=> jobs[k].state = "none"
  /\ jobs[k].state \in Over => jobs'[k] = jobs[k]

Proceeds(k) ==
  LET e == executor[k]
      f == executor'[k]
  IN  \/ f.pc \notin Busy
      \/ f.pc = e.pc /\ f.since = e.since
      \/ e.pc \in Before /\ f.pc \in Before /\ f.since = e.since
      \/ e.pc = "read" /\ f.pc = "call" /\ f.since = time

PermitKept(k) == permit'[k] = permit[k] \/ (permit'[k] = 0 /\ executor'[k].pc \notin Busy)

Conserved ==
  /\ time' = time /\ usage' = usage
  /\ \A k \in Jobs : RowKept(k) /\ Proceeds(k) /\ PermitKept(k)
                    /\ (executor[k] = Gone => executor'[k] = Gone)

(* Accepting the job j for u. *)
Accepts(j, u) ==
  /\ jobs[j].state = "none" /\ time' = time
  /\ MayAdmit(u, jobs'[j].project) /\ Admit(j, u)
  /\ jobs'[j].state = "queued" /\ jobs'[j].by = u /\ jobs'[j].day = Today
  /\ executor'[j].pc = "start" /\ executor'[j].since = time
  /\ \A k \in Jobs \ {j} : jobs'[k] = jobs[k] /\ executor'[k] = executor[k]

LEMMA AcceptAccepts ==
  ASSUME TypeOK, NEW i \in Instances, NEW j \in Jobs, NEW u \in Users, NEW p \in Projects,
         NEW a \in Artifacts \cup {NoArtifact}, Accept(i, j, u, p, a)
  PROVE  Accepts(j, u)
  <1>1. PICK t \in 0..time :
          jobs' = [jobs EXCEPT ![j] = [Unused EXCEPT !.state = "queued", !.project = p, !.by = u,
                                         !.source = a, !.updated = t, !.day = Today]]
    BY DEF Accept
  <1>2. jobs \in [Jobs -> Job] /\ executor \in [Jobs -> Executor]
    BY DEF TypeOK, BudgetTypeOK
  <1>3. jobs'[j] = [Unused EXCEPT !.state = "queued", !.project = p, !.by = u,
                                  !.source = a, !.updated = t, !.day = Today]
    BY <1>1, <1>2
  <1>4. /\ jobs'[j].state = "queued" /\ jobs'[j].project = p /\ jobs'[j].by = u
        /\ jobs'[j].day = Today
    BY <1>3, UnusedType DEF Job
  <1>5. executor'[j] = [pc |-> "start", at |-> i, since |-> time, aborted |-> FALSE]
    BY <1>2 DEF Accept
  <1>6. \A k \in Jobs \ {j} : jobs'[k] = jobs[k] /\ executor'[k] = executor[k]
    BY <1>1, <1>2 DEF Accept
  <1>7. jobs[j].state = "none" /\ time' = time /\ MayAdmit(u, p) /\ Admit(j, u)
    BY DEF Accept
  <1> QED BY <1>4, <1>5, <1>6, <1>7 DEF Accepts

-----------------------------------------------------------------------------
(* Every other step conserves. *)

LEMMA EndedRows ==
  ASSUME TypeOK, NEW j \in Jobs, NEW state \in Over, jobs[j].state \in Active,
         jobs' = Ended(j, state)
  PROVE  \A k \in Jobs : RowKept(k)
  <1>1. jobs \in [Jobs -> Job] /\ jobs[j] \in Job
    BY DEF TypeOK, BudgetTypeOK
  <1>2. jobs' = [jobs EXCEPT ![j] = [jobs[j] EXCEPT !.state = state, !.updated = 0]]
    BY <1>1 DEF Ended
  <1>3. jobs'[j] = [jobs[j] EXCEPT !.state = state, !.updated = 0]
    BY <1>1, <1>2
  <1>4. jobs'[j].by = jobs[j].by /\ jobs'[j].day = jobs[j].day /\ jobs'[j].state = state
    BY <1>1, <1>3 DEF Job
  <1>5. \A k \in Jobs \ {j} : jobs'[k] = jobs[k]
    BY <1>1, <1>2
  <1>6. RowKept(j)
    BY <1>4 DEF RowKept, Active, Over
  <1>7. \A k \in Jobs \ {j} : RowKept(k)
    BY <1>5 DEF RowKept
  <1> QED BY <1>6, <1>7

LEMMA SameRows ==
  ASSUME jobs' = jobs
  PROVE  \A k \in Jobs : RowKept(k)
  BY DEF RowKept

LEMMA GotoProceeds ==
  ASSUME TypeOK, NEW j \in Jobs, executor[j].pc # "gone",
         NEW pc \in {"start", "look", "read", "call", "save", "fail", "release"}, Goto(j, pc),
         pc \in Before => executor[j].pc \in Before, pc # "call"
  PROVE  /\ executor'[j].pc = pc
         /\ \A k \in Jobs : Proceeds(k) /\ (executor[k] = Gone => executor'[k] = Gone)
         /\ \A k \in Jobs \ {j} : executor'[k] = executor[k]
  <1>1. executor \in [Jobs -> Executor] /\ executor[j] \in Executor /\ executor[j] # Gone
    BY AtType DEF TypeOK
  <1>2. executor' = [executor EXCEPT ![j] = [executor[j] EXCEPT !.pc = pc]]
    BY <1>1 DEF Goto
  <1>3. executor'[j] = [executor[j] EXCEPT !.pc = pc]
    BY <1>1, <1>2
  <1>4. executor'[j].pc = pc /\ executor'[j].since = executor[j].since
    BY <1>1, <1>3 DEF Executor
  <1>5. \A k \in Jobs \ {j} : executor'[k] = executor[k]
    BY <1>1, <1>2
  <1>6. Proceeds(j)
    BY <1>4 DEF Proceeds, Busy, Before
  <1>7. \A k \in Jobs \ {j} : Proceeds(k)
    BY <1>5 DEF Proceeds
  <1> QED BY <1>1, <1>4, <1>5, <1>6, <1>7

(* Giving back the permit of an executor that is no longer on its way. *)
LEMMA ReleaseKeeps ==
  ASSUME TypeOK, NEW j \in Jobs, Release(j), executor'[j].pc \notin Busy
  PROVE  usage' = usage /\ \A k \in Jobs : PermitKept(k)
  BY DEF TypeOK, BudgetTypeOK, Release, PermitKept

LEMMA StepConserves ==
  ASSUME TypeOK, NEW j \in Jobs, Step(j)
  PROVE  Conserved
  <1> USE DEF At
  <1>1. CASE MarkRunning(j)
    <2>1. /\ executor[j].pc = "start" /\ Goto(j, "look")
          /\ permit' = permit /\ usage' = usage /\ time' = time
      BY <1>1 DEF MarkRunning
    <2>2. \A k \in Jobs : Proceeds(k) /\ (executor[k] = Gone => executor'[k] = Gone)
      BY <2>1, GotoProceeds DEF Before
    <2>3. \A k \in Jobs : RowKept(k)
      <3>1. jobs \in [Jobs -> Job] /\ jobs[j] \in Job
        BY DEF TypeOK, BudgetTypeOK
      <3>2. CASE jobs[j].state = "queued"
        <4>1. jobs' = [jobs EXCEPT ![j] = [jobs[j] EXCEPT !.state = "running", !.updated = time]]
          BY <1>1, <3>1, <3>2 DEF MarkRunning
        <4>2. jobs'[j] = [jobs[j] EXCEPT !.state = "running", !.updated = time]
          BY <3>1, <4>1
        <4>3. jobs'[j].by = jobs[j].by /\ jobs'[j].day = jobs[j].day /\ jobs'[j].state = "running"
          BY <3>1, <4>2 DEF Job
        <4>4. \A k \in Jobs \ {j} : jobs'[k] = jobs[k]
          BY <3>1, <4>1
        <4>5. RowKept(j)
          BY <3>2, <4>3 DEF RowKept, Over
        <4> QED BY <4>4, <4>5 DEF RowKept
      <3>3. CASE jobs[j].state # "queued"
        BY <1>1, <3>3, SameRows DEF MarkRunning
      <3> QED BY <3>2, <3>3
    <2> QED BY <2>1, <2>2, <2>3 DEF Conserved, PermitKept
  <1>2. CASE Look(j)
    <2>1. executor[j].pc = "look" /\ Goto(j, IF jobs[j].state = "running" THEN "read" ELSE "release")
      BY <1>2 DEF Look
    <2>2. \A k \in Jobs : Proceeds(k) /\ (executor[k] = Gone => executor'[k] = Gone)
      BY <2>1, GotoProceeds DEF Before
    <2> QED BY <1>2, <2>2, SameRows DEF Conserved, PermitKept, Look, budgetVars
  <1>3. CASE Call(j)
    <2>1. executor[j] # Gone /\ executor \in [Jobs -> Executor] /\ executor[j] \in Executor
      BY <1>3, AtType DEF Call, TypeOK
    <2>2. executor' = [executor EXCEPT ![j] = [executor[j] EXCEPT !.pc = "fail"]]
          \/ executor' = [executor EXCEPT ![j] = [executor[j] EXCEPT !.pc = "call", !.since = time]]
      BY <1>3, <2>1 DEF Call
    <2>3. executor'[j] = [executor[j] EXCEPT !.pc = "fail"]
          \/ executor'[j] = [executor[j] EXCEPT !.pc = "call", !.since = time]
      BY <2>1, <2>2
    <2>4. executor'[j].pc = "fail" \/ (executor'[j].pc = "call" /\ executor'[j].since = time)
      BY <2>1, <2>3 DEF Executor
    <2>5. \A k \in Jobs \ {j} : executor'[k] = executor[k]
      BY <2>1, <2>2
    <2>6. Proceeds(j)
      BY <1>3, <2>4 DEF Proceeds, Busy, Before, Call
    <2>7. \A k \in Jobs : Proceeds(k) /\ (executor[k] = Gone => executor'[k] = Gone)
      BY <2>1, <2>5, <2>6 DEF Proceeds
    <2> QED BY <1>3, <2>7, SameRows DEF Conserved, PermitKept, Call, budgetVars
  <1>4. CASE Answered(j)
    <2>1. executor[j].pc = "call" /\ Goto(j, "save")
      BY <1>4 DEF Answered
    <2>2. \A k \in Jobs : Proceeds(k) /\ (executor[k] = Gone => executor'[k] = Gone)
      BY <2>1, GotoProceeds DEF Before
    <2> QED BY <1>4, <2>2, SameRows DEF Conserved, PermitKept, Answered, budgetVars
  <1>5. CASE Fails(j)
    <2>1. executor[j].pc # "gone" /\ Goto(j, "fail")
      BY <1>5 DEF Fails
    <2>2. \A k \in Jobs : Proceeds(k) /\ (executor[k] = Gone => executor'[k] = Gone)
      BY <2>1, GotoProceeds DEF Before
    <2> QED BY <1>5, <2>2, SameRows DEF Conserved, PermitKept, Fails, budgetVars
  <1>6. CASE Save(j)
    <2>1. executor[j].pc = "save" /\ Goto(j, "release") /\ jobs[j].state = "running" /\ time' = time /\ Release(j)
      BY <1>6 DEF Save
    <2>2. executor'[j].pc = "release" /\ \A k \in Jobs : Proceeds(k) /\ (executor[k] = Gone => executor'[k] = Gone)
      BY <2>1, GotoProceeds DEF Before
    <2>3. PICK a \in Artifacts : jobs' = [Ended(j, "succeeded") EXCEPT ![j].output = a]
      BY <1>6 DEF Save
    <2>4. \A k \in Jobs : RowKept(k)
      <3>1. jobs \in [Jobs -> Job] /\ jobs[j] \in Job
        BY DEF TypeOK, BudgetTypeOK
      <3>2. Ended(j, "succeeded") = [jobs EXCEPT ![j] = [jobs[j] EXCEPT !.state = "succeeded", !.updated = 0]]
        BY <3>1 DEF Ended
      <3> DEFINE r == [jobs[j] EXCEPT !.state = "succeeded", !.updated = 0]
      <3>3. r \in Job /\ r.by = jobs[j].by /\ r.day = jobs[j].day /\ r.state = "succeeded"
        BY <3>1 DEF Job, Over
      <3>4. jobs' = [jobs EXCEPT ![j] = [r EXCEPT !.output = a]]
        BY <2>3, <3>1, <3>2
      <3>5. jobs'[j] = [r EXCEPT !.output = a]
        BY <3>1, <3>4
      <3>6. jobs'[j].by = r.by /\ jobs'[j].day = r.day /\ jobs'[j].state = r.state
        BY <3>3, <3>5 DEF Job
      <3>7. \A k \in Jobs \ {j} : jobs'[k] = jobs[k]
        BY <3>1, <3>4
      <3>8. RowKept(j)
        BY <2>1, <3>3, <3>6 DEF RowKept, Over
      <3> QED BY <3>7, <3>8 DEF RowKept
    <2>5. usage' = usage /\ \A k \in Jobs : PermitKept(k)
      BY <2>1, <2>2, ReleaseKeeps DEF Busy, Before
    <2> QED BY <2>1, <2>2, <2>4, <2>5 DEF Conserved
  <1>7. CASE Drop(j)
    <2>1. executor[j].pc = "save" /\ Goto(j, "release")
      BY <1>7 DEF Drop
    <2>2. \A k \in Jobs : Proceeds(k) /\ (executor[k] = Gone => executor'[k] = Gone)
      BY <2>1, GotoProceeds DEF Before
    <2> QED BY <1>7, <2>2, SameRows DEF Conserved, PermitKept, Drop, budgetVars
  <1>8. CASE StoreFailure(j)
    <2>1. /\ executor[j].pc = "fail" /\ Goto(j, "release")
          /\ permit' = permit /\ usage' = usage /\ time' = time
      BY <1>8 DEF StoreFailure
    <2>2. \A k \in Jobs : Proceeds(k) /\ (executor[k] = Gone => executor'[k] = Gone)
      BY <2>1, GotoProceeds DEF Before
    <2>3. \A k \in Jobs : RowKept(k)
      <3>1. CASE jobs[j].state \in Active
        <4>1. jobs' = Ended(j, "cancelled") \/ jobs' = Ended(j, "failed")
          BY <1>8, <3>1 DEF StoreFailure
        <4> QED BY <3>1, <4>1, EndedRows DEF Over
      <3>2. CASE jobs[j].state \notin Active
        BY <1>8, <3>2, SameRows DEF StoreFailure
      <3> QED BY <3>1, <3>2
    <2> QED BY <2>1, <2>2, <2>3 DEF Conserved, PermitKept
  <1>9. CASE Finish(j)
    <2>1. executor' = [executor EXCEPT ![j] = Gone] /\ Release(j) /\ time' = time /\ jobs' = jobs
      BY <1>9 DEF Finish
    <2>2. executor'[j].pc = "gone" /\ executor'[j] = Gone /\ \A k \in Jobs \ {j} : executor'[k] = executor[k]
      BY <2>1 DEF TypeOK, Gone
    <2>3. \A k \in Jobs : Proceeds(k) /\ (executor[k] = Gone => executor'[k] = Gone)
      BY <2>2 DEF Proceeds, Busy, Before
    <2>4. usage' = usage /\ \A k \in Jobs : PermitKept(k)
      BY <2>1, <2>2, ReleaseKeeps DEF Busy, Before
    <2> QED BY <2>1, <2>3, <2>4, SameRows DEF Conserved
  <1>10. CASE Unpersisted(j)
    <2>1. \A k \in Jobs : Proceeds(k) /\ (executor[k] = Gone => executor'[k] = Gone)
      <3>1. CASE At(j, "fail") /\ Goto(j, "release")
        BY <3>1, GotoProceeds DEF Before
      <3>2. CASE executor' = [executor EXCEPT ![j] = Gone]
        <4>1. executor'[j].pc = "gone" /\ executor'[j] = Gone /\ \A k \in Jobs \ {j} : executor'[k] = executor[k]
          BY <3>2 DEF TypeOK, Gone
        <4> QED BY <4>1 DEF Proceeds, Busy, Before
      <3> QED BY <1>10, <3>1, <3>2 DEF Unpersisted
    <2> QED BY <1>10, <2>1, SameRows DEF Conserved, PermitKept, Unpersisted, budgetVars
  <1> QED BY <1>1, <1>2, <1>3, <1>4, <1>5, <1>6, <1>7, <1>8, <1>9, <1>10 DEF Step

(* An executor that is only told to stop, or is lost, goes nowhere new. *)
LEMMA FlagProceeds ==
  ASSUME TypeOK, NEW j \in Jobs, executor[j] # Gone, NEW b,
         executor' = [executor EXCEPT ![j].aborted = b]
  PROVE  \A k \in Jobs : Proceeds(k) /\ (executor[k] = Gone => executor'[k] = Gone)
  <1>1. executor \in [Jobs -> Executor] /\ executor[j] \in Executor
    BY DEF TypeOK
  <1>2. executor'[j] = [executor[j] EXCEPT !.aborted = b]
    BY <1>1
  <1>3. executor'[j].pc = executor[j].pc /\ executor'[j].since = executor[j].since
    BY <1>1, <1>2 DEF Executor
  <1>4. \A k \in Jobs \ {j} : executor'[k] = executor[k]
    BY <1>1
  <1> QED BY <1>3, <1>4 DEF Proceeds

LEMMA ReconciledRows ==
  ASSUME TypeOK, Reconciled
  PROVE  \A k \in Jobs : RowKept(k)
  <1> SUFFICES ASSUME NEW k \in Jobs PROVE RowKept(k)
    OBVIOUS
  <1>1. jobs[k] \in Job
    BY DEF TypeOK, BudgetTypeOK
  <1>2. CASE k \in Interrupted
    <2>1. jobs'[k] = [jobs[k] EXCEPT !.state = "failed", !.updated = 0]
      BY <1>2 DEF Reconciled
    <2>2. jobs'[k].by = jobs[k].by /\ jobs'[k].day = jobs[k].day /\ jobs'[k].state = "failed"
      BY <1>1, <2>1 DEF Job
    <2> QED BY <1>2, <2>2 DEF RowKept, Interrupted, Active, Over
  <1>3. CASE k \notin Interrupted
    BY <1>3 DEF Reconciled, RowKept
  <1> QED BY <1>2, <1>3

(* A step accepts a job, lets time pass, or conserves. *)
LEMMA Moves ==
  ASSUME TypeOK, [Next]_vars
  PROVE  \/ \E j \in Jobs, u \in Users : Accepts(j, u)
         \/ TimePasses
         \/ Conserved
  <1>1. CASE \E i \in Instances, j \in Jobs, u \in Users, p \in Projects, a \in Artifacts :
               SubmitImage(i, j, u, p, a) \/ SubmitArtifact(i, j, u, p, a)
    BY <1>1, AcceptAccepts DEF SubmitImage, SubmitArtifact
  <1>2. CASE \E i \in Instances, j, old \in Jobs, u \in Users : Retry(i, j, u, old)
    <2>1. PICK i \in Instances, j \in Jobs, old \in Jobs, u \in Users : Retry(i, j, u, old)
      BY <1>2
    <2>2. jobs[old].project \in Projects /\ jobs[old].source \in Artifacts \cup {NoArtifact}
      BY DEF TypeOK, BudgetTypeOK, Job
    <2>3. Accept(i, j, u, jobs[old].project, jobs[old].source)
      BY <2>1 DEF Retry
    <2> QED BY <2>2, <2>3, AcceptAccepts
  <1>3. CASE \E i \in Instances, j \in Jobs : Cancel(i, j) \/ CancelFails(i, j)
    <2>1. PICK i \in Instances, j \in Jobs : Cancel(i, j) \/ CancelFails(i, j)
      BY <1>3
    <2>2. CASE Cancel(i, j)
      <3>1. \A k \in Jobs : RowKept(k)
        BY <2>2, EndedRows DEF Cancel, Over
      <3>2. \A k \in Jobs : Proceeds(k) /\ (executor[k] = Gone => executor'[k] = Gone)
        <4>1. executor \in [Jobs -> Executor] /\ executor[j] \in Executor
          BY DEF TypeOK
        <4>2. CASE executor[j] # Gone
          <5>1. PICK b : executor' = [executor EXCEPT ![j].aborted = b]
            BY <2>2 DEF Cancel
          <5> QED BY <4>2, <5>1, FlagProceeds
        <4>3. CASE executor[j] = Gone
          <5>1. executor' = [executor EXCEPT ![j].aborted = FALSE]
            <6>1. executor[j].aborted = FALSE /\ executor[j].at # i
              BY <4>3, RenderAssumption DEF Gone
            <6>2. (executor[j].aborted \/ executor[j].at = i) = FALSE
              BY <6>1
            <6>3. executor' = [executor EXCEPT ![j].aborted = (executor[j].aborted \/ executor[j].at = i)]
              BY <2>2 DEF Cancel
            <6> QED BY <6>2, <6>3, Zenon
          <5>2. executor'[j] = [Gone EXCEPT !.aborted = FALSE]
            BY <4>1, <4>3, <5>1
          <5>3. executor'[j] = Gone
            BY <5>2 DEF Gone
          <5>4. \A k \in Jobs \ {j} : executor'[k] = executor[k]
            BY <4>1, <5>1
          <5> QED BY <4>3, <5>3, <5>4 DEF Proceeds
        <4> QED BY <4>2, <4>3
      <3> QED BY <2>2, <3>1, <3>2 DEF Conserved, PermitKept, Cancel
    <2>3. CASE CancelFails(i, j)
      <3>1. executor[j] # Gone /\ executor' = [executor EXCEPT ![j].aborted = TRUE]
        BY <2>3, RenderAssumption DEF CancelFails, Gone
      <3>2. \A k \in Jobs : Proceeds(k) /\ (executor[k] = Gone => executor'[k] = Gone)
        BY <3>1, FlagProceeds
      <3> QED BY <2>3, <3>2, SameRows DEF Conserved, PermitKept, CancelFails, budgetVars
    <2> QED BY <2>1, <2>2, <2>3
  <1>4. CASE \E j \in Jobs : Step(j)
    BY <1>4, StepConserves
  <1>5. CASE \E p \in Projects, a \in Artifacts : Upload(p, a) /\ UNCHANGED <<executor, up>>
    BY <1>5, SameRows DEF Upload, Conserved, PermitKept, Proceeds
  <1>6. CASE \E a \in Artifacts : DeleteArtifact(a) /\ UNCHANGED <<executor, up>>
    BY <1>6, SameRows DEF DeleteArtifact, Conserved, PermitKept, Proceeds
  <1>7. CASE Reconcile
    BY <1>7, ReconciledRows DEF Reconcile, Conserved, PermitKept, Proceeds
  <1>8. CASE \E i \in Instances : Crash(i) \/ Start(i)
    <2>1. PICK i \in Instances : Crash(i) \/ Start(i)
      BY <1>8
    <2>2. CASE Crash(i)
      <3>1. \A k \in Jobs : executor'[k] = Gone \/ executor'[k] = executor[k]
        BY <2>2 DEF Crash
      <3>2. Gone.pc \notin Busy
        BY DEF Gone, Busy, Before
      <3>3. \A k \in Jobs : Proceeds(k) /\ (executor[k] = Gone => executor'[k] = Gone)
        BY <3>1, <3>2 DEF Proceeds
      <3> QED BY <2>2, <3>3, SameRows DEF Crash, Conserved, PermitKept, budgetVars
    <2>3. CASE Start(i)
      BY <2>3, ReconciledRows DEF Start, Conserved, PermitKept, Proceeds
    <2> QED BY <2>1, <2>2, <2>3
  <1>9. CASE \E u \in Users : AccessChanges(u)
    BY <1>9, SameRows DEF AccessChanges, Conserved, PermitKept, Proceeds
  <1>10. CASE TimePasses
    BY <1>10
  <1>11. CASE UNCHANGED vars
    BY <1>11, SameRows DEF vars, budgetVars, Conserved, PermitKept, Proceeds
  <1> QED BY <1>1, <1>2, <1>3, <1>4, <1>5, <1>6, <1>7, <1>8, <1>9, <1>10, <1>11 DEF Next

-----------------------------------------------------------------------------
(* The invariant is inductive. *)

LEMMA Times ==
  ASSUME TypeOK, NEW j \in Jobs
  PROVE  /\ executor[j].since \in Nat /\ permit[j] \in Nat /\ time \in Nat
         /\ MaxDelay \in Nat /\ Timeout \in Nat \ {0} /\ Slack \in Nat /\ MaxDelay < Slack
  <1>1. executor[j] \in Executor
    BY DEF TypeOK
  <1>2. executor[j].since \in Nat
    <2>1. Gone.since = 0
      BY DEF Gone
    <2>2. CASE executor[j] = Gone
      BY <2>1, <2>2
    <2>3. CASE executor[j] # Gone
      BY <1>1, <2>3 DEF Executor
    <2> QED BY <2>2, <2>3
  <1> QED BY <1>2, BudgetAssumption, RenderAssumption DEF TypeOK, BudgetTypeOK

(* Fewer live permits of the same users stay within the limits. *)
LEMMA FewerLive ==
  ASSUME TypeOK, WithinLimits, Live' \subseteq Live, \A k \in Jobs : jobs'[k].by = jobs[k].by
  PROVE  WithinLimits'
  <1>1. IsFiniteSet(Live) /\ Cardinality(Live) =< GlobalLimit
    BY DEF WithinLimits
  <1>2. IsFiniteSet(Live') /\ Cardinality(Live') =< Cardinality(Live)
    BY <1>1, FS_Subset
  <1>3. Cardinality(Live) \in Nat /\ Cardinality(Live') \in Nat /\ GlobalLimit \in Nat /\ UserLimit \in Nat
    BY <1>1, <1>2, FS_CardinalityType, BudgetAssumption
  <1>4. ASSUME NEW u \in Users
        PROVE  Cardinality(OfUser(Live, u)') =< UserLimit
    <2>1. OfUser(Live, u)' \subseteq OfUser(Live, u) /\ OfUser(Live, u) \subseteq Live
      BY DEF OfUser, Live
    <2>2. IsFiniteSet(OfUser(Live, u))
      BY <1>1, <2>1, FS_Subset
    <2>3. IsFiniteSet(OfUser(Live, u)') /\ Cardinality(OfUser(Live, u)') =< Cardinality(OfUser(Live, u))
      BY <2>1, <2>2, FS_Subset
    <2>4. Cardinality(OfUser(Live, u)) \in Nat /\ Cardinality(OfUser(Live, u)') \in Nat
      BY <2>2, <2>3, FS_CardinalityType
    <2>5. Cardinality(OfUser(Live, u)) =< UserLimit
      BY DEF WithinLimits
    <2> QED BY <1>3, <2>3, <2>4, <2>5
  <1> QED BY <1>1, <1>2, <1>3, <1>4 DEF WithinLimits

(* The same rows are charged for. *)
LEMMA SameCharges ==
  ASSUME TypeOK, Accounted, usage' = usage,
         \A k \in Jobs : /\ jobs'[k].by = jobs[k].by /\ jobs'[k].day = jobs[k].day
                         /\ jobs'[k].state = "none" <=> jobs[k].state = "none"
  PROVE  Accounted'
  <1>1. \A d \in Day : Charged(d)' = Charged(d)
    BY DEF Charged
  <1>2. \A d \in Day, u \in Users : OfUser(Charged(d), u)' = OfUser(Charged(d), u)
    BY <1>1 DEF OfUser, Charged
  <1> QED BY <1>1, <1>2 DEF Accounted

LEMMA ConservedInv ==
  ASSUME Inv, TypeOK', Conserved
  PROVE  Inv'
  <1> USE DEF Inv
  <1>1. Timely'
    <2> SUFFICES ASSUME NEW j \in Jobs
                 PROVE  /\ executor'[j].pc \in Before => /\ time' =< executor'[j].since + MaxDelay
                                                         /\ executor'[j].since + Timeout + Slack =< permit'[j]
                        /\ executor'[j].pc = "call" => /\ time' =< executor'[j].since + Timeout
                                                      /\ executor'[j].since + Timeout < permit'[j]
      BY DEF Timely
    <2>1. CASE executor'[j].pc \notin Busy
      BY <2>1 DEF Busy, Before
    <2>2. CASE executor'[j].pc \in Busy
      <3>1. permit'[j] = permit[j] /\ time' = time /\ Proceeds(j)
        BY <2>2 DEF Conserved, PermitKept
      <3>2. /\ executor[j].pc \in Before => /\ time =< executor[j].since + MaxDelay
                                            /\ executor[j].since + Timeout + Slack =< permit[j]
            /\ executor[j].pc = "call" => /\ time =< executor[j].since + Timeout
                                         /\ executor[j].since + Timeout < permit[j]
        BY DEF Timely
      <3>3. CASE executor'[j].pc = executor[j].pc /\ executor'[j].since = executor[j].since
        BY <3>1, <3>2, <3>3
      <3>4. CASE executor[j].pc \in Before /\ executor'[j].pc \in Before /\ executor'[j].since = executor[j].since
        BY <3>1, <3>2, <3>4 DEF Before
      <3>5. CASE executor[j].pc = "read" /\ executor'[j].pc = "call" /\ executor'[j].since = time
        <4>1. time =< executor[j].since + MaxDelay /\ executor[j].since + Timeout + Slack =< permit[j]
          BY <3>2, <3>5 DEF Before
        <4>2. time =< time + Timeout /\ time + Timeout < permit[j]
          BY <4>1, Times
        <4> QED BY <3>1, <3>5, <4>2 DEF Before
      <3> QED BY <2>2, <3>1, <3>3, <3>4, <3>5 DEF Proceeds
    <2> QED BY <2>1, <2>2
  <1>2. UnusedIdle'
    <2>1. Gone.pc \notin Busy
      BY DEF Gone, Busy, Before
    <2> QED BY <2>1 DEF UnusedIdle, Conserved, RowKept, PermitKept
  <1>3. WithinLimits'
    <2>1. Live' \subseteq Live
      BY Times DEF Live, Conserved, PermitKept
    <2>2. \A k \in Jobs : jobs'[k].by = jobs[k].by
      BY DEF Conserved, RowKept
    <2> QED BY <2>1, <2>2, FewerLive
  <1>4. Accounted'
    BY SameCharges DEF Conserved, RowKept
  <1> QED BY <1>1, <1>2, <1>3, <1>4

LEMMA TimeInv ==
  ASSUME Inv, TypeOK', TimePasses
  PROVE  Inv'
  <1> USE DEF Inv
  <1>1. /\ time' = time + 1 /\ jobs' = jobs /\ permit' = permit /\ executor' = executor /\ usage' = usage
        /\ \A j \in Jobs : /\ executor[j].pc \in Before => time < executor[j].since + MaxDelay
                           /\ executor[j].pc = "call" => time < executor[j].since + Timeout
    BY DEF TimePasses, At, Before
  <1>2. Timely'
    <2> SUFFICES ASSUME NEW j \in Jobs
                 PROVE  /\ executor'[j].pc \in Before => /\ time' =< executor'[j].since + MaxDelay
                                                         /\ executor'[j].since + Timeout + Slack =< permit'[j]
                        /\ executor'[j].pc = "call" => /\ time' =< executor'[j].since + Timeout
                                                      /\ executor'[j].since + Timeout < permit'[j]
      BY DEF Timely
    <2> QED BY <1>1, Times DEF Timely
  <1>3. UnusedIdle'
    BY <1>1 DEF UnusedIdle
  <1>4. WithinLimits'
    <2>1. Live' \subseteq Live
      BY <1>1, Times DEF Live
    <2> QED BY <1>1, <2>1, FewerLive
  <1>5. Accounted'
    BY <1>1, SameCharges
  <1> QED BY <1>2, <1>3, <1>4, <1>5

(* One more element. *)
LEMMA OneMore ==
  ASSUME NEW S, IsFiniteSet(S), NEW T, NEW x, T \subseteq S \cup {x}
  PROVE  IsFiniteSet(T) /\ Cardinality(S) \in Nat /\ Cardinality(T) \in Nat /\ Cardinality(T) =< Cardinality(S) + 1
  <1>1. IsFiniteSet(S \cup {x}) /\ Cardinality(S \cup {x}) =< Cardinality(S) + 1 /\ Cardinality(S) \in Nat
        /\ Cardinality(S \cup {x}) \in Nat
    BY FS_AddElement, FS_CardinalityType
  <1>2. IsFiniteSet(T) /\ Cardinality(T) =< Cardinality(S \cup {x})
    BY <1>1, FS_Subset
  <1> QED BY <1>1, <1>2, FS_CardinalityType

LEMMA AcceptedTimely ==
  ASSUME Inv, NEW j \in Jobs, NEW u \in Users, Accepts(j, u)
  PROVE  Timely' /\ UnusedIdle'
  <1> USE DEF Inv
  <1>1. /\ time' = time
        /\ permit' = [k \in Jobs |-> IF k = j THEN time + Timeout + Slack
                                     ELSE IF k \in Live THEN permit[k] ELSE 0]
        /\ executor'[j].pc = "start" /\ executor'[j].since = time /\ jobs'[j].state = "queued"
        /\ \A k \in Jobs \ {j} : jobs'[k] = jobs[k] /\ executor'[k] = executor[k]
    BY DEF Accepts, Admit
  <1>2. Timely'
    <2> SUFFICES ASSUME NEW k \in Jobs
                 PROVE  /\ executor'[k].pc \in Before => /\ time' =< executor'[k].since + MaxDelay
                                                         /\ executor'[k].since + Timeout + Slack =< permit'[k]
                        /\ executor'[k].pc = "call" => /\ time' =< executor'[k].since + Timeout
                                                      /\ executor'[k].since + Timeout < permit'[k]
      BY DEF Timely
    <2>1. CASE k = j
      <3>1. permit'[j] = time + Timeout + Slack
        BY <1>1
      <3> QED BY <1>1, <2>1, <3>1, Times DEF Before
    <2>2. CASE k # j /\ executor[k].pc \in Busy
      <3>1. permit'[k] = permit[k] /\ executor'[k] = executor[k]
        BY <1>1, <2>2, BusyAreLive
      <3> QED BY <1>1, <3>1 DEF Timely
    <2>3. CASE k # j /\ executor[k].pc \notin Busy
      BY <1>1, <2>3 DEF Busy, Before
    <2> QED BY <2>1, <2>2, <2>3
  <1>3. UnusedIdle'
    BY <1>1 DEF UnusedIdle
  <1> QED BY <1>2, <1>3

LEMMA AcceptedWithinLimits ==
  ASSUME Inv, NEW j \in Jobs, NEW u \in Users, Accepts(j, u)
  PROVE  WithinLimits'
  <1> USE DEF Inv
  <1>1. /\ time' = time
        /\ permit' = [k \in Jobs |-> IF k = j THEN time + Timeout + Slack
                                     ELSE IF k \in Live THEN permit[k] ELSE 0]
        /\ Cardinality(Live) < GlobalLimit /\ Cardinality(OfUser(Live, u)) < UserLimit
        /\ jobs'[j].by = u /\ \A k \in Jobs \ {j} : jobs'[k] = jobs[k]
    BY DEF Accepts, Admit, MayAdmit
  <1>2. IsFiniteSet(Live) /\ GlobalLimit \in Nat /\ UserLimit \in Nat
    BY BudgetAssumption DEF WithinLimits
  <1>3. Live' \subseteq Live \cup {j}
    <2> SUFFICES ASSUME NEW k \in Jobs, k # j, permit'[k] > time'
                 PROVE  k \in Live
      BY DEF Live
    <2>1. CASE k \notin Live
      <3>1. permit'[k] = 0
        BY <1>1, <2>1
      <3> QED BY <1>1, <3>1, Times
    <2> QED BY <2>1
  <1>4. IsFiniteSet(Live') /\ Cardinality(Live') =< GlobalLimit
    BY <1>1, <1>2, <1>3, OneMore
  <1>5. ASSUME NEW v \in Users
        PROVE  Cardinality(OfUser(Live, v)') =< UserLimit
    <2>1. OfUser(Live, v) \subseteq Live
      BY DEF OfUser
    <2>2. IsFiniteSet(OfUser(Live, v))
      BY <1>2, <2>1, FS_Subset
    <2>3. CASE v = u
      <3>1. OfUser(Live, v)' \subseteq OfUser(Live, v) \cup {j}
        BY <1>1, <1>3 DEF OfUser, Live
      <3>2. Cardinality(OfUser(Live, v)) < UserLimit
        BY <1>1, <2>3
      <3>3. /\ Cardinality(OfUser(Live, v)) \in Nat /\ Cardinality(OfUser(Live, v)') \in Nat
            /\ Cardinality(OfUser(Live, v)') =< Cardinality(OfUser(Live, v)) + 1
        BY <2>2, <3>1, OneMore
      <3> QED BY <1>2, <3>2, <3>3
    <2>4. CASE v # u
      <3>1. OfUser(Live, v)' \subseteq OfUser(Live, v)
        BY <1>1, <1>3, <2>4 DEF OfUser, Live
      <3>2. Cardinality(OfUser(Live, v)') =< Cardinality(OfUser(Live, v))
            /\ IsFiniteSet(OfUser(Live, v)')
        BY <2>2, <3>1, FS_Subset
      <3>3. Cardinality(OfUser(Live, v)) =< UserLimit
        BY DEF WithinLimits
      <3>4. Cardinality(OfUser(Live, v)) \in Nat /\ Cardinality(OfUser(Live, v)') \in Nat
        BY <2>2, <3>2, FS_CardinalityType
      <3> QED BY <1>2, <3>2, <3>3, <3>4
    <2> QED BY <2>3, <2>4
  <1> QED BY <1>4, <1>5 DEF WithinLimits

LEMMA AcceptedAccounted ==
  ASSUME Inv, NEW j \in Jobs, NEW u \in Users, Accepts(j, u)
  PROVE  Accounted'
  <1> USE DEF Inv
  <1>1. /\ jobs[j].state = "none" /\ jobs'[j].state # "none" /\ jobs'[j].by = u /\ jobs'[j].day = Today
        /\ \A k \in Jobs \ {j} : jobs'[k] = jobs[k]
        /\ \A s \in {u, Everyone} : usage[s][Today] < Budget[s]
    BY DEF Accepts, MayAdmit
  <1>2. /\ usage' = [s \in Scope |-> IF s \in {u, Everyone} THEN [usage[s] EXCEPT ![Today] = @ + 1]
                                     ELSE usage[s]]
        /\ usage \in [Scope -> [Day -> Nat]] /\ Today \in Day
        /\ Everyone \in Scope /\ Users \subseteq Scope /\ Everyone \notin Users
        /\ Budget \in [Scope -> Nat]
    BY TodayType, BudgetAssumption DEF Accepts, Admit, TypeOK, BudgetTypeOK, Scope
  <1>3. \A s \in Scope, d \in Day :
          usage'[s][d] = IF s \in {u, Everyone} /\ d = Today THEN usage[s][d] + 1 ELSE usage[s][d]
    BY <1>2
  <1> SUFFICES ASSUME NEW d \in Day
               PROVE  /\ IsFiniteSet(Charged(d)')
                      /\ Cardinality(Charged(d)') = usage'[Everyone][d]
                      /\ \A v \in Users : Cardinality(OfUser(Charged(d), v)') = usage'[v][d]
                      /\ \A s \in Scope : usage'[s][d] =< Budget[s]
    BY DEF Accounted
  <1>4. /\ IsFiniteSet(Charged(d)) /\ Cardinality(Charged(d)) = usage[Everyone][d]
        /\ \A v \in Users : Cardinality(OfUser(Charged(d), v)) = usage[v][d]
        /\ \A s \in Scope : usage[s][d] =< Budget[s]
    BY DEF Accounted
  <1>5. \A s \in Scope : usage'[s][d] =< Budget[s]
    <2> SUFFICES ASSUME NEW s \in Scope PROVE usage'[s][d] =< Budget[s]
      OBVIOUS
    <2>1. usage[s][d] \in Nat /\ Budget[s] \in Nat
      BY <1>2
    <2> QED BY <1>1, <1>3, <1>4, <2>1
  <1>6. j \notin Charged(d)
    BY <1>1 DEF Charged
  <1>7. CASE d = Today
    <2>1. Charged(d)' = Charged(d) \cup {j}
      BY <1>1, <1>7 DEF Charged
    <2>2. IsFiniteSet(Charged(d)') /\ Cardinality(Charged(d)') = Cardinality(Charged(d)) + 1
      BY <1>4, <1>6, <2>1, FS_AddElement
    <2>3. ASSUME NEW v \in Users
          PROVE  Cardinality(OfUser(Charged(d), v)') = usage'[v][d]
      <3>1. OfUser(Charged(d), v) \subseteq Charged(d) /\ j \notin OfUser(Charged(d), v)
        BY <1>6 DEF OfUser
      <3>2. IsFiniteSet(OfUser(Charged(d), v))
        BY <1>4, <3>1, FS_Subset
      <3>3. CASE v = u
        <4>1. OfUser(Charged(d), v)' = OfUser(Charged(d), v) \cup {j}
          BY <1>1, <1>6, <2>1, <3>3 DEF OfUser, Charged
        <4>2. Cardinality(OfUser(Charged(d), v)') = Cardinality(OfUser(Charged(d), v)) + 1
          BY <3>1, <3>2, <4>1, FS_AddElement
        <4> QED BY <1>2, <1>3, <1>4, <1>7, <3>3, <4>2
      <3>4. CASE v # u
        <4>1. OfUser(Charged(d), v)' = OfUser(Charged(d), v)
          BY <1>1, <1>6, <2>1, <3>4 DEF OfUser, Charged
        <4> QED BY <1>2, <1>3, <1>4, <3>4, <4>1
      <3> QED BY <3>3, <3>4
    <2> QED BY <1>2, <1>3, <1>4, <1>5, <1>7, <2>2, <2>3
  <1>8. CASE d # Today
    <2>1. Charged(d)' = Charged(d)
      BY <1>1, <1>6, <1>8 DEF Charged
    <2>2. \A v \in Users : OfUser(Charged(d), v)' = OfUser(Charged(d), v)
      BY <1>1, <1>6, <2>1 DEF OfUser, Charged
    <2> QED BY <1>2, <1>3, <1>4, <1>5, <1>8, <2>1, <2>2
  <1> QED BY <1>7, <1>8

LEMMA InitInv == Init => Inv
  <1> SUFFICES ASSUME Init PROVE Inv
    OBVIOUS
  <1>1. /\ TypeOK
        /\ \A j \in Jobs : jobs[j] = Unused /\ permit[j] = 0 /\ executor[j] = Gone
        /\ \A s \in Scope, d \in Day : usage[s][d] = 0
    BY InitType DEF Init, BudgetInit
  <1>2. Gone.pc = "gone" /\ Unused.state = "none"
    BY DEF Gone, Unused
  <1>3. Live = {} /\ \A u \in Users : OfUser(Live, u) = {}
    BY <1>1, Times DEF Live, OfUser
  <1>4. \A d \in Day : Charged(d) = {} /\ \A u \in Users : OfUser(Charged(d), u) = {}
    BY <1>1, <1>2 DEF Charged, OfUser
  <1>5. IsFiniteSet({}) /\ Cardinality({}) = 0
    BY FS_EmptySet
  <1>6. Timely /\ UnusedIdle
    BY <1>1, <1>2 DEF Timely, UnusedIdle, Before
  <1>7. WithinLimits
    BY <1>3, <1>5, BudgetAssumption DEF WithinLimits
  <1>8. Accounted
    <2>1. Everyone \in Scope /\ Users \subseteq Scope /\ Budget \in [Scope -> Nat]
      BY BudgetAssumption DEF Scope
    <2> SUFFICES ASSUME NEW d \in Day
                 PROVE  /\ IsFiniteSet(Charged(d))
                        /\ Cardinality(Charged(d)) = usage[Everyone][d]
                        /\ \A v \in Users : Cardinality(OfUser(Charged(d), v)) = usage[v][d]
                        /\ \A s \in Scope : usage[s][d] =< Budget[s]
      BY DEF Accounted
    <2>2. Charged(d) = {} /\ \A u \in Users : OfUser(Charged(d), u) = {}
      BY <1>4
    <2>3. IsFiniteSet(Charged(d)) /\ Cardinality(Charged(d)) = 0
      BY <1>5, <2>2
    <2>4. \A v \in Users : Cardinality(OfUser(Charged(d), v)) = 0
      BY <1>5, <2>2
    <2>5. \A s \in Scope : usage[s][d] = 0
      BY <1>1
    <2>6. ASSUME NEW s \in Scope PROVE usage[s][d] =< Budget[s]
      <3>1. Budget[s] \in Nat
        BY <2>1
      <3> QED BY <2>5, <3>1
    <2> QED BY <2>1, <2>3, <2>4, <2>5, <2>6
  <1> QED BY <1>1, <1>6, <1>7, <1>8 DEF Inv

LEMMA NextInv == Inv /\ [Next]_vars => Inv'
  <1> SUFFICES ASSUME Inv, [Next]_vars PROVE Inv'
    OBVIOUS
  <1>1. TypeOK'
    BY NextType DEF Inv
  <1>2. CASE \E j \in Jobs, u \in Users : Accepts(j, u)
    BY <1>1, <1>2, AcceptedTimely, AcceptedWithinLimits, AcceptedAccounted DEF Inv
  <1>3. CASE TimePasses
    BY <1>1, <1>3, TimeInv
  <1>4. CASE Conserved
    BY <1>1, <1>4, ConservedInv
  <1> QED BY <1>2, <1>3, <1>4, Moves DEF Inv

LEMMA InvHolds == Spec => []Inv
  BY InitInv, NextInv, PTL DEF Spec

-----------------------------------------------------------------------------
(* No more provider calls are under way than the limits allow, whatever      *)
(* instances crash, cancel or retry (providerBudget.ts:84, 118).             *)
THEOREM ConcurrencyCorrect == Spec => []ConcurrencyKept
  <1>1. Inv => ConcurrencyKept
    <2> SUFFICES ASSUME Inv PROVE ConcurrencyKept
      OBVIOUS
    <2>1. Calling \subseteq Live
      BY BusyAreLive DEF Inv, Calling, At, Busy
    <2>2. IsFiniteSet(Live) /\ Cardinality(Live) =< GlobalLimit
      BY DEF Inv, WithinLimits
    <2>3. IsFiniteSet(Calling) /\ Cardinality(Calling) =< Cardinality(Live)
      BY <2>1, <2>2, FS_Subset
    <2>4. Cardinality(Calling) \in Nat /\ Cardinality(Live) \in Nat /\ GlobalLimit \in Nat /\ UserLimit \in Nat
      BY <2>2, <2>3, FS_CardinalityType, BudgetAssumption
    <2>5. ASSUME NEW u \in Users
          PROVE  Cardinality(OfUser(Calling, u)) =< UserLimit
      <3>1. OfUser(Calling, u) \subseteq OfUser(Live, u) /\ OfUser(Live, u) \subseteq Live
        BY <2>1 DEF OfUser
      <3>2. IsFiniteSet(OfUser(Live, u))
        BY <2>2, <3>1, FS_Subset
      <3>3. IsFiniteSet(OfUser(Calling, u)) /\ Cardinality(OfUser(Calling, u)) =< Cardinality(OfUser(Live, u))
        BY <3>1, <3>2, FS_Subset
      <3>4. Cardinality(OfUser(Calling, u)) \in Nat /\ Cardinality(OfUser(Live, u)) \in Nat
        BY <3>2, <3>3, FS_CardinalityType
      <3>5. Cardinality(OfUser(Live, u)) =< UserLimit
        BY DEF Inv, WithinLimits
      <3> QED BY <2>4, <3>3, <3>4, <3>5
    <2> QED BY <2>2, <2>3, <2>4, <2>5 DEF ConcurrencyKept
  <1> QED BY <1>1, InvHolds, PTL

(* The jobs accepted on a day cost no more than the budgets of that day      *)
(* (providerBudget.ts:96): usage counts every one of them exactly once.     *)
THEOREM SpendingCorrect == Spec => []SpendingKept
  <1>1. Inv => SpendingKept
    <2>1. Everyone \in Scope /\ Users \subseteq Scope
      BY DEF Scope
    <2>2. \A d \in Day : Charged(d) = {j \in Jobs : jobs[j].state # "none" /\ jobs[j].day = d}
      BY DEF Charged
    <2> QED BY <2>1, <2>2 DEF Inv, Accounted, SpendingKept
  <1> QED BY <1>1, InvHolds, PTL

(* Both limits of a provider are kept (providerBudget.ts:84, 96, 118).      *)
THEOREM BudgetCorrect == Spec => []BudgetKept
  <1>1. ConcurrencyKept /\ SpendingKept => BudgetKept
    BY DEF BudgetKept
  <1> QED BY <1>1, ConcurrencyCorrect, SpendingCorrect, PTL

(* A job that is over stays as it is (renderJobs.ts:234, 254, 469, 522).     *)
THEOREM OutcomeCorrect == Spec => OutcomeKept
  <1>1. TypeOK /\ [Next]_vars => [\A j \in Jobs : jobs[j].state \in Over => jobs'[j] = jobs[j]]_vars
    <2> SUFFICES ASSUME TypeOK, [Next]_vars, NEW j \in Jobs, jobs[j].state \in Over
                 PROVE  jobs'[j] = jobs[j]
      OBVIOUS
    <2>1. CASE \E k \in Jobs, u \in Users : Accepts(k, u)
      BY <2>1 DEF Accepts, Over
    <2>2. CASE TimePasses
      BY <2>2 DEF TimePasses
    <2>3. CASE Conserved
      BY <2>3 DEF Conserved, RowKept
    <2> QED BY <2>1, <2>2, <2>3, Moves
  <1> QED BY <1>1, RenderTypeCorrect, PTL DEF Spec, OutcomeKept

(* An unfinished job fails by its own executor or by reconciliation. *)
LEMMA FailureHasTwoCauses ==
  ASSUME TypeOK, [Next]_vars, NEW j \in Jobs, jobs[j].state \in Active, jobs'[j].state = "failed"
  PROVE  At(j, "fail") \/ j \in Interrupted
  <1>1. jobs \in [Jobs -> Job]
    BY DEF TypeOK, BudgetTypeOK
  <1>2. jobs'[j] # jobs[j] /\ jobs[j].state # "none"
    BY DEF Active
  <1>3. ASSUME NEW k \in Jobs, NEW i \in Instances, Cancel(i, k) PROVE FALSE
    BY <1>1, <1>2, <1>3 DEF Cancel, Ended
  <1>4. ASSUME NEW k \in Jobs, Step(k) PROVE At(j, "fail")
    <2>1. CASE MarkRunning(k)
      BY <1>1, <1>2, <2>1 DEF MarkRunning
    <2>2. CASE Save(k)
      BY <1>1, <1>2, <2>2 DEF Save, Ended
    <2>3. CASE StoreFailure(k)
      <3>1. k = j
        BY <1>1, <1>2, <2>3 DEF StoreFailure, Ended
      <3> QED BY <2>3, <3>1 DEF StoreFailure
    <2>4. CASE Look(k) \/ Call(k) \/ Answered(k) \/ Fails(k) \/ Drop(k) \/ Finish(k) \/ Unpersisted(k)
      BY <1>2, <2>4 DEF Look, Call, Answered, Fails, Drop, Finish, Unpersisted, budgetVars
    <2> QED BY <1>4, <2>1, <2>2, <2>3, <2>4 DEF Step
  <1>5. ASSUME NEW k \in Jobs, NEW u \in Users, Accepts(k, u) PROVE FALSE
    <2>1. jobs[k].state = "none" /\ jobs'[k].state = "queued" /\ \A h \in Jobs \ {k} : jobs'[h] = jobs[h]
      BY <1>5 DEF Accepts
    <2> QED BY <1>2, <2>1
  <1>6. CASE Reconciled
    BY <1>1, <1>2, <1>6 DEF Reconciled
  <1>7. CASE jobs' = jobs
    BY <1>2, <1>7
  <1>8. ASSUME NEW i \in Instances, NEW k \in Jobs, NEW u \in Users, NEW p \in Projects,
               NEW a \in Artifacts \cup {NoArtifact}, Accept(i, k, u, p, a)
        PROVE  FALSE
    BY <1>5, <1>8, AcceptAccepts
  <1>9. CASE \E i \in Instances, k, old \in Jobs, u \in Users : Retry(i, k, u, old)
    <2>1. PICK i \in Instances, k \in Jobs, old \in Jobs, u \in Users : Retry(i, k, u, old)
      BY <1>9
    <2>2. jobs[old].project \in Projects /\ jobs[old].source \in Artifacts \cup {NoArtifact}
      BY <1>1 DEF Job
    <2> QED BY <1>8, <2>1, <2>2 DEF Retry
  <1>10. CASE \E i \in Instances, k \in Jobs, u \in Users, p \in Projects, a \in Artifacts :
                SubmitImage(i, k, u, p, a) \/ SubmitArtifact(i, k, u, p, a)
    BY <1>8, <1>10 DEF SubmitImage, SubmitArtifact
  <1> QED BY <1>3, <1>4, <1>6, <1>7, <1>9, <1>10
          DEF Next, CancelFails, Upload, DeleteArtifact, Reconcile, Crash, Start, AccessChanges,
              TimePasses, budgetVars, vars

(* Nobody gives a job up for lost while its executor is on the way to the    *)
(* provider or waits for it: its permit is live (renderJobs.ts:519).        *)
THEOREM WorkCorrect == Spec => WorkKept
  <1>1. Inv /\ [Next]_vars
          => [\A j \in Jobs :
                jobs[j].state \in Active /\ jobs'[j].state = "failed"
                  => executor[j].pc \notin {"start", "look", "read", "call"}]_vars
    <2> SUFFICES ASSUME Inv, [Next]_vars, NEW j \in Jobs,
                        jobs[j].state \in Active, jobs'[j].state = "failed",
                        executor[j].pc \in {"start", "look", "read", "call"}
                 PROVE  FALSE
      OBVIOUS
    <2>1. executor[j].pc \in Busy /\ ~At(j, "fail")
      BY DEF Busy, Before, At
    <2>2. j \in OfProject(Live, jobs[j].project)
      BY <2>1, BusyAreLive DEF Inv, OfProject
    <2>3. j \notin Interrupted
      BY <2>2 DEF Interrupted
    <2> QED BY <2>1, <2>3, FailureHasTwoCauses DEF Inv
  <1> QED BY <1>1, InvHolds, PTL DEF Spec, WorkKept
-----------------------------------------------------------------------------
(* Images and the room for them. *)

(* What a row says of its images, in a step that neither accepts nor saves. *)
ImageRow(k) ==
  /\ jobs'[k].project = jobs[k].project
  /\ jobs'[k].source = jobs[k].source /\ jobs'[k].output = jobs[k].output
  /\ jobs'[k].state = "none" <=> jobs[k].state = "none"
  /\ jobs'[k].state = "succeeded" <=> jobs[k].state = "succeeded"

ImageInv ==
  /\ \A j \in Jobs : jobs[j].state # "none" =>
       jobs[j].source \in Artifacts /\ files[jobs[j].source] = jobs[j].project
  /\ \A j \in Jobs : jobs[j].state = "succeeded" =>
       jobs[j].output \in Artifacts /\ files[jobs[j].output] = jobs[j].project
  /\ \A j \in Jobs : jobs[j].state # "succeeded" => jobs[j].output = NoArtifact
  /\ \A j, k \in Jobs : jobs[j].output = jobs[k].output => j = k \/ jobs[j].output = NoArtifact

RoomInv == \A p \in Projects : IsFiniteSet(Stored(p)) /\ Claimed(p) <= MaxArtifacts

(* Storing an artifact that does not exist yet. *)
Stores(a, p) == files[a] = Nowhere /\ files' = [files EXCEPT ![a] = p]

Submits ==
  \E i \in Instances, j \in Jobs, u \in Users, p \in Projects, a \in Artifacts :
    /\ Accept(i, j, u, p, a)
    /\ \/ Stores(a, p) /\ Claimed(p) + 1 < MaxArtifacts
       \/ files[a] = p /\ files' = files

Quiet ==
  /\ \A k \in Jobs : ImageRow(k)
  /\ Live' \subseteq Live
  /\ \/ files' = files
     \/ \E p \in Projects, a \in Artifacts : Stores(a, p) /\ Claimed(p) < MaxArtifacts
     \/ \E a \in Artifacts : ~Referenced(a) /\ files' = [files EXCEPT ![a] = Nowhere]

LEMMA EndedImages ==
  ASSUME TypeOK, NEW j \in Jobs, NEW state \in {"failed", "cancelled"}, jobs[j].state \in Active,
         jobs' = Ended(j, state)
  PROVE  \A k \in Jobs : ImageRow(k)
  <1>1. jobs \in [Jobs -> Job] /\ jobs[j] \in Job
    BY DEF TypeOK, BudgetTypeOK
  <1>2. jobs' = [jobs EXCEPT ![j] = [jobs[j] EXCEPT !.state = state, !.updated = 0]]
    BY <1>1 DEF Ended
  <1>3. jobs'[j] = [jobs[j] EXCEPT !.state = state, !.updated = 0]
    BY <1>1, <1>2
  <1>4. /\ jobs'[j].project = jobs[j].project /\ jobs'[j].source = jobs[j].source
        /\ jobs'[j].output = jobs[j].output /\ jobs'[j].state = state
    BY <1>1, <1>3 DEF Job
  <1>5. \A k \in Jobs \ {j} : jobs'[k] = jobs[k]
    BY <1>1, <1>2
  <1>6. ImageRow(j)
    BY <1>4 DEF ImageRow, Active
  <1> QED BY <1>5, <1>6 DEF ImageRow

LEMMA ReconciledImages ==
  ASSUME TypeOK, Reconciled
  PROVE  \A k \in Jobs : ImageRow(k)
  <1> SUFFICES ASSUME NEW k \in Jobs PROVE ImageRow(k)
    OBVIOUS
  <1>1. jobs[k] \in Job
    BY DEF TypeOK, BudgetTypeOK
  <1>2. CASE k \in Interrupted
    <2>1. jobs'[k] = [jobs[k] EXCEPT !.state = "failed", !.updated = 0]
      BY <1>2 DEF Reconciled
    <2>2. /\ jobs'[k].project = jobs[k].project /\ jobs'[k].source = jobs[k].source
          /\ jobs'[k].output = jobs[k].output /\ jobs'[k].state = "failed"
      BY <1>1, <2>1 DEF Job
    <2> QED BY <1>2, <2>2 DEF ImageRow, Interrupted, Active
  <1>3. CASE k \notin Interrupted
    BY <1>3 DEF Reconciled, ImageRow
  <1> QED BY <1>2, <1>3

LEMMA StartedImages ==
  ASSUME TypeOK, NEW j \in Jobs, MarkRunning(j)
  PROVE  \A k \in Jobs : ImageRow(k)
  <1>1. jobs \in [Jobs -> Job] /\ jobs[j] \in Job
    BY DEF TypeOK, BudgetTypeOK
  <1>2. CASE jobs[j].state = "queued"
    <2>1. jobs' = [jobs EXCEPT ![j] = [jobs[j] EXCEPT !.state = "running", !.updated = time]]
      BY <1>1, <1>2 DEF MarkRunning
    <2>2. jobs'[j] = [jobs[j] EXCEPT !.state = "running", !.updated = time]
      BY <1>1, <2>1
    <2>3. /\ jobs'[j].project = jobs[j].project /\ jobs'[j].source = jobs[j].source
          /\ jobs'[j].output = jobs[j].output /\ jobs'[j].state = "running"
      BY <1>1, <2>2 DEF Job
    <2>4. \A k \in Jobs \ {j} : jobs'[k] = jobs[k]
      BY <1>1, <2>1
    <2> QED BY <1>2, <2>3, <2>4 DEF ImageRow
  <1>3. CASE jobs[j].state # "queued"
    BY <1>3 DEF MarkRunning, ImageRow
  <1> QED BY <1>2, <1>3

LEMMA ConservedLive ==
  ASSUME TypeOK, Conserved
  PROVE  Live' \subseteq Live
  <1>1. time \in Nat /\ time' = time
    BY DEF TypeOK, BudgetTypeOK, Conserved
  <1>2. ASSUME NEW k \in Jobs, permit'[k] > time PROVE permit[k] > time
    BY <1>1, <1>2 DEF Conserved, PermitKept
  <1> QED BY <1>1, <1>2 DEF Live

(* A step submits a job, saves an image, or is quiet about both. *)
LEMMA ImageMoves ==
  ASSUME TypeOK, ImageInv, [Next]_vars
  PROVE  Submits \/ Quiet \/ \E j \in Jobs : Save(j)
  <1> USE DEF ImageRow
  <1>1. CASE \E i \in Instances, j \in Jobs, u \in Users, p \in Projects, a \in Artifacts :
               SubmitImage(i, j, u, p, a) \/ SubmitArtifact(i, j, u, p, a)
    BY <1>1 DEF SubmitImage, SubmitArtifact, Submits, Stores
  <1>2. CASE \E i \in Instances, j, old \in Jobs, u \in Users : Retry(i, j, u, old)
    <2>1. PICK i \in Instances, j \in Jobs, old \in Jobs, u \in Users : Retry(i, j, u, old)
      BY <1>2
    <2>2. jobs[old].project \in Projects /\ jobs[old].source \in Artifacts
      BY <2>1 DEF TypeOK, BudgetTypeOK, Job, Retry, ImageInv, Over
    <2> QED BY <2>1, <2>2 DEF Retry, Submits
  <1>3. CASE \E i \in Instances, j \in Jobs : Cancel(i, j) \/ CancelFails(i, j)
    BY <1>3, EndedImages DEF Cancel, CancelFails, budgetVars, Quiet, Live
  <1>4. CASE \E j \in Jobs : Step(j)
    <2>1. PICK j \in Jobs : Step(j)
      BY <1>4
    <2>2. Live' \subseteq Live
      BY <2>1, StepConserves, ConservedLive
    <2>3. CASE MarkRunning(j)
      BY <2>2, <2>3, StartedImages DEF MarkRunning, Quiet
    <2>4. CASE StoreFailure(j)
      <3>1. jobs' = jobs \/ (jobs[j].state \in Active /\ \E s \in {"failed", "cancelled"} : jobs' = Ended(j, s))
        BY <2>4 DEF StoreFailure
      <3>2. \A k \in Jobs : ImageRow(k)
        BY <3>1, EndedImages
      <3> QED BY <2>2, <2>4, <3>2 DEF StoreFailure, Quiet
    <2>5. CASE Look(j) \/ Call(j) \/ Answered(j) \/ Fails(j) \/ Drop(j) \/ Finish(j) \/ Unpersisted(j)
      BY <2>2, <2>5 DEF Look, Call, Answered, Fails, Drop, Finish, Unpersisted, budgetVars, Quiet
    <2> QED BY <2>1, <2>3, <2>4, <2>5 DEF Step
  <1>5. CASE \E p \in Projects, a \in Artifacts : Upload(p, a) /\ UNCHANGED <<executor, up>>
    BY <1>5 DEF Upload, Stores, Quiet, Live
  <1>6. CASE \E a \in Artifacts : DeleteArtifact(a) /\ UNCHANGED <<executor, up>>
    BY <1>6 DEF DeleteArtifact, Quiet, Live
  <1>7. CASE Reconcile \/ \E i \in Instances : Start(i)
    <2>1. \A k \in Jobs : ImageRow(k)
      BY <1>7, ReconciledImages DEF Reconcile, Start
    <2> QED BY <1>7, <2>1 DEF Reconcile, Start, Quiet, Live
  <1>8. CASE \/ \E i \in Instances : Crash(i)
             \/ \E u \in Users : AccessChanges(u)
             \/ UNCHANGED vars
    BY <1>8 DEF Crash, AccessChanges, vars, budgetVars, Quiet, Live
  <1>9. CASE TimePasses
    <2>1. time \in Nat /\ time' = time + 1 /\ permit \in [Jobs -> Nat]
      BY <1>9 DEF TimePasses, TypeOK, BudgetTypeOK
    <2>2. Live' \subseteq Live
      BY <1>9, <2>1 DEF TimePasses, Live
    <2> QED BY <1>9, <2>2 DEF TimePasses, Quiet
  <1> QED BY <1>1, <1>2, <1>3, <1>4, <1>5, <1>6, <1>7, <1>8, <1>9 DEF Next

LEMMA SavedRows ==
  ASSUME TypeOK, NEW j \in Jobs, Save(j)
  PROVE  \E a \in Artifacts :
           /\ Stores(a, jobs[j].project)
           /\ Claimed(jobs[j].project) - Cardinality({j} \cap Live) < MaxArtifacts
           /\ jobs[j].state = "running"
           /\ jobs'[j].project = jobs[j].project /\ jobs'[j].source = jobs[j].source
           /\ jobs'[j].output = a /\ jobs'[j].state = "succeeded"
           /\ \A k \in Jobs \ {j} : jobs'[k] = jobs[k]
           /\ Live' = Live \ {j}
  <1>1. PICK a \in Artifacts :
          /\ Stores(a, jobs[j].project)
          /\ Claimed(jobs[j].project) - Cardinality({j} \cap Live) < MaxArtifacts
          /\ jobs' = [Ended(j, "succeeded") EXCEPT ![j].output = a]
    BY DEF Save, Stores
  <1>2. jobs \in [Jobs -> Job] /\ jobs[j] \in Job
    BY DEF TypeOK, BudgetTypeOK
  <1> DEFINE r == [jobs[j] EXCEPT !.state = "succeeded", !.updated = 0]
  <1>3. r \in Job /\ r.project = jobs[j].project /\ r.source = jobs[j].source /\ r.state = "succeeded"
    BY <1>2 DEF Job, Over
  <1>4. Ended(j, "succeeded") = [jobs EXCEPT ![j] = r]
    BY <1>2 DEF Ended
  <1> HIDE DEF r
  <1>5. jobs' = [jobs EXCEPT ![j] = [r EXCEPT !.output = a]]
    BY <1>1, <1>2, <1>4
  <1>6. jobs'[j] = [r EXCEPT !.output = a] /\ \A k \in Jobs \ {j} : jobs'[k] = jobs[k]
    BY <1>2, <1>5
  <1>7. /\ jobs'[j].project = jobs[j].project /\ jobs'[j].source = jobs[j].source
        /\ jobs'[j].output = a /\ jobs'[j].state = "succeeded"
    BY <1>3, <1>6 DEF Job
  <1>8. Live' = Live \ {j}
    <2>1. /\ permit' = [permit EXCEPT ![j] = 0] /\ time' = time
          /\ permit \in [Jobs -> Nat] /\ time \in Nat
      BY DEF Save, Release, TypeOK, BudgetTypeOK
    <2> QED BY <2>1 DEF Live
  <1> QED BY <1>1, <1>6, <1>7, <1>8 DEF Save

LEMMA SubmittedRows ==
  ASSUME TypeOK, NEW i \in Instances, NEW j \in Jobs, NEW u \in Users, NEW p \in Projects,
         NEW a \in Artifacts, Accept(i, j, u, p, a)
  PROVE  /\ jobs[j].state = "none" /\ permit'[j] > time /\ time' = time
         /\ jobs'[j].state = "queued" /\ jobs'[j].project = p /\ jobs'[j].source = a
         /\ jobs'[j].output = NoArtifact
         /\ \A k \in Jobs \ {j} : jobs'[k] = jobs[k]
         /\ Live' \subseteq Live \cup {j}
         /\ Claimed(p) < MaxArtifacts
  <1>1. PICK t \in 0..time :
          jobs' = [jobs EXCEPT ![j] = [Unused EXCEPT !.state = "queued", !.project = p, !.by = u,
                                         !.source = a, !.updated = t, !.day = Today]]
    BY DEF Accept
  <1>2. jobs \in [Jobs -> Job] /\ permit \in [Jobs -> Nat] /\ time \in Nat
    BY DEF TypeOK, BudgetTypeOK
  <1>3. jobs'[j] = [Unused EXCEPT !.state = "queued", !.project = p, !.by = u,
                                  !.source = a, !.updated = t, !.day = Today]
    BY <1>1, <1>2
  <1>4. Unused.output = NoArtifact
    BY DEF Unused
  <1>5. /\ jobs'[j].state = "queued" /\ jobs'[j].project = p /\ jobs'[j].source = a
        /\ jobs'[j].output = NoArtifact
    BY <1>3, <1>4, UnusedType DEF Job
  <1>6. \A k \in Jobs \ {j} : jobs'[k] = jobs[k]
    BY <1>1, <1>2
  <1>7. /\ jobs[j].state = "none" /\ time' = time /\ Claimed(p) < MaxArtifacts
        /\ permit' = [k \in Jobs |-> IF k = j THEN time + Timeout + Slack
                                     ELSE IF k \in Live THEN permit[k] ELSE 0]
    BY DEF Accept, MayAdmit, Admit
  <1>8. permit'[j] > time
    BY <1>2, <1>7, BudgetAssumption
  <1>9. Live' \subseteq Live \cup {j}
    BY <1>2, <1>7 DEF Live
  <1> QED BY <1>5, <1>6, <1>7, <1>8, <1>9

(* Images stay: nothing that a row refers to is deleted or stored again. *)
LEMMA ImagesStep ==
  ASSUME TypeOK, ImageInv, [Next]_vars
  PROVE  ImageInv'
  <1>1. /\ files \in [Artifacts -> Projects \cup {Nowhere}]
        /\ \A k \in Jobs : jobs[k].project \in Projects
        /\ Nowhere \notin Projects /\ NoArtifact \notin Artifacts
    BY BudgetAssumption DEF TypeOK, BudgetTypeOK, Job
  <1>2. ASSUME NEW a \in Artifacts, NEW p \in Projects, Stores(a, p)
        PROVE  \A b \in Artifacts : /\ files[b] # Nowhere => files'[b] = files[b] /\ b # a
                                    /\ files'[a] = p
    BY <1>1, <1>2 DEF Stores
  <1>3. CASE Submits
    <2>1. PICK i \in Instances, j \in Jobs, u \in Users, p \in Projects, a \in Artifacts :
            /\ Accept(i, j, u, p, a)
            /\ Stores(a, p) \/ (files[a] = p /\ files' = files)
      BY <1>3 DEF Submits
    <2>2. /\ jobs[j].state = "none" /\ jobs'[j].state = "queued" /\ jobs'[j].project = p
          /\ jobs'[j].source = a /\ jobs'[j].output = NoArtifact
          /\ \A k \in Jobs \ {j} : jobs'[k] = jobs[k]
      BY <2>1, SubmittedRows
    <2>3. files'[a] = p /\ \A b \in Artifacts : files[b] # Nowhere => files'[b] = files[b]
      BY <1>1, <1>2, <2>1
    <2> QED BY <1>1, <2>2, <2>3 DEF ImageInv
  <1>4. CASE \E j \in Jobs : Save(j)
    <2>1. PICK j \in Jobs, a \in Artifacts :
            /\ Stores(a, jobs[j].project) /\ jobs[j].state = "running"
            /\ jobs'[j].project = jobs[j].project /\ jobs'[j].source = jobs[j].source
            /\ jobs'[j].output = a /\ jobs'[j].state = "succeeded"
            /\ \A k \in Jobs \ {j} : jobs'[k] = jobs[k]
      BY <1>4, SavedRows
    <2>2. /\ files'[a] = jobs[j].project
          /\ \A b \in Artifacts : files[b] # Nowhere => files'[b] = files[b] /\ b # a
      BY <1>1, <1>2, <2>1
    <2>3. \A k \in Jobs : jobs[k].output # a
      BY <1>1, <2>2 DEF ImageInv
    <2> QED BY <1>1, <2>1, <2>2, <2>3 DEF ImageInv
  <1>5. CASE Quiet
    <2>1. ASSUME NEW b \in Artifacts, NEW k \in Jobs, files[b] # Nowhere,
                 b = jobs[k].source \/ b = jobs[k].output
          PROVE  files'[b] = files[b]
      <3>1. CASE \E p \in Projects, a \in Artifacts : Stores(a, p)
        BY <1>2, <2>1, <3>1
      <3>2. CASE \E a \in Artifacts : ~Referenced(a) /\ files' = [files EXCEPT ![a] = Nowhere]
        BY <1>1, <2>1, <3>2 DEF Referenced
      <3> QED BY <1>5, <3>1, <3>2 DEF Quiet
    <2>2. \A k \in Jobs : ImageRow(k)
      BY <1>5 DEF Quiet
    <2> QED BY <1>1, <2>1, <2>2 DEF ImageInv, ImageRow
  <1> QED BY <1>3, <1>4, <1>5, ImageMoves

LEMMA ImagesStart == Init => ImageInv
  BY DEF Init, BudgetInit, Unused, ImageInv

(* The images of a job exist for as long as its row does, and no output       *)
(* belongs to two jobs (workspaces.ts:305).                                 *)
THEOREM ImagesCorrect == Spec => []ImagesKept
  <1>1. ImageInv => ImagesKept
    BY DEF ImageInv, ImagesKept
  <1>2. TypeOK /\ ImageInv /\ [Next]_vars => ImageInv'
    BY ImagesStep
  <1> QED BY <1>1, <1>2, ImagesStart, RenderTypeCorrect, PTL DEF Spec

-----------------------------------------------------------------------------
(* The artifacts of a project. *)
LEMMA StoredMore ==
  ASSUME TypeOK, NEW a \in Artifacts, NEW p \in Projects, Stores(a, p)
  PROVE  /\ Stored(p)' = Stored(p) \cup {a} /\ a \notin Stored(p)
         /\ \A q \in Projects \ {p} : Stored(q)' = Stored(q)
  BY BudgetAssumption DEF TypeOK, BudgetTypeOK, Stores, Stored

(* What a project claims when its artifacts and permits do not grow. *)
LEMMA ClaimedLess ==
  ASSUME RoomInv, IsFiniteSet(Live), NEW p \in Projects, Stored(p)' \subseteq Stored(p),
         OfProject(Live, p)' \subseteq OfProject(Live, p)
  PROVE  IsFiniteSet(Stored(p)') /\ Claimed(p)' <= MaxArtifacts
  <1>1. IsFiniteSet(Stored(p)) /\ Claimed(p) <= MaxArtifacts /\ MaxArtifacts \in Nat
    BY BudgetAssumption DEF RoomInv
  <1>2. IsFiniteSet(OfProject(Live, p))
    <2>1. OfProject(Live, p) \subseteq Live
      BY DEF OfProject
    <2> QED BY <2>1, FS_Subset
  <1>3. IsFiniteSet(Stored(p)') /\ Cardinality(Stored(p)') <= Cardinality(Stored(p))
    BY <1>1, FS_Subset
  <1>4. IsFiniteSet(OfProject(Live, p)')
        /\ Cardinality(OfProject(Live, p)') <= Cardinality(OfProject(Live, p))
    BY <1>2, FS_Subset
  <1>5. /\ Cardinality(Stored(p)) \in Nat /\ Cardinality(Stored(p)') \in Nat
        /\ Cardinality(OfProject(Live, p)) \in Nat /\ Cardinality(OfProject(Live, p)') \in Nat
    BY <1>1, <1>2, <1>3, <1>4, FS_CardinalityType
  <1> QED BY <1>1, <1>3, <1>4, <1>5 DEF Claimed

(* What a project claims when it stores one artifact more. *)
LEMMA ClaimedMore ==
  ASSUME RoomInv, IsFiniteSet(Live), NEW p \in Projects, NEW a, a \notin Stored(p),
         Stored(p)' = Stored(p) \cup {a}, OfProject(Live, p)' \subseteq OfProject(Live, p)
  PROVE  /\ IsFiniteSet(Stored(p)') /\ IsFiniteSet(OfProject(Live, p))
         /\ Claimed(p) \in Nat /\ Claimed(p)' \in Nat
         /\ Claimed(p)' <= Claimed(p) + 1
         /\ \A j \in OfProject(Live, p) :
              OfProject(Live, p)' = OfProject(Live, p) \ {j} => Claimed(p)' = Claimed(p)
  <1>1. IsFiniteSet(Stored(p))
    BY DEF RoomInv
  <1>2. IsFiniteSet(OfProject(Live, p))
    <2>1. OfProject(Live, p) \subseteq Live
      BY DEF OfProject
    <2> QED BY <2>1, FS_Subset
  <1>3. IsFiniteSet(Stored(p)') /\ Cardinality(Stored(p)') = Cardinality(Stored(p)) + 1
    BY <1>1, FS_AddElement
  <1>4. IsFiniteSet(OfProject(Live, p)')
        /\ Cardinality(OfProject(Live, p)') <= Cardinality(OfProject(Live, p))
    BY <1>2, FS_Subset
  <1>5. /\ Cardinality(Stored(p)) \in Nat /\ Cardinality(Stored(p)') \in Nat
        /\ Cardinality(OfProject(Live, p)) \in Nat /\ Cardinality(OfProject(Live, p)') \in Nat
    BY <1>1, <1>2, <1>3, <1>4, FS_CardinalityType
  <1>6. \A j \in OfProject(Live, p) : OfProject(Live, p)' = OfProject(Live, p) \ {j} =>
          Cardinality(OfProject(Live, p)') = Cardinality(OfProject(Live, p)) - 1
    BY <1>2, FS_RemoveElement
  <1>7. /\ Claimed(p) = Cardinality(Stored(p)) + Cardinality(OfProject(Live, p))
        /\ Claimed(p)' = Cardinality(Stored(p)') + Cardinality(OfProject(Live, p)')
    BY DEF Claimed
  <1>8. ASSUME NEW j \in OfProject(Live, p), OfProject(Live, p)' = OfProject(Live, p) \ {j}
        PROVE  Claimed(p)' = Claimed(p)
    <2>1. Cardinality(OfProject(Live, p)') = Cardinality(OfProject(Live, p)) - 1
      BY <1>6, <1>8, Zenon
    <2> QED BY <1>3, <1>5, <1>7, <2>1
  <1>9. Claimed(p) \in Nat /\ Claimed(p)' \in Nat /\ Claimed(p)' <= Claimed(p) + 1
    BY <1>3, <1>4, <1>5, <1>7
  <1> QED BY <1>2, <1>3, <1>8, <1>9

LEMMA RoomSubmitted ==
  ASSUME TypeOK, RoomInv, IsFiniteSet(Live), Submits
  PROVE  RoomInv'
  <1>1. PICK i \in Instances, j \in Jobs, u \in Users, p \in Projects, a \in Artifacts :
          /\ Accept(i, j, u, p, a)
          /\ \/ Stores(a, p) /\ Claimed(p) + 1 < MaxArtifacts
             \/ files[a] = p /\ files' = files
    BY DEF Submits
  <1>2. /\ jobs'[j].project = p /\ \A k \in Jobs \ {j} : jobs'[k] = jobs[k]
        /\ Live' \subseteq Live \cup {j} /\ Claimed(p) < MaxArtifacts
    BY <1>1, SubmittedRows
  <1>3. \A q \in Projects \ {p} : OfProject(Live, q)' \subseteq OfProject(Live, q)
    BY <1>2 DEF OfProject, Live
  <1>4. \A q \in Projects \ {p} : Stored(q)' = Stored(q)
    BY <1>1, StoredMore DEF Stored
  <1>5. ASSUME NEW q \in Projects \ {p}
        PROVE  IsFiniteSet(Stored(q)') /\ Claimed(q)' <= MaxArtifacts
    BY <1>3, <1>4, ClaimedLess
  <1>6. IsFiniteSet(Stored(p)') /\ Claimed(p)' <= MaxArtifacts
    <2> DEFINE L == OfProject(Live, p)
               M == OfProject(Live, p)'
               S == Stored(p)
               T == Stored(p)'
    <2>1. M \subseteq L \cup {j}
      BY <1>2 DEF OfProject, Live
    <2>2. IsFiniteSet(L) /\ IsFiniteSet(S)
      <3>1. L \subseteq Live
        BY DEF OfProject
      <3> QED BY <3>1, FS_Subset DEF RoomInv
    <2>3. Claimed(p) = Cardinality(S) + Cardinality(L) /\ Claimed(p)' = Cardinality(T) + Cardinality(M)
      BY DEF Claimed
    <2>4. \/ T = S
          \/ T = S \cup {a} /\ Claimed(p) + 1 < MaxArtifacts
      BY <1>1, StoredMore DEF Stored
    <2> HIDE DEF L, M, S, T
    <2>5. /\ IsFiniteSet(M) /\ Cardinality(M) \in Nat /\ Cardinality(L) \in Nat
          /\ Cardinality(M) <= Cardinality(L) + 1
      <3>1. IsFiniteSet(L \cup {j}) /\ (Cardinality(L \cup {j}) = Cardinality(L) + 1
                                        \/ Cardinality(L \cup {j}) = Cardinality(L))
        BY <2>2, FS_AddElement
      <3>2. IsFiniteSet(M) /\ Cardinality(M) <= Cardinality(L \cup {j})
        BY <2>1, <3>1, FS_Subset
      <3> QED BY <2>2, <3>1, <3>2, FS_CardinalityType
    <2>6. /\ IsFiniteSet(T) /\ Cardinality(T) \in Nat /\ Cardinality(S) \in Nat
          /\ T = S \/ (Cardinality(T) <= Cardinality(S) + 1 /\ Claimed(p) + 1 < MaxArtifacts)
      <3>1. CASE T = S
        BY <2>2, <3>1, FS_CardinalityType
      <3>2. CASE T = S \cup {a} /\ Claimed(p) + 1 < MaxArtifacts
        <4>1. IsFiniteSet(T) /\ (Cardinality(T) = Cardinality(S) + 1 \/ Cardinality(T) = Cardinality(S))
          BY <2>2, <3>2, FS_AddElement
        <4> QED BY <2>2, <3>2, <4>1, FS_CardinalityType
      <3> QED BY <2>4, <3>1, <3>2
    <2>7. MaxArtifacts \in Nat
      BY BudgetAssumption
    <2> QED BY <1>2, <2>3, <2>5, <2>6, <2>7 DEF T
  <1> QED BY <1>5, <1>6 DEF RoomInv

LEMMA RoomSaved ==
  ASSUME TypeOK, RoomInv, IsFiniteSet(Live), NEW j \in Jobs, Save(j)
  PROVE  RoomInv'
  <1>0. PICK p \in Projects : p = jobs[j].project
    BY DEF TypeOK, BudgetTypeOK, Job
  <1>1. PICK a \in Artifacts :
          /\ Stores(a, p) /\ Claimed(p) - Cardinality({j} \cap Live) < MaxArtifacts
          /\ jobs'[j].project = p /\ \A k \in Jobs \ {j} : jobs'[k] = jobs[k]
          /\ Live' = Live \ {j}
    BY <1>0, SavedRows
  <1>2. p \in Projects
    OBVIOUS
  <1>3. \A q \in Projects : OfProject(Live, q)' = OfProject(Live, q) \ {j}
    BY <1>1 DEF OfProject, Live
  <1>4. ASSUME NEW q \in Projects \ {p}
        PROVE  IsFiniteSet(Stored(q)') /\ Claimed(q)' <= MaxArtifacts
    BY <1>1, <1>2, <1>3, StoredMore, ClaimedLess
  <1>5. IsFiniteSet(Stored(p)') /\ Claimed(p)' <= MaxArtifacts
    <2>1. /\ IsFiniteSet(Stored(p)') /\ IsFiniteSet(OfProject(Live, p))
          /\ Claimed(p) \in Nat /\ Claimed(p)' \in Nat /\ Claimed(p)' <= Claimed(p) + 1
          /\ j \in OfProject(Live, p) => Claimed(p)' = Claimed(p)
      BY <1>1, <1>3, StoredMore, ClaimedMore
    <2>2. Claimed(p) <= MaxArtifacts /\ MaxArtifacts \in Nat
      BY <1>2, BudgetAssumption DEF RoomInv
    <2>3. CASE j \in Live
      BY <1>0, <2>1, <2>2, <2>3 DEF OfProject
    <2>4. CASE j \notin Live
      <3>1. {j} \cap Live = {}
        BY <2>4
      <3>2. Cardinality({j} \cap Live) = 0
        BY <3>1, FS_EmptySet
      <3> QED BY <1>1, <2>1, <2>2, <3>2
    <2> QED BY <2>1, <2>3, <2>4
  <1> QED BY <1>4, <1>5 DEF RoomInv

LEMMA RoomQuiet ==
  ASSUME TypeOK, RoomInv, IsFiniteSet(Live), Quiet
  PROVE  RoomInv'
  <1>1. \A q \in Projects : OfProject(Live, q)' \subseteq OfProject(Live, q)
    BY DEF Quiet, ImageRow, OfProject, Live
  <1>2. CASE \E p \in Projects, a \in Artifacts : Stores(a, p) /\ Claimed(p) < MaxArtifacts
    <2>1. PICK p \in Projects, a \in Artifacts : Stores(a, p) /\ Claimed(p) < MaxArtifacts
      BY <1>2
    <2>2. ASSUME NEW q \in Projects \ {p}
          PROVE  IsFiniteSet(Stored(q)') /\ Claimed(q)' <= MaxArtifacts
      BY <1>1, <2>1, StoredMore, ClaimedLess
    <2>3. /\ IsFiniteSet(Stored(p)') /\ Claimed(p) \in Nat /\ Claimed(p)' \in Nat
          /\ Claimed(p)' <= Claimed(p) + 1
      BY <1>1, <2>1, StoredMore, ClaimedMore
    <2>4. Claimed(p)' <= MaxArtifacts
      BY <2>1, <2>3, BudgetAssumption
    <2> QED BY <2>2, <2>3, <2>4 DEF RoomInv
  <1>3. CASE \/ files' = files
             \/ \E a \in Artifacts : files' = [files EXCEPT ![a] = Nowhere]
    <2>1. \A q \in Projects : Stored(q)' \subseteq Stored(q)
      BY <1>3, BudgetAssumption DEF Stored, TypeOK, BudgetTypeOK
    <2> QED BY <1>1, <2>1, ClaimedLess DEF RoomInv
  <1> QED BY <1>2, <1>3 DEF Quiet

LEMMA RoomStart == Init => RoomInv
  <1> SUFFICES ASSUME Init, NEW p \in Projects
               PROVE  IsFiniteSet(Stored(p)) /\ Claimed(p) <= MaxArtifacts
    BY DEF RoomInv
  <1>1. Stored(p) = {} /\ OfProject(Live, p) = {}
    BY BudgetAssumption DEF Init, BudgetInit, Stored, OfProject, Live
  <1>2. IsFiniteSet(Stored(p)) /\ Claimed(p) = 0
    BY <1>1, FS_EmptySet DEF Claimed
  <1> QED BY <1>2, BudgetAssumption

(* What is stored and what is reserved fit into a project together, however   *)
(* uploads, acceptances, permits that run out and images that are stored     *)
(* follow each other (providerBudget.ts:107, workspaces.ts:243).            *)
THEOREM RoomCorrect == Spec => []RoomReserved
  <1>1. RoomInv => RoomReserved
    BY DEF RoomInv, RoomReserved
  <1>2. Inv /\ ImageInv /\ RoomInv /\ [Next]_vars => RoomInv'
    BY ImageMoves, RoomSubmitted, RoomSaved, RoomQuiet DEF Inv, WithinLimits
  <1>3. Inv /\ ImageInv /\ [Next]_vars => ImageInv'
    BY ImagesStep DEF Inv
  <1> QED BY <1>1, <1>2, <1>3, RoomStart, ImagesStart, InvHolds, PTL DEF Spec
===============================================================================
