---------------------------- MODULE ProviderBudget ----------------------------
(***************************************************************************)
(* Admission of provider requests (server/src/providerBudget.ts) and the    *)
(* room of a project's artifacts that it shares with uploads               *)
(* (server/src/workspaces.ts).  Every operation is one transaction.        *)
(*                                                                         *)
(* Requests are renders; the assistant's have limits of their own and      *)
(* reserve no room.  A request costs one unit of the daily budget, which   *)
(* stands for requests and tokens alike.  Artifacts are counted, an output *)
(* being no larger than its reservation.  A permit belongs to one job, in  *)
(* whose row its user and project are found.                               *)
(***************************************************************************)
EXTENDS Integers, FiniteSets

CONSTANTS
  Jobs,          \* random ids jobs may get
  Users,
  Everyone,      \* the scope of the budget all users share
  Projects,
  Artifacts,     \* random ids artifacts may get
  Nowhere,       \* the project of an artifact that does not exist
  NoArtifact,    \* output_artifact_id IS NULL
  UserLimit,     \* RENDER_USER_CONCURRENCY
  GlobalLimit,   \* RENDER_GLOBAL_CONCURRENCY
  Budget,        \* RENDER_USER_DAILY_REQUESTS, RENDER_GLOBAL_DAILY_REQUESTS
  MaxArtifacts,  \* 128 artifacts of a project
  Timeout,       \* RENDER_PROVIDER_TIMEOUT_MS
  Slack,         \* 30 s a permit lasts beyond the timeout
  DayLength,     \* 86400 s
  MaxClock       \* bound: the clock stops here

ASSUME BudgetAssumption ==
  /\ Nowhere \notin Projects /\ NoArtifact \notin Artifacts
  /\ Users # {} /\ Projects # {} /\ Everyone \notin Users
  /\ UserLimit \in Nat \ {0} /\ GlobalLimit \in Nat \ {0}
  /\ Budget \in [Users \cup {Everyone} -> Nat]
  /\ MaxArtifacts \in Nat \ {0} /\ Timeout \in Nat \ {0} /\ Slack \in Nat
  /\ DayLength \in Nat \ {0} /\ MaxClock \in Nat

VARIABLES
  jobs,      \* project_render_jobs
  permit,    \* provider_active_permits: job -> expires_at, 0 without a row
  usage,     \* provider_daily_usage: scope -> day -> requests
  files,     \* project_workspace_artifacts: artifact -> project
  allowed,   \* users whose session is active and who may write
  time       \* now()

budgetVars == <<jobs, permit, usage, files, allowed, time>>

Active == {"queued", "running"}
Over   == {"succeeded", "failed", "cancelled"}
Scope  == Users \cup {Everyone}
DayOf(t) == t \div DayLength
Day    == {DayOf(t) : t \in 0..MaxClock}
Today  == DayOf(time)

Job == [state : {"none"} \cup Active \cup Over, project : Projects, by : Users,
        source : Artifacts \cup {NoArtifact}, output : Artifacts \cup {NoArtifact},
        updated : Nat, day : Day]

BudgetTypeOK ==
  /\ jobs \in [Jobs -> Job]
  /\ permit \in [Jobs -> Nat]
  /\ usage \in [Scope -> [Day -> Nat]]
  /\ files \in [Artifacts -> Projects \cup {Nowhere}]
  /\ allowed \in SUBSET Users
  /\ time \in 0..MaxClock

(* Nothing reads the project, the user or the day of a row that does not exist. *)
Unused == [state |-> "none", project |-> CHOOSE p \in Projects : TRUE,
           by |-> CHOOSE u \in Users : TRUE, source |-> NoArtifact, output |-> NoArtifact,
           updated |-> 0, day |-> CHOOSE d \in Day : TRUE]

BudgetInit ==
  /\ jobs = [j \in Jobs |-> Unused]
  /\ permit = [j \in Jobs |-> 0]
  /\ usage = [s \in Scope |-> [d \in Day |-> 0]]
  /\ files = [a \in Artifacts |-> Nowhere]
  /\ allowed = Users
  /\ time = 0

-----------------------------------------------------------------------------
Live           == {j \in Jobs : permit[j] > time}
OfProject(S, p) == {j \in S : jobs[j].project = p}
OfUser(S, u)   == {j \in S : jobs[j].by = u}
Stored(p)      == {a \in Artifacts : files[a] = p}

(* Artifacts a project holds and those its live permits have reserved. *)
Claimed(p) == Cardinality(Stored(p)) + Cardinality(OfProject(Live, p))

(* admitProviderRequest *)
MayAdmit(u, p) ==
  /\ Cardinality(Live) < GlobalLimit
  /\ Cardinality(OfUser(Live, u)) < UserLimit
  /\ \A s \in {u, Everyone} : usage[s][Today] < Budget[s]
  /\ Claimed(p) < MaxArtifacts

(* Mutant: a permit lasts no longer than the provider's timeout. *)
Admit_NoSlack(j, u) ==
  /\ permit' = [k \in Jobs |-> IF k = j THEN time + Timeout
                               ELSE IF k \in Live THEN permit[k] ELSE 0]
  /\ usage' = [s \in Scope |-> IF s \in {u, Everyone} THEN [usage[s] EXCEPT ![Today] = @ + 1]
                               ELSE usage[s]]

(* It deletes the permits that have run out and stores one that outlives   *)
(* the provider's timeout.                                                 *)
Admit(j, u) ==
  /\ permit' = [k \in Jobs |-> IF k = j THEN time + Timeout + Slack
                               ELSE IF k \in Live THEN permit[k] ELSE 0]
  /\ usage' = [s \in Scope |-> IF s \in {u, Everyone} THEN [usage[s] EXCEPT ![Today] = @ + 1]
                               ELSE usage[s]]

(* releaseProviderPermit *)
Release(j) ==
  /\ permit' = [permit EXCEPT ![j] = 0]
  /\ UNCHANGED usage

-----------------------------------------------------------------------------
(* Mutant: an upload sees the stored artifacts only. *)
Upload_StoredOnly(p, a) ==
  /\ allowed # {}
  /\ files[a] = Nowhere
  /\ Cardinality(Stored(p)) < MaxArtifacts
  /\ files' = [files EXCEPT ![a] = p]
  /\ UNCHANGED <<jobs, permit, usage, allowed, time>>

(* createWorkspaceArtifact, by an upload or for a native job *)
Upload(p, a) ==
  /\ allowed # {}
  /\ files[a] = Nowhere
  /\ Claimed(p) < MaxArtifacts
  /\ files' = [files EXCEPT ![a] = p]
  /\ UNCHANGED <<jobs, permit, usage, allowed, time>>

(* Mutant: only outputs are protected. *)
Referenced_OutputsOnly(a) == \E j \in Jobs : jobs[j].output = a

Referenced(a) == \E j \in Jobs : a \in {jobs[j].source, jobs[j].output}

(* deleteWorkspaceArtifact *)
DeleteArtifact(a) ==
  /\ allowed # {}
  /\ files[a] # Nowhere
  /\ ~Referenced(a)
  /\ files' = [files EXCEPT ![a] = Nowhere]
  /\ UNCHANGED <<jobs, permit, usage, allowed, time>>
=============================================================================
