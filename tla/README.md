# Groundwork: a formal model of the server and its offline client

Groundwork is a web application for buildings and sites. Several people edit one
project document at the same time, work on without a network, hand long jobs to
native tools and to a rendering service, and belong to tenants whose plan decides
what they may do. This directory holds TLA+ models of the parts of that program
where steps of several actors meet, the TLC instances that check them, and
theorems about them that the TLA+ proof system has checked.

Paths below are relative to the repository; `server/` stands for `server/src/`
where no other directory is named.

## 1. The system

One Node process, or several behind a balancer, serve the API. All durable state
is in one SQLite or PostgreSQL database. Both drivers serialise transactions: a
process-wide queue in `db.ts`, an advisory lock in `postgresDatabase.ts`. A
`withTransaction` block is therefore one atomic step, whatever it awaits inside.
A statement outside a block is a step of its own. Everything read before a block
may be stale inside it. Effects registered for after the commit (live events) may
be lost.

| Part | State it keeps | Operations | What must hold | What is hard |
|---|---|---|---|---|
| **Project document** `routes/projects.ts`, `routes/collaboration.ts`, `designLocks.ts`, `projectAccess.ts` | project row (revision, design), operations, snapshots, leases, members, events | save, label, send an operation, take and restore a snapshot, lock and unlock, invite, change role, remove, bind to a tenant | no write replaces what its author was not shown; an operation id takes effect once; leases protect; only writers write; every change is announced in order | admission is read before the transaction; answers are lost; leases run out; handlers stop half way |
| **Tenants** `routes/organizations.ts`, `organization.ts` | membership, owner, bound projects, entitlement | appoint, change role, dismiss, transfer ownership, bind a project, cancel and reactivate | project rights follow the tenant as soon as it is bound | the entitlement changes under running requests |
| **Native jobs** `nativeJobs.ts`, `nativeWorkerAuthority.ts`, `nativeWorkerLoop.ts`, `nativeJobWorker.ts`, `nativeWorkerClient.ts` | job rows, leases, staged outputs | submit, claim, renew, stage, publish, fail, cancel, delete | a job is published once, by the attempt that owns it, before its deadline, in the name of somebody with access | crashed workers, lapsed leases, lost answers, late results |
| **Render jobs** `renderJobs.ts`, `providerBudget.ts` | job rows, permits, daily usage, artifacts; in memory, one abort controller per job | submit, execute, retry, cancel, reconcile | limits of concurrency and spending, room for the output, one outcome per job | an instance dies, another one cancels or reconciles |
| **Offline client** `client/src/lib/offline*.ts`, `designMerge.ts`, `Editor.tsx` | page state, drafts, offline copy, queue; shared by the tabs of a browser | autosave, recover, retry, merge, discard, enqueue, synchronise | nothing the server holds is overwritten unseen; nothing the user wrote is lost | timeouts, requests served after the page gave up, tabs without locks |
| **Event stream** `routes/collaboration.ts`, `collaboration.ts` | subscription slots (10 per user and project, 45 s), cursor, Redis outbox | reserve, subscribe, replay, broadcast, presence | a reader who reconnects is told of the newest event; slots keep their limit | replay and broadcast overlap; a lapsed slot is not revived |
| **Coordination sync** `routes/sync.ts`, `client/src/lib/operationSync.ts` | registers stamped with a clock, operation log, client outbox | push, pull, acknowledge | replicas agree; a repeated push changes nothing | clocks ahead, reused ids, a full log |
| **Workspaces** `workspaces.ts`, `client/src/components/ProjectWorkspacePanel.tsx` | current revision, history, artifacts and references; in the page, the base and what it has uploaded | upload and save from a base revision, clean up, prune, delete | no lost update; no referenced artifact disappears | a save is several requests whose answers may be lost; room shared with jobs and renders |
| **Billing** `payments/tenantBilling.ts`, `routes/payments.ts` | orders, receipts, entitlement revision | create a checkout, apply a receipt, capture | a receipt is applied once and only to the tenant that ordered | the provider is called between two transactions; its answer or its webhook may come first |
| **Accounts** `routes/auth.ts`, `security.ts`, `mfa.ts`, `totp.ts`, `routes/sso.ts` | sessions, one-time codes, counters, credential version | sign in, second factor, reset, revoke | a code is used once; a changed credential ends older sessions; guessing is slow | attempts in several sessions; requests that read before their transaction |
| **Outbound calls** `runtimeResilience.ts`, `outboundCircuitStore.ts`, `sharedRateLimit.ts` | circuit state with a probe lease, counters of a window | acquire, complete, count | one probe at a time | instances share the state |
| **Rest** | secrets, uploads, mail, audit, telemetry, backup, import, configuration, exchange, assistant; the calculation and geometry libraries; the user interface | | | see section 10 |

The parts meet in the database: restoring a snapshot and publishing a native job
look at the same membership rows as a save; the room for artifacts is shared by
uploads, native jobs and renders; the offline client talks to the document's
`PATCH`; events are rows written by the same transaction as the change.

## 2. The modules

| Module | Stands for |
|---|---|
| `ProjectAccess` | who may read, write and manage a project; tenant membership takes precedence over invitations |
| `DesignLocks` | leases on objects or on the whole project, by the time they have left |
| `VersionedDocument` | what the document promises: a history that only grows, each version written from the one before it |
| `ProjectDocument` | the routes that write a project, composed with the two above |
| `LeaseHistory` | the same with a history variable: for how long each user has not been able to write |
| `ProjectDocumentProofs`, `ProjectDocumentSafety` | theorems about the last two |
| `JobLifecycle` | what a native job promises: its states and the order between them |
| `NativeJobs` | the server's side of the queue |
| `NativeWorkers` | the queue together with a supervisor's and remote workers |
| `NativeWorkersProofs` | theorems about it |
| `DraftEditor` | the editor pages: autosave, drafts, recovery, conflicts; the server reduced to a versioned design |
| `OfflineSync` | the same with the queue and the managers that send it |
| `OfflineSyncProofs` | theorems about it |
| `ProviderBudget` | admission of provider requests, permits, daily usage, and the room for artifacts they share with uploads |
| `RenderJobs` | render jobs on several instances, on top of it |
| `RenderJobsProofs` | theorems about it |
| `PrepaidSeats` | what a tenant that buys seats is promised, without orders, provider calls and webhooks |
| `TenantBilling` | checkouts, payment links, receipts and the entitlement that follows |
| `TenantBillingProofs` | theorems about it |
| `CoordinationSync` | the coordination board: journal, registers, and the tabs that edit them |
| `CoordinationSyncProofs` | theorems about it |
| `EventStream` | the notifications of one project on several instances, and the browser's reconnection |
| `OutboundCircuit` | the circuit breaker in front of one provider and the calls it lets through |
| `Workspaces` | the saved workspace of a project, its artifacts, and the pages that save it |
| `AccountSessions` | one account: password, mailed codes, authenticator and sessions |
| `ServicesProofs` | theorems about the last four |
| `MCProjectDocument`, `MCNativeWorkers`, `MCOfflineSync`, `MCRenderJobs` | instances for TLC |
| `MCTenantDocument`, `MCAccountQueue`, `MCServices` | components that share no state, checked side by side: in each behaviour one of them moves |
| `MCDocumentAccess` | three parts of the document, side by side in the same way: each leaves some operations out |

`ProjectAccess`, `DesignLocks`, `NativeJobs`, `DraftEditor` and `ProviderBudget` declare operations
without a next-state relation of their own; the composing modules extend them and
hold `Init`, `Next` and the properties.

`PrepaidSeats`, `VersionedDocument` and `JobLifecycle` are abstract specifications;
`TenantBilling`, `ProjectDocument` and `NativeWorkers` implement them, by checked runs
and by theorems.

## 3. The document

| Model | Code |
|---|---|
| `revision`, `design`, `operations`, `snapshots`, `events` | `projects`, `project_operations`, `project_revisions`, `project_collaboration_events` |
| `members`, `tenant`, `orgRole`, `orgWritable` | `project_members`, the project's tenant, `organization_members`, the entitlement |
| `locks` | `project_locks`, each with the time it has left (`expires_at - now()`, not below 0) |
| `handler[h]` | a request between two of its steps, with what it has read |
| `draft[u]` | the copy an editor works on and its base revision |

A save is `PatchBegin` (access read before the body is parsed) followed by
`PatchCommit` or `PatchRefused` (one transaction, which reads access, revision and
leases again). An operation, a restoration, a lease and a binding are single
steps. Taking a snapshot, inviting, demoting and removing are two or three steps,
because the code writes them as separate statements; `Stop` ends a handler between
two of them. A design is a function from objects to values or `Absent`, enough to
tell which object a write touches. The clock of the database is only ever compared with
the end of a lease, so that a lease is kept as the time it has left: `Tick` shortens
every lease, and nothing bounds how often one is taken, renewed or runs out. The answer
to a save may be lost: the draft then keeps its old base. The variables are those of the
database and of the requests; the client's copies serve to state what a writer was shown.

The variable `history` (the design at every revision) is not part of the code. It
is written by the steps that write the row, and only the properties read it. The same
holds for `away` in `LeaseHistory`. `SnapshotBegin` reads the project's row and the
rights in one step, where the code awaits twice (`routes/projects.ts:425-426`): a request whose author
gains the right to write between the two is left out, and no property depends on who takes
a snapshot. Events that publish no version (of leases and
members) are stored up to `MaxEvents`; beyond it the event is left out, not the request.

Properties:
* `CopiesAreHistorical`: what a client holds for revision r is the design of revision r.
* `Versioned`: the routes implement `VersionedDocument`; a write of content is made from the version it replaces.
* `DesignEventsIncrease`, `NewContentAnnounced`: the editors ignore an event that is not above the revision they know, so the stored design events must increase, and every new content must have one.
* `OperationsOnce`: an operation id takes effect at most once; its row and its event agree.
* `SnapshotsAreHistorical`: a snapshot is the design of the revision it names, although its three steps are separate.
* `LeasesProtect`: no route lets anybody but the holder change what a live lease protects.
* `WritersMayWrite`: a change is committed only by somebody who may write at that moment.
* `OrphanedLeaseEnds`: a lease outlives the write access of its holder by less than the longest lease a client may ask for. Some routes that take the access away leave the lease; this says that it cannot then be renewed, however often the page that holds it tries.

## 4. Native jobs

| Model | Code |
|---|---|
| `jobs[j]` | a row of `project_native_jobs`, with attempt, lease, deadline and outputs |
| `staged` | `native_worker_outputs` |
| `allowed` | what `authorize` finds for the submitter |
| `worker[w]` | a worker loop: idle, claimed, executing, staging, publishing, reporting |

`Claims` is the whole transaction of a claim: recover lapsed leases, count running
jobs, pass over candidates that cannot run, start one. A worker's renewal,
execution, staging and publication are steps of their own, and any of them may be
its last (`Crash`). For a remote worker the answer to a publication may be lost,
after which it reports a failure for a job that has succeeded. `Lifecycle` is the
refinement of `JobLifecycle`, job by job, with the attempt number kept.

Properties: `OnePublication` (outputs exactly when succeeded, of the last attempt),
`PublishedInTime` (before the deadline and with access), `Lifecycle`,
`CapacityKept`, and under fairness `EveryJobEnds` and `StagingCleaned`.

## 5. Offline editing

| Model | Code |
|---|---|
| `page[p]` | the refs of `Editor.tsx`: design shown, acknowledged design, revision, pending base, generation |
| `drafts[p]`, `cache` | IndexedDB: one draft per page, the offline copy of the project |
| `queue`, `enqueue[p]` | the queue and an insertion under way (list the older items, supersede them one transaction each, put the new one) |
| `sync[p]` | the manager of a page: where it is, its item, the items listed at the start of its run that are left |
| `saved`, `wire` | the server: a sequence of designs; the requests on their way |

A design is a set of numbers, each an addition some page or somebody else has
made: enough to say that one design includes another, and to define the three-way
merge (what either side removed is gone, what either side added is there). A
request is served once, at any later time, even after its page has timed out or
closed; the answer may be lost.

Properties:
* `NoSilentOverwrite`: a save removes from the server only what its author had been shown.
* `NothingForgotten`: a change that was made and not given up is on the server or in a draft.
* `BasesIncluded`: the design in a draft, an item or the offline copy includes its base.
* `CompletedWasSaved`: an item is `completed` only if the server has its design right after its base.
* `EveryItemSettles`, under fairness: an item does not stay queued or syncing.

What the model leaves out: the fence that sign-out puts before local data, the
fallback to local storage when IndexedDB is missing, the clearing of completed
items, the counter that pauses a manager after six failures, and restoring from the
history panel. Writing the offline copy is folded into the step that starts it. One
insertion at a time per page. Every browser has opened the project once, at the
first revision.

## 6. Render jobs

| Model | Code |
|---|---|
| `jobs[j]` | a row of `project_render_jobs`: state, source and output image, time of the last change |
| `permit[j]` | the job's row in `provider_active_permits`, by the time it runs out |
| `usage` | `provider_daily_usage`, requests standing for tokens too |
| `files` | `project_workspace_artifacts` |
| `executor[j]` | `executeRenderJob` on the instance that accepted the job: the next of its transactions, and its abort controller |
| `up`, `allowed`, `time` | the instances that run, who may write, the clock |

A submission or a retry is one transaction (history limit, admission, source image,
row) and starts an executor on that instance. The executor marks the row, reads it,
reads the image, calls the provider, stores the output together with giving back the
permit, and may fail at each of these; storing the failure may fail as well. A
cancellation changes the row on any instance but reaches the controller only on the
one that executes. An instance may die at any step; row and permit stay. Every
instance reconciles when it starts and once a minute.

Properties:
* `BudgetKept`, two halves: `ConcurrencyKept`, no more calls are under way than the limits allow, although permits run out by the clock; and `SpendingKept`, a day's jobs cost no more than its budget, whatever became of them. The first rests on `MaxDelay < Slack`: at most 30 s pass between a request and its provider call. The code does not enforce that; it is an assumption about the load.
* `RoomReserved`: stored artifacts and reserved ones fit into the project together.
* `ImagesKept`: the images of a job exist as long as its row.
* `OutcomeKept`: cancellation, reconciliation, a late result and a late failure do not overwrite each other.
* `WorkKept`: nobody gives up a job that some instance is still calling the provider for.
* `EveryJobEnds`, under fairness.

Restarting does not fail running jobs at once, as `docs/PHASE-9-AI-RENDERING.md:136`
says (with the code `SERVER_RESTARTED`): a job is given up only when it has not
changed for the timeout and two minutes more and its project has no live permit
(`WORKER_EXPIRED`). `WorkKept` is why.

## 7. Billing, sync and services

### Prepaid seats (`TenantBilling`)

| Model | Code |
|---|---|
| `orders`, `receipts`, `sub` | `tenant_billing_orders`, `payment_receipts`, `organization_subscriptions` |
| `links` | the payment links at the provider (external: made by its answer to a checkout, paid by the customer until they close) |
| `checkout[k]` | the request that made an order, around its call to the provider |
| `staff`, `ownedBy`, `signedIn` | the organization's members, its owner, sessions of possible owners |

A checkout is a transaction (`Checkout`, or `Repeat` with the same idempotency key),
the provider's call, and a second transaction (`Completed` or `Uncertain`). Payment
and `Webhook` may come in between, late, twice or never, and the call may end without
an answer (`CallFails`) or with its request (`CheckoutLost`).

* `ChargedOnce`: one checkout never leads to two links that could both be paid.
* `BooksAgree`: an order is verified exactly by the receipt of its own link, one that can still be paid has no receipt, one checkout at most is open.
* `Prepaid`: the refinement of `PrepaidSeats`; a payment is settled once, all or nothing, and grants seats only for the state of the subscription it was offered for.

### Coordination board (`CoordinationSync`)

| Model | Code |
|---|---|
| `log`, `register` | `project_sync_operations`, `project_sync_registers` |
| `stored` | the browser's storage, shared by the tabs of an account |
| `tab[p]` | the `CoordinationSync` object: client identity, clock, cursor, board, pending operations, the request under way |
| `late` | pushes whose tab has stopped waiting; they may still be served |

* `Converged`: a board shows in each register at least the winner of the journal up to its cursor, and nothing that was not accepted.
* `EachOnce`: an operation is in the journal once, whichever tabs send it.
* `EditsSupersede`: an edit's clock is above everything its author could see.
* `EditsKept`: the record of an edit leaves the browser only when the server has it.

### Notifications (`EventStream`)

`notices` is the number of stored events, `announced[h]` what instance h has committed
and not broadcast, `reserved` the slots of `project_presence`, `stream[s]` a connection
with its cursor, `reader[r]` the subscription of a page with the id it received last.

* `SlotsKept`: no more reservations are live than the limit allows; a lapsed one is not revived.
* `NewestTold`: a stream that has replayed up to an event has told its reader of that event or of a later one. It does not say that every event is told: an older event that arrives after a newer one is dropped by the page (`client/src/api.ts:401`), although the comment at `server/src/sse.ts:5` calls replay safe. Pages reload what an event announces, so the newest is what counts.

### Circuit breaker (`OutboundCircuit`)

`circuit` is the row all instances share, `calls[c]` a call with the generation and
probe flag of its permit. A call's outcome is reported when it has ended, which may be
after the circuit opened, closed or let a probe through; a call may be lost with its
instance. One clock is assumed for all instances.

* `ProbesApart`: one probe at a time. It rests on the probe's lease (310 s) being longer than any deadline (300 s), which is an assumption on the constants because the code has both numbers.
* `RecoveryProven`: an open circuit closes only on a success begun after its cooldown.

### Workspaces (`Workspaces`)

| Model | Code |
|---|---|
| `head`, `history` | `project_workspaces.current_revision`, `project_workspace_snapshots` with their references |
| `store` | `project_workspace_artifacts`; ids are not used twice |
| `task` | native jobs, as far as they refer to artifacts and revisions |
| `panel[p]` | a page: its base, references, what it uploaded, and where its save is |
| `puts` | requests to save that have been sent and not served |

A save checks its base, uploads its files and inputs one request at a time, and then
sends the request that commits. If that fails, is cancelled or is not answered, the page
deletes what it has uploaded, although the request may be served later or has been.
Any request of a writer may be refused, since sessions, membership and the source
revision change. The room that jobs have reserved is left out of `Creates`: it only
refuses more uploads, which any upload may meet. `Prune` joins the page's request to prune with its reading of the
workspace afterwards: a later answer is a `Refresh`, and a page that gets none keeps an
old base over a pruned history, as it does when the other page prunes.

* `HistoryWhole`: the current revision exists and is the latest; all that a revision or a job refers to is stored; a job's revision exists and contains its input. The code gives up with "Workspace history is inconsistent" (`workspaces.ts:149`) otherwise.

### Accounts (`AccountSessions`)

| Model | Code |
|---|---|
| `account` | the row of `users`: password and secret by number, counters, locks, credential version, mailed code |
| `session[s]` | a row of `sessions`, and the request it has between its first read and its transaction |
| `sending` | mails under way, after which a code that was not delivered is withdrawn |
| `wrong` | not in the code: when wrong codes were entered since one was accepted; only a property reads it |
| `step` | the 30 s step of the authenticator, the model's clock |

Changing the password, revoking other sessions and setting up an authenticator read
before they open their transaction (`BeginRequest`), so that other sessions may change
the account in between. `session[s].under` and `shown` record which password the session
was opened under and of which secret it has shown a code; only a property reads them.

* `SessionsVouched`: every session the server accepts stands under the present password and, past the second step, has shown a code of the present authenticator.
* `GuessesBounded`: at most `2 * GuessLimit - 2` wrong codes (8 in the server's setting) in a row fall into one window, however many sessions share in them. The limit of 5 holds per counting window; a guesser can use the end of one and the beginning of the next.

## 8. Checks

All runs use TLC breadth first over the complete state space of the instance. The
bounds are in the cfg files; the runs of the document and of the offline client
enable only the operations their question is about (`Offered`), which keeps the
others from multiplying their states. Components that share no state are checked in one
run, side by side. Each passing run takes between half a minute and four minutes.

| Run | Question | Bounds |
|---|---|---|
| `DocumentEdits` | saves, operations, snapshots and restorations from old copies; beside them prepaid seats | two requests at once, one object, one operation id, one snapshot, leases of one tick, revisions and events to 2; two checkouts, two links, two owners, one place to buy, days and revisions to 2 |
| `DocumentAccess` | leases under saves, operations and restorations, with rights fixed; rights that change (invitations, demotions, removals, the tenant, its members and entitlement) under the same writes, without leases; the same changes under leases that are renewed and taken over | one request of several steps at a time, next to those of one step; one object and the whole project to lock, one operation id, one snapshot, revisions to 2; leases of one tick under the writes and of one or two under the rights; lease and member events left out |
| `Limits` | the four limits of the native queue; beside it one account | three jobs, three projects, one worker, one running job, one active and two stored in a project, two active in all; leases of one, deadline of two, clock to 4; rights fixed, no project deleted; two sessions, one mailed code, two attempts in a window of two steps, a lock of two, four wrong codes, two passwords, one secret, four steps |
| `NativeQueue` | lapsed leases, lost answers, crashes; jobs end, staging is removed (liveness) | two jobs, a local and a remote worker, two attempts, one chunk, one running job; one lease of two fits before the deadline of three and a second reaches past it, clock to 5 |
| `OfflineEdits` | two tabs without locks: timeouts, retries, merges, refusals | two edits, one foreign save, two lost answers |
| `OfflineProgress` | offline starts and reloads, drafts given up; items settle (liveness) | two edits, one lost answer, tabs with locks |
| `RenderJobs` | limits, room, images, outcomes | two jobs, users and instances, room for two artifacts, one call at a time, days of two units, calls and permits that end within the bound of the clock (5) |
| `RenderProgress` | jobs end (liveness), while the permit of another job of the project is live or has run out | two jobs of one user and project, accepted at 0 or 1, two instances, two calls at a time, room for three artifacts, rights fixed, calls without delay, clock to 5 |
| `Services` | board, notifications, circuit and workspace, side by side | two tabs of one account, two clients, one field, two operations and one late push; two instances, two connections with a limit of one, two events; three calls, threshold 2, probes of three ticks; two pages, three artifacts, one job, a history of two, three saves |

The smallest values at which the hazards occur are two of everything that competes:
two requests from one base, two attempts of one job, two tabs with one queue, two
instances. A lease of two ticks can be renewed before it ends, shortened by a renewal
and taken by somebody else once it has run out, without a bound on how often; a render accepted at 0 has lost its permit at 3, when a second one can
still be accepted; a lock of two steps set in the second can be waited out before the
fourth; a history of two fills up, so that a save needs a pruning. In `Limits`, each of the four
limits could be exceeded: a third job is one too many for the records of a project and
for all projects together, a second one for the active and for the running. Dropping any
one of the four guards violates `CapacityKept`. Jobs and projects, which no
action tells apart, are used in a fixed order there. In `RenderProgress`, the permit of a
job accepted at 1 is live when the job accepted at 0, whose instance died, could be given
up, and has run out when it is. The theorems of
section 9 cover every other value for safety.

Three runs must fail. Each shows a sentence of the repository that the code does not
keep:
* `DemotedLock`: `POST members` demotes without deleting leases.
* `SupersededSave`: a manager sends an item after it was superseded, and the newer save ends in conflict with it.
* `OfflineReload`: falling back to the offline copy leaves the pending base of an earlier merge; the next edit overwrites unseen.

Two more observations, which no sentence contradicts: a page opened from the offline
copy takes an unsaved design for the acknowledged one (`Editor.tsx:183`), so that a
later three-way merge compares with a design the server never had; and an invitation
admitted before its project is bound to a tenant is stored after it (`POST members`
reads access outside a transaction), where it grants nothing.

No cfg checks a type invariant: types are proved (section 9).

### Fairness

* Workers keep polling, execution ends, a live worker takes its next step, time passes (`NativeQueue`): the loop's timer re-arms after every tick and every call has a timeout.
* A page's manager is started again, by its retry timer or by the user, and its requests end (`OfflineProgress`); the failures are bounded by `MaxLost`, fewer than the six after which the timer gives up.
* An executor takes its next step, an instance that died is started again, the reconciliation timer fires, time passes (`RenderProgress`).

No fairness is assumed for users, for answers to arrive, or for a crashed worker to come back.

## 9. Theorems

All hold for every value of the constants, under the named assumptions of the
modules (`Owner \in Users`, positive lease lengths and the like; TLC evaluates each of
them in a run). For every module there is a theorem that its types are kept, and every
invariant and every safety property that a passing run checks is stated by a theorem.

* **Document.** `TypeCorrect`; then from one invariant, that every stored revision has the design the history gives for it, that copies and pending requests carry historical designs, and that stored design events increase: `CopiesCorrect`, `FeedOrdered`, `FeedComplete`, `OperationsCorrect`, and for the steps `LeasesCorrect`, `WritersCorrect` and the refinement `ImplementsVersioned`. The properties alone are not inductive: a save is decided by the base its handler read, so the invariant has to speak of handlers. `SnapshotsCorrect` needs the same for a snapshot's handler between its three steps: what it has read is historical, and so is what it has stored and not yet announced. `OrphansEnd` says for every length of leases that one outlives its holder's rights by less than the longest: the invariant is that what a lease has left and the time its holder has been without rights are together at most the longest lease, which only a renewal without rights could break.
* **Native jobs.** `WorkersTypeCorrect`, `OnePublicationCorrect`, `PublishedInTimeCorrect`, `LifecycleImplemented`. The proof lists the moves one step may make with one job (unchanged, submitted, requeued, started, renewed, ended, published, deleted) and shows each action makes only those. `CapacityCorrect` counts the finite set of active jobs: only a claim or a submission adds to it, by one, after counting.
* **Offline.** `OfflineTypeCorrect`, `BasesCorrect`, `CompletedCorrect`, `NoOverwrite`, for any number of pages, with or without browser locks. The invariant: everything that may still be sent (a page's design, a draft, an item, a request) includes the design of the base it will be sent with. `NothingLost` has an invariant of its own: a stamp names one design, in whichever draft, request or memory it is found, and a page shows at least what the draft it was recovered from holds. All assume `Connected`: no page opens or reloads without a network. `OfflineReload` shows the assumption is needed.
* **Render jobs.** `RenderTypeCorrect`, `ConcurrencyCorrect`, `SpendingCorrect`, together `BudgetCorrect`; `OutcomeCorrect`, `WorkCorrect`, `ImagesCorrect`, `RoomCorrect`. The permits alone do not bound the calls, since they run out by the clock; the invariant says of every executor on its way to the call, or waiting for it, how old it may be, and so that its permit is still live. It also says that `usage` counts exactly the rows of each day. For the room, a job whose output is still due holds a permit, so that reserved places cover what executors may store. Every step is one of three kinds (a job is accepted, time passes, or nothing that matters to the invariant gains ground), and each kind is treated once.
* **Billing.** `BillingTypeCorrect`, `NobodyChargedTwice`, `BooksAlwaysAgree`, and `PrepaidImplemented`: every step of checkouts, webhooks and transitions is a step of `PrepaidSeats` or leaves its variables alone. The invariant says of a request around its call what its order, its link and the link's receipt may be.
* **Coordination board.** `SyncTypeCorrect`, `BoardsConverge`, `AcceptedOnce`, `EditsAreLater`, `EditsAreKept`, for any number of tabs, accounts, clients and fields. The invariant says that the server's clock is past every operation and a tab's past all its board shows, and of each answer under way that it holds the winners of the journal from the tab's cursor up to where it was given, which stays true since the journal only grows.
* **Notifications and circuit.** `StreamTypeCorrect`, `SlotsBounded`, `NewestIsTold`; `CircuitTypeCorrect`, `OneProbe`, `ClosedByRecovery`. A probe under way belongs to the present generation and its lease, so that a second one is not admitted.
* **Workspaces.** `WorkspaceTypeCorrect`, `HistoryIsWhole`. `HistoryWhole` is inductive together with the types: a commit looks its artifacts up again in its own transaction, a deletion looks for references in its own, and no step relies on what a page remembers. That is why a page may clean up blindly.
* **Accounts.** `AccountTypeCorrect`, `SessionsAreVouched`, `GuessesAreBounded`. The first invariant says that an open session of the present credential version stands under the present password and, past the second step, has shown the present authenticator, and that an account with an authenticator or an open session is verified; otherwise the code that verifies a new account could open a session past an authenticator. The second says that the last `failed` wrong codes are those of the present window, that among the earlier ones at most `GuessLimit - 1` can be recent, and that at the limit the account is locked; it uses `AttemptWindow <= LockTime` and `GuessLimit >= 2`, which the server's constants satisfy.

Only model-checked: the four liveness properties (`EveryJobEnds` of the native queue
and of the render jobs, `StagingCleaned`, `EveryItemSettles`), and
of course the three that fail. Liveness, `ENABLED`, inductive arguments over data and
recursive operators are beyond the prover.

## 10. What is left

Modelled only in part:
* the document's other routes: creating, duplicating, archiving and deleting a project, share links, comments;
* the offline client: the sign-out fence, the clearing of completed items;
* notifications through Redis with its outbox; the board's Redis script;
* personal payments and plans;
* the circuit's `reset`, which nothing calls, the removal of idle rows, the rows' limit, retries inside a call, and the rate limiter's windows;
* the workspace panel's recovery copies in the browser, and the preparation of assets; render jobs' references to artifacts are the concern of `RenderJobs` (`ImagesKept`);
* single sign-on up to its last step; profile, cookies and CSRF tokens.

Not modelled, and why: configuration and start-up are static; secrets, uploads,
mail, audit and telemetry are single steps around files, cryptography or the network;
backup and import are run by one operator; calculation, geometry and exchange
libraries are floating point and file formats; React components draw what the
modules above decide. These make up most of the repository's lines. PROJECT.json lists
each with its sources.

Next, in order: a queued native job of a project that no worker covers any more (its
deadline is never looked at; no sentence promises otherwise); the sign-out fence and
the clearing of the queue in `OfflineSync`; the Redis transport as a third way an event
may reach a page.
