# gpq: a TLA+ verification of the generation queue

gpq queues image and video Generations of a Tenant in PostgreSQL (the *Remote*),
leases them to the Device Pools of the Tenant's *Workers*, and accepts exactly
one result for each, although execution itself is at-least-once; the outputs of
that result are then delivered once. This directory models that system from
admission to delivery, checks it with TLC on small instances and proves its
safety properties and its refinements with TLAPS for every instance.

## 1. The system

### Components, their state and their operations

| Component | State it keeps | Operations that change it |
|---|---|---|
| Generation store (`gpq-remote/src/db/generations.rs`) | `generations`: state, attempt_count, accepted_attempt_id, inputs | create, mark_running, requeue, fail, cancel_queued, request_cancel_running, finish_cancelled, accept_result |
| Leases (`db/attempts.rs`, `gpq-domain/src/lease.rs`) | `attempts`: state, generation, Pool, number, lease_expires_at, execution_deadline, failure_kind | create, mark_running, heartbeat, finish_and_decide, reject_lease, acknowledge_cancel |
| Device Pools (`db/workers.rs`) | `device_pools`, `pool_models`: capability, readiness, resident model, total_slots, claimed_slots | upsert_pools, claim_slot, release_slot |
| Retry policy (`gpq-domain/src/failure.rs`, `db/native_exclusions.rs`) | `generation_pool_rejections` | retry_decision, excluded_pools |
| Scheduler (`scheduler.rs`, `gpq-domain/src/schedule.rs`, `capability.rs`) | none of its own; a planning snapshot | plan_assignments; try_assign: send the lease, then commit |
| Expiry sweeps (`expiry.rs`) | none | lapsed leases, execution deadlines, starved queue, cancel propagation, Artifacts |
| Session, Remote side (`session.rs`) | inbound order of a stream | one handler per Worker message |
| Session, Worker side (`gpq-worker/src/session.rs`, `executor.rs`) | live map, cancellation tokens, Attempt tasks | accept_lease, execute, cancel, heartbeat, reconnect |
| Pool supervision (`gpq-worker/src/pool.rs`, `infer.rs`, `backend/mod.rs`) | PoolState, op_lock, the child's one job | acquire and release a Slot, start, probe, terminate, unload, reclaim |
| Admission (`admission.rs`) | idempotency keys, queue capacity | admit |
| Output Artifacts (`artifacts.rs`, `db/artifacts.rs`, `transfer.rs`) | `artifacts`: state, placement, committed_offset, expires_at; the deliveries map, one task and one channel per delivery | record_output, begin_delivery, commit_offset, mark_consumed, mark_lost, expire_due, subscribe, push, end |
| Worker's Artifact store (`gpq-worker/src/artifacts.rs`) | a directory per output: data, manifest | publish, open_for_read, delete, expire, reconcile_on_startup |
| Input Artifacts (`artifacts.rs`, `db/artifacts.rs`, `transfer.rs`) | rows and bytes of inputs, objects to delete | create, upload, link, fetch, delete, expire |
| Events (`events.rs`, `db/events.rs`, `native/generation.rs`) | `generation_events`, one broadcast channel per Generation, the streams of WatchGeneration | append, publish, subscribe, replay, lag, refresh |
| Credentials, sessions, registry (`enrollment.rs`, `db/workers.rs`, `session.rs`, `registry.rs`; Worker `credential.rs`, `session.rs`) | the Worker's row and its lock, the stored credential, streams, the registry | enrol, revoke, connect, handshake, handle, supersede, end |
| Managed processes (`gpq-worker/src/process.rs`, `pool.rs`, `diagnose.rs`) | process groups, `process-identity.json` | spawn, record, verify_ownership, kill_stale, terminate_group, probe |

`PROJECT.json` lists every component, including the ones without behaviour of
their own (configuration, wire format, native bindings) and why they are left
out.

### How they interact

A client uploads inputs and calls Submit, CancelGeneration and WatchGeneration on
Remote. Submit checks its inputs, inserts the Generation, links the inputs and
records the idempotency key in one transaction of many statements. A scheduling
pass plans from a snapshot, opens a transaction per lease, inserts the Attempt,
sends the lease on the Worker's control stream and commits *after* the send.
The Worker acquires the Pool's Slot, executes in a child process and reports
AttemptRunning, a result, a failure, an acknowledged cancellation or a
rejection; each report is one transaction of Remote, handled in the order of its
session. Independently, sweeps settle Attempts whose lease lapsed or whose
deadline passed, and repeat cancel requests. All of them meet in the rows of
`generations`, `attempts` and `device_pools` under READ COMMITTED. What they
change is then recorded in the event log and broadcast to the watching clients.

Every handler of a Worker's message first locks the Worker's row and tests the
credential of its session; a revocation and a second enrolment take the same
lock. The registry names the session messages for the Worker go to. A Worker
that starts looks for the child of its last run in the identity file.

The accepted result leaves its outputs in an object store or in the Worker's
own store. A download takes the row (`available` to `delivering`) and spawns a
task; the task sends a DeliverRequest on the control stream, the Worker answers
with a DeliverArtifact call of its own, whose handler pushes the chunks into the
channel the task subscribed, and the task relays them to the HTTP client.

### What is hard

* **Interleaved transactions.** Row locks order some of them; several decisions
  are taken from rows that are *not* locked (`finish_and_decide` reads the
  Generation, `cancel_generation` is two UPDATEs, handlers read the clock before
  their transaction).
* **Send before commit.** A Worker can answer for a lease that is not committed
  yet, or execute one whose commit failed.
* **Late answers.** Expired Attempts are retried while their Worker still runs;
  its result, failure or acknowledgement meets the retry.
* **Withdrawal.** A capability report that leaves a Pool out deletes it, and the
  cascade deletes its Attempts.
* **Three parties to one delivery.** The client, the task and the Worker's call
  each fail on their own; a call that failed is resumed at the recorded offset,
  and nothing can be unsent once the client has it.
* **Snapshot, replay, live.** A watching client is told of a change by one of
  three ways, read at different moments, and one of them drops what a slow
  reader leaves in it.
* **Names that outlive what they name.** A superseded session ends late; a
  process number in a file belongs to somebody else by now; a credential was
  replaced while its session is open.
* **Reports that overtake plans.** A Worker may report other models, limits or
  Slots, or leave a Pool out, between a plan and its assignments.
* **Waiting for one that does not answer.** Requests to the child have no timeout,
  and some are made while the Pool's lock is held.
* **Abort at any await.** A dropped control stream aborts the Worker's tasks in
  the middle of starting or terminating the child; only destructors run.
* **Something must happen in the end.** Every Attempt is settled, every
  cancellation takes effect, every Pool comes back, every delivery and every
  admission ends, every Worker reconnects, nothing starves in the queue.

The `hazards` of `PROJECT.json` list each of these at its line with the
properties that would catch it.

## 2. Modules

| Module | Models | Used by |
|---|---|---|
| `QueueStates` | the state machines and the retry policy of `gpq-domain` (`state.rs`, `failure.rs`) | `Lifecycle`, `QueueSpec` |
| `QueueSpec` | abstract: what the queue promises, without leases, Slots or Workers | refined by `Lifecycle` |
| `Lifecycle` | leasing, execution, retry, cancellation and sweeps at the grain of Remote's transactions | `MCLifecycle`, `LifecycleProofs` |
| `Schedule` | who runs what and when: capability, selection, the scheduling pass, starvation | `MCSchedule`, `ScheduleProofs` |
| `AdmissionSpec` | abstract: a Submit takes effect in one step or not at all | refined by `Admission` |
| `Admission` | Submit statement by statement, and the life of input Artifacts | its `.cfg` files, `AdmissionProofs` |
| `Watch` | the event log, the broadcast and the streams of WatchGeneration | its `.cfg` files, `WatchProofs` |
| `Sessions` | enrolment, credentials, control sessions and the registry | its `.cfg` files, `SessionsProofs` |
| `PoolSupervisor` | one Device Pool of a Worker at the grain of awaits | its `.cfg` files, `PoolSupervisorProofs` |
| `Processes` | the child of that Pool as the operating system sees it, over restarts of the Worker | its `.cfg` files, `ProcessesProofs` |
| `Delivery` | one output Artifact, from the Worker's store to the client | its `.cfg` files, `DeliveryProofs` |
| `MCLifecycle`, `MCSchedule` | instances for TLC | the `.cfg` files |
| `*Proofs` | theorems about the module of that name and their proofs | |

`Lifecycle` leaves open what a pass plans and `Schedule` computes it;
`PoolSupervisor` says when a child is started and stopped, `Processes` what is
left of it; `Lifecycle` has the inputs of a Generation as one flag, `Admission`
their rows and bytes. An operator of the form *XUnchecked*, *XNever*, *XAgain*
next to a definition *X*, marked "Seeded fault", is a plausible bug of that code;
the property named with it in `PROJECT.json` is violated when it replaces *X*.

### Lifecycle

*State.* One variable per column the properties need (`gstate`, `accepted`,
`count`, `inputs`, `astate`, `arow`, `lease`, `due`, `akind`, `pstate`, `total`,
`claimed`, `rejections`): the committed rows. `sched`, `settle`, `saw` and
`cancel` are the open transactions and what they read; `exec`, `token` and
`msgs` are the Workers and the streams.

*Actions.* A transaction is one step where its row locks make it atomic and two
where the code reads without a lock or sends before it commits:

| Code | Actions |
|---|---|
| `try_assign` / `attempts::create` | `AssignOpen` (checks, INSERT, send), then `AssignCommit` or `AssignAbort` |
| `finish_and_decide` | `SettleOpen` through its callers (`HandleFailure`, `SweepLease`, `SweepDeadline`), then `SettleCommit` |
| `cancel_generation` | `CancelQueued`, or `CancelOpen` then `CancelCommit` |
| a handler that reads `now` first | `ReadNow`, then `HandleResult`, `HandleRunning`, ... |
| `accept_result`, `mark_running`, `acknowledge_cancel`, `reject_lease`, `upsert_pools` | one step each |
| the Worker | `WorkerAccept`, `WorkerReject`, `WorkerStart`, `WorkerCancel`, `WorkerFinish`, `WorkerHang`, `WorkerCrash`, `SessionDrop` |
| time | `LeaseLapse`, `DeadlinePass` |

`GenerationLocked`, `AttemptLocked` and `PoolLocked` are derived from the open
transactions; another transaction that needs a locked row is not enabled, which
is how PostgreSQL makes it wait and then re-evaluate its WHERE clause.

*Abstractions.* The batched sweeps settle one Attempt per step, which is what
their per-row transactions do. `expire_starved_queue` and `acknowledge_cancel`
read and then update in one step: nothing between the two can change the rows
they update without the WHERE clause noticing. The attempt count, the
exclusions and the capabilities `finish_and_decide` uses are read at the commit.
Flags that no longer mean anything (the lease of a settled Attempt, the token of
an ended one) are reset, to keep the state space small. A dropped session loses
messages; a crashed Worker loses everything. Planning from a stale snapshot is
covered by letting `AssignOpen` plan any Pool whatever its readiness. Remote
accepts any Slot count; today's Worker reports 0 or 1.

### PoolSupervisor

*State.* The fields of `PoolState`; the holder of `op_lock` with the await it is
at and the process its `TerminatingProcessGuard` owns; how far each Attempt's
task got, which child its backend handle belongs to and whether its
`force_reclaim` is armed; the job of the child and whether it still answers
(`hung`); what Remote believes; whether a process tree was abandoned (`orphan`).

*Actions.* A step goes from one await to the next, since `PoolState` changes
only between them: taking `op_lock` up to the first await (`Acquire`, `Recover`,
`ForceReclaim`, `CheckLiveness`, `CheckRestart`, `Refresh`, `ReleaseIdle`,
`Shutdown`), the outcomes of the awaits (`TerminateOk`, `TerminateFail`,
`ShutdownFail`, `Spawn`, `SpawnFail`, `ProbeReady`, `ProbeUnready`, `ProbeFail`;
`RefreshOk` and `RefreshFail` for the probe of `refresh_capabilities`,
`ReleaseOk` and `ReleaseRefused` for the request of `release_idle`), the
destructors (`SessionDrop*`, `Finish`, `NoBackend`), and the child (`StartJob`,
`CancelJob`, `JobTerminal`, `JobDropped`, `ChildExits`, `ChildHangs`). A child
that hangs lives and answers nothing more: the probe of a start fails by its
timeout, the requests of a refresh and of a release, which have none, wait with
`op_lock` held until the child exits or the session drops.

*Abstractions.* `SessionDrop` aborts all tasks at once. One maintenance task
serves all Pools of a Worker, one after the other, so a hung child also stops the
maintenance of the other Pools; the model has one Pool and does not show that. A
`force_reclaim` awaited by its own task is treated
like the spawned one, which allows more. The model, accelerator and probe data
are reduced to "ready or not".

### Delivery

*State.* The row (`state`, `placement`, `size`, `committed`, `due`); the Worker's
directory, which chunk of it went bad, whether its hour is over on the Worker's
clock, its AttemptResult; the control session and the messages on it; `rpc`, the
DeliverArtifact call each DeliverRequest led to; the deliveries map
(`subscriber`) and its channel; `dl`, each client's request and the task spawned
for it, with the offset, the resume attempts, the running hash, the chunk held
back and what the response has carried.

*Actions.* A step goes from one await to the next:

| Code | Actions |
|---|---|
| Worker `publish`, `publish_output`, `expire`, `reconcile_on_startup`, `discard_output` | `Publish` (three steps), `ReportOutput`, `WorkerExpire`, `WorkerRestart`, `WorkerDiscards` |
| Worker `deliver_artifact` | `WorkerDelivers`: it reads the whole file before it calls |
| `try_handle_attempt_result` | `RecordOutput`, `DiscardWorkerOutputs` |
| `download_for_tenant` and its two branches | `Lookup`, then `BeginFails`, `Redirect`, `BeginDelivery` or `BeginAbandoned` |
| `stream_worker_local`, `request_worker_delivery` | `Subscribe`, `RequestDelivery`, `RequestOffline`, `RequestBackpressured` |
| `drain_worker_chunks` | `DrainTimeout`, `DrainData`, `DrainComplete`, `DrainFailed`, `Persist` |
| the final transactions | `Finish`, `TransactionFails` |
| `TransferApi::deliver_artifact` | `RpcStart`, `RpcChunk`, `RpcComplete`, `RpcError`, `RpcEnd` |
| `expire_due` | `ExpireDue` |
| the environment | `Elapse`, `Rot`, `SessionDrop`, `SessionRegister`, `ClientLeaves`, `RemoteRestart` |

*Abstractions.* The content is a number of chunks, each good or bad, and a
digest matches when all chunks came once, in order and good. Channels are
unbounded; the real ones hold four chunks and a full one only delays its sender.
The Worker is the repository's own: it declares what it stored and verifies
what it sends from the start, so the branches in which Remote rejects a manifest,
a token or a chunk do not occur, and `DeliveryChunk::Rejected` is left out.
Whether a lost control message was read by the Worker before the session dropped
is open (`SessionDrop` keeps any subset). A DeliverRequest has the number of
resume attempts before it, which is what tells calls apart.

### Schedule

*State.* `order` is the queue by `created_at`, with the Generations that run;
`where`, `attempts` and `excluded` are their Attempts and exclusions, `age` their
ticks in the queue; `capability` (models, LoRAs, shape limits), `slots`, `ready`
and `resident` are the rows of the Pools, as last reported, and `online` their
sessions; `plan` is what the pass under way has still to assign, with the
capability each assignment was planned for.

*Actions.* `Pass` is `try_schedule_tenant` up to its plan: `PlanAssignments`
gives each ready Pool with a session the choice of `select_batch` among the
oldest `FetchLimit` queued Generations, without seeing the choices of the
others. `Assign` is one `try_assign`: it checks again the exclusions, the Slots
of the row, the state and the Attempts of the Generation, and the session; it
does not look again at the order, at readiness or at the capability. `Report` is
`upsert_pools` for a Pool in the report, whose whole row is rewritten with any
capability of `Reports`; a Pool that is not ready advertises no Slots, and the
CHECK refuses fewer Slots than are claimed. `Withdraw` is `upsert_pools` for a
Pool that is left out: the row goes, and the cascade takes its exclusions and its
Attempts, whose Generations stay as they are (`Lost`). `Outcome` stands for
Lifecycle's ends of an Attempt; `ExpireStarved`, `CancelQueued`, `Submit` and
`Session` are the rest. `Admits` is computed from the request, the manifest and
the row as `Requirement::for_generation`, `SamplingPreset::resolve` and
`SlotCapability::admits` do, so it is not a parameter here.

*Abstractions.* Time is a tick; an age above twice the maximum makes no
difference. A Generation that ended may be submitted again and stands for a new
one, so the queue never dries up. Each Pool has a Worker of its own here, so a
report is about one Pool. The Worker of the repository advertises at most one
Slot for a Pool, so the companions `select_batch` looks for exist in the code but
not in practice; `Reports` may give any number, and the proofs hold for it. What
rejects a lease whose Pool does not admit it any more is the Worker (`Reject`).

### Admission

*State.* `call`, the transactions of `admit` with the statement they are at;
`gen`, the committed Generations; `row`, `bytes` and `doomed`: the Artifacts'
rows, whether their bytes are there, and the objects a task is about to delete;
`uploading`, `live` (Generations with a live Attempt) and `fetch`.

*Actions.* One step per statement: `Replay`, `CountQueue`, `Resolve`, `CheckRow`
and `Head` for each input, `InsertAndLink` and `Claim` (the UPDATE finds its rows
locked, waits and tests them again), `RecordKey`, `Commit` with or without an
answer, `RollBack`. Around them `CreateInput`, `PutObject`, `BeginUpload`,
`FinishUpload`, `Elapse`, `ExpireDue` with `DeleteObject` after its commit,
`Terminate`, the fetches of a Worker chunk by chunk, and `Restart`.

*Abstractions.* A request is the set of its inputs, which also stands for its
digest. Every Artifact has `Total` bytes, and a chunk `ChunkBytes`. The keys of a
request without one are left out: nothing would be checked for it that is not
checked for a key used once.

*Refinement.* `Atomic` maps the committed rows to `AdmissionSpec`: the key of a
committed Generation is bound to its request, a linked Artifact is taken.

### Watch

*State.* The row as the number of changes made to it, whether it is terminal and
whether the outputs are recorded; `log`; `live`, the broadcast channel; `task`,
where each recorder is between its commit, the append and the publication;
`watch`, each stream with its receiver, its snapshot, its replay and what its
client was told.

*Actions.* `Transition` commits a change; `Refetch`, `AppendEvent` or
`AppendFails` (which broadcasts a discontinuity), `Publish` and `PublishOutput`
record it. `Assign` appends within its own transaction and `Cancel` changes the
row of a queued or running Generation without an event, as the code does.
`Subscribe`, `ReadRow`, `ReadLatest`, `ReadOutputs`, `LoadSince` and `SendReplay`
open a stream, `Receive`, `Lag`, `RefreshRow` and `RefreshOutputs` follow it,
`Leave` and `Restart` end it.

*Abstractions.* An event is its kind and the number of the change it tells of.
The content of snapshots and progress is left out.

### Sessions

*State.* The Worker's row (`row`) and its lock, the calls of Enroll and the
stored credential, the Worker process (`wpc`, `wcred`, `wsess`), Remote's task of
each stream (`pc`, `scred`, `inbox`, `busy`), the registry and the graceful
shutdown (`draining`).

*Actions.* `EnrollCall`, `EnrollCommit`, `EnrollStore` with their losses
(`EnrollDropped`, `EnrollAbandon`); `RevokeWorker`, `Uninstall`; `StartWorker`,
`Connect`, `ReceiveAck`, `SendMessage`, `NoticeEnd`, `StopWorker`; the handshake
`Authenticate`, `LockWorker`, `MarkSession`, `Register`, or `DropHandshake`; the
pump `Dispatch`, `FinishMessage`, `PumpEnds`, `EndSession`; `BreakStream`,
`Shutdown`, `RestartRemote`.

*Abstractions.* A credential is named by its enrolment. The messages are a
heartbeat, which a dead credential ends the session for, and a report, which
stands for all others: they are dropped. The columns the code writes and never
reads are left out.

### Processes

*State.* `group`, the process table by group with its leader and a helper that
may outlive it; `file`, the identity file; the version of the executable; where
the Worker is with its child; which process each of the three callers of
`terminate_group` is responsible for and how far it got. `recorded` is a ghost.

*Actions.* `StartWorker`, `ReadMarker`, `Corroborate`, `StaleDone` and
`StaleFailed` are `kill_stale`; `Spawn`, `Record`, `RecordFails`, `StopChild`,
`StopDone`, `StopFailed`, `StopInterrupted` and `Shutdown` the supervisor;
`Probe*` the diagnose command; `Term` and `Kill` the two signals. The rest is the
operating system: exits, helpers, strangers that get a number, upgrades, crashes.

*Abstractions.* Unix only. What `ps` tells of a process is a serial number that
differs between two processes with one pid. `FastReuse` says whether a number
may be given out again in the moments between a check and the signal; with
`FALSE`, as in the runs, it is not. With `TRUE` `NeverBlind` fails, as it must for
any program that signals by number.

## 3. Model checking

| Run | Instance | Shows |
|---|---|---|
| `retry` | 1 Generation, 2 Attempts, 2 Pools of 2 Workers (one may be withdrawn, one may be not ready), out-of-memory failures and timeouts | `AcceptedResult`, `InputsKept`, `FollowsAttempts` (`RunningBacked`, `PermanentFailureFinal`), `RetryDiscipline` (`ExclusionRespected`, `AttemptNumbers`) |
| `contention` | 2 Generations, 1 Pool whose Slot count changes among 0, 1 and 2 | `Serialised` (`SingleExecution`, `LockDiscipline`), `SlotAccounting` |
| `settling` | 1 Generation, 2 Attempts, 1 Pool that may be withdrawn, crashes of the backend, fairness | `AttemptSettles`, `CancelFinishes`; `Lifecycle` implements `QueueSpec` (`RefinesQueue`) |
| `schedule` | 2 Generations submitted again and again, 2 Pools of which one comes and goes, is withdrawn and changes between two capabilities, fairness | `LeasesServed` (`ScheduleInv`: `TypeOK`, `SlotsKept`; and `StartsWhereServed`), `NoStarvation` |
| `admission` | 2 calls, 2 keys, an object and a remote-local input, requests with both or none, 1 fetch, Artifacts of one and a half chunks, fairness | `Idempotent` (`OneGeneration`, `AnswersAgree`), `InputsPresent`, `InputsServed`, `AdmissionEnds`; `Admission` implements `AdmissionSpec` (`AdmissionAtomic`) |
| `watch` | 2 recorders, 1 client, a channel of 1 event, 3 changes, fairness | `WatchInv` (`ToldIsDurable`), `NoneMissed`, `OutputsAnnounced`, `OutputsReach` |
| `sessions` | 2 enrolments, 2 streams, 1 break or restart, fairness | `SessionInv` (`RegisteredRuns`), `HandlersAuthorized`, `RegistrationKept`, `CutOff`, `Reconnects` |
| `pool` | 2 Attempts, fairness | `ChildOwned`, `SlotSafe` (`SlotSerial`, `SlotReturned`), `ReclaimScoped`, `Recovers` |
| `processes` | 2 numbers, 3 children, 2 versions of the executable | `SignalInv` (`NeverBlind`), `OrphansExplained`, `RecordKept` |
| `delivery` | 2 clients, Artifacts of 0 and 2 chunks in either placement, 3 resume attempts, fairness | `OneShot`, `StreamExact` (`BodyExact`, `ResumeAgrees`), `DeliveredIsConsumed`, `AvailableBacked`, `DeliveryEnds` |

*Why the bounds are enough.* The races are between the transactions of one
Attempt, between an Attempt and the one that replaces it, and between two
Generations at one Pool: two Attempts, two Generations and MaxAttempts = 2 (the
limit is reached and retries happen below it) let each of them occur. Two Pools
are needed only to see an exclusion move a retry. A Slot count that falls from 2
to 1 while both are claimed meets the CHECK on `claimed_slots`. In
`PoolSupervisor` an Attempt whose child was replaced meets the one that uses the
new child; a third adds nothing to that (the proofs cover any number). Attempts
and Generations are interchangeable, so the safety runs use their symmetry; the
liveness runs do not. In `Delivery` two clients are a race for the row; two
chunks are one that is relayed and recorded and one that is held back, so a
resumption starts in the middle; no chunk is the empty Artifact; and three
resume attempts (the code allows five) let a call fail, be resumed twice and
exhaust the budget.

In `Schedule` one Generation is favoured by everything (resident model, priority,
both Pools) and the other by nothing, which is what starvation takes; the two
capabilities of the second Pool differ in what they admit, so a plan made for one
meets the other. In
`Admission` two calls are a retry, a reuse of a key or a race for inputs; the
capacity of 1 is reached. In `Watch` a channel of one event makes a receiver lag
as soon as two are published, and three changes let one fall before, one between
and one after the statements that open a stream. In `Sessions` two streams are a
session and its successor, whose names are used again, and two enrolments a
credential and the one that replaces it. In `Processes` two numbers and three
children put the child of a crashed run beside that of the next, or a stranger
in the place of the first.

`CHECK_DEADLOCK FALSE` is set where the system may stop: a Worker that was shut
down (`PoolSupervisor`), all Submits answered (`Admission`), the last change told
(`Watch`), a Worker revoked and its last enrolment used (`Sessions`). The other
models are checked for deadlock and have none.

### Fairness

`Lifecycle`: an open transaction commits or aborts; the sweeps run periodically,
so whatever stays due is swept; a session handles its messages in order; the
Worker finishes an Attempt, because the executor has its own timeout, unless the
child hangs (`WorkerHang`): then the reclaim 45 seconds later may wait for
`op_lock` for ever, and the Attempt is stranded; a lease nobody heartbeats
lapses. Nothing forces a stranded Attempt's heartbeat to stop, a client to
cancel, or a Worker to stay connected.

`PoolSupervisor`: an operation that terminates, starts or probes a new child goes
on, since these awaits have timeouts (weak fairness). A refresh or a release that
waits for the child goes on if the child answers or exits; nothing makes it go on
while the child hangs, for these requests have no timeout. The
maintenance tick comes every 30 seconds of a session, and neither the host nor
dropping sessions prevent for ever that a child is terminated, started and probed
(strong fairness: these steps are enabled again and again, with interruptions
between). Without that assumption recovery cannot be promised, and the code does
not promise it. `ReclaimSpec`, for `ReclaimEnds`, adds that a `force_reclaim` gets
`op_lock` if it becomes free again and again, as the lock's queue is fair.

`Delivery`: a spawned task is polled until it returns, its transactions end one
way or the other and its sleeps elapse (weak fairness of `TaskStep`). Nothing is
assumed of the Worker, its session, the call, the sweep or the client, with one
exception: a client that neither reads nor disconnects blocks the task at
`tx.send`, which has no timeout, and `Delivery` leaves that client out.

`Schedule`: the loop ticks every second and assigns what it planned, the sweep
runs every few seconds, time passes, and a running Generation ends, by its
deadline at the latest, as `AttemptSettles` says (an Attempt that is stranded
without one is left out here). Only a Pool in `Steady` is assumed to stay
connected, ready and as capable as it is, and only for a Generation it may run is
anything promised.

`Admission`: a transaction that can go on does; one that waits for a lock goes on
when the lock is released. `Watch`: a handler that committed goes on to record,
and a stream is read until its client leaves.

`Sessions`: the tasks of Remote run and are granted the row lock in turn (strong
fairness: other handlers come between), the Worker goes on and its ticker sends
heartbeats, a graceful shutdown ends. Nothing is assumed of the operator.

## 4. Where the code and its documentation disagree

Two of these are runs of the project:

| Run | Property | What happens |
|---|---|---|
| `cancel_race` | `CancellingBacked` | a cancellation commits between the unlocked read and the UPDATE of `finish_and_decide`; `requeue` matches nothing and the Generation stays `cancelling` with no Attempt to settle it |
| `head_of_line` | `NoStarvation` | Generations whose only Pool is offline, or not ready when a lease is tried, fill the fetch limit of a pass (500); the ones behind them are never scheduled although an idle Pool could run them, and the sweep does not expire the ones in front because their Pool's row is still ready |

The others are kept as configurations that can be checked by hand with
`tlc -config X.cfg M`; TLC finds the counterexample of each:

| Configuration and module | Property | What happens | What the repository says |
|---|---|---|---|
| `CancelLost`, `MCLifecycle` | `CancelTakesEffect` | a retry requeues the Generation between the two UPDATEs of `cancel_generation`; the call succeeds and nothing is cancelled | ADR 0003: "Queued cancellation terminates immediately; running cancellation enters `Cancelling`" |
| `StaleAck`, `MCLifecycle` | `LiveIsActive` | a late acknowledgement of an expired Attempt ends a Generation whose retry is live | `state.rs` on `is_active` |
| `Withdrawal`, `MCLifecycle` | `AttemptsRetained` | a report without a Pool deletes the records of its Attempts | ADR 0008: "PostgreSQL retains Generation and Attempt metadata" |
| `Stranded`, `MCLifecycle` | `StrandedResumes` | after a reconnect the Worker heartbeats Attempts whose tasks were aborted with the old session | `lease.rs`: Workers "may resume the same Attempt after reconnecting before expiry" |
| `PoolReuse`, `PoolSupervisor` | `CancelledBeforeReuse` | the Slot is freed with the Attempt's task while the child still works on its cancelled job | ADR 0005: the managed child is terminated "before the Pool is reused" |
| `Unanswered`, `PoolSupervisor` | `ReclaimEnds` | the child hangs; `refresh_capabilities` probes it (`pool.rs:572`), without a timeout and holding `op_lock`; the `force_reclaim` of the cancelled Attempt waits for `op_lock` for ever and the child is not terminated | `executor.rs:5`: "the owning native process tree is forcibly reclaimed after a bounded grace period" |
| `StaleCapability`, `MCSchedule` | `MismatchExcluded` | a report between the plan and the assignment takes a model away, or lowers a limit; `try_assign` does not look at the capability again, and the Attempt is created | ADR 0003: "Known tenant, manifest, LoRA, modality, and configured shape mismatches are excluded before an Attempt." |
| `StrandedDelivery`, `Delivery` | `NoneStranded` | a restart of Remote, a failed final transaction or a handler dropped during its commit leaves the row `delivering`, which `expire_due` skips by design | `db/artifacts.rs`: "No `delivering` row is stranded forever by this exclusion" |
| `EndTold`, `Watch` | `EndTold` | CancelGeneration publishes nothing, so a client that follows the Generation is not told that it ended | `expiry.rs` on publishing "the snapshot every other state-changing caller publishes after its own transition" |
| `Capacity`, `Admission` | `QueueCapacity` | two Submits count the queue before either inserts | `tenant.rs`: "Maximum number of simultaneously nonterminal Generations" |
| `Unregistered`, `Sessions` | `OnlineWhileServing` | two handshakes commit in one order and register in the other; when the older session ends, it takes the registration away from a Worker that is served | `registry.rs` on `is_online`: "Whether `worker` currently holds a live control session." |
| `OneChild`, `Processes` | `OneChild` | a Worker that crashes between the spawn and the record of a child does not find it again and starts a second one | ADR 0005: "runs one private inference child at a time" |

A smaller one: `expire_starved_queue` counts ready Pools as candidates, while its
comment (`expiry.rs:391`) speaks of registered ones.

Some of them show in the properties that hold: `AttemptSettles` and
`CancelFinishes` except Attempts that are stranded before Remote set them a
deadline, and `RunningBacked` and `CancelFinishes` except withdrawn ones.
`Recovers` has two exceptions: a child that was unloaded because it was idle is
started again only by a lease, and Remote leases only to a Pool that is ready;
and a child that hangs for ever after its start keeps the maintenance task
waiting. `StartsWhereServed` speaks of the capability at the time of the plan,
because of `StaleCapability`. `DeliveryEnds` excepts the
deliveries of `StrandedDelivery` (`severed`), and `DeliveredIsConsumed` those in
which a transaction failed: when the record of the last chunk fails, the code
marks an Artifact lost whose bytes the client has. `OrphansExplained` excepts a
child that was never recorded and one recorded under another executable, which
`kill_stale` does not own. `NoStarvation` promises nothing while only Pools that
come and go may run the Generation, nor if a Pool is withdrawn and reported again
without end: its exclusions go with its row and a rejected lease gives the
Attempt back, so the oldest Generation can be planned for every Pool, go to that
one and be rejected, over and over, while the steady Pool's turn is lost to the
plan of the same Generation.

## 5. Proofs

Every safety property and every action property a passing run checks, and both
refinements, are theorems: eight modules `*Proofs`, each from the named
assumption of its module alone unless it says otherwise. An induction carries
each module; the sections name the strengthening and why it is needed.

### Lifecycle

From `LifecycleAssumption`: non-empty sets of Generations and Pools, finitely many
Attempts, natural Slot counts, at least one Attempt allowed; any Owner and
Capable maps.

* `TypeCorrect`: `TypeOK` is inductive by itself.
* `LockingCorrect`: `Serialised`, that is `SingleExecution` and
  `LockDiscipline`. Neither is inductive alone. That a Generation has one live
  Attempt when a lease commits rests on the Generation still being queued, which
  `LockDiscipline` says of the open transaction; that it is still queued rests on
  no live Attempt being there to change it, which is `SingleExecution`. Their
  conjunction `LockInv` is inductive. `StepCases` first reduces the next-state
  relation to the steps that can matter; most handlers are `Quiet`.
* `AcceptanceCorrect` (`AcceptedResult`), `InputsCorrect` (`InputsKept`) and
  `FollowsCorrect` (`FollowsAttempts`), by `OutcomeInv` relative to `TypeOK` and
  `LockInv` (`OutcomeInvariance`). The strengthening `UntouchedRows` (an Attempt
  that was never leased has no failure) is needed because a permanent failure on
  a fresh row would make `PermanentFailureFinal` false when the row is leased.
* `RetryCorrect` (`RetryDiscipline`), by `RetryInv`: what the assignment read when
  it opened is still true when it commits (`AssignClear`: no exclusion, the next
  number); a rejection is remembered as long as its Pool can be leased
  (`RejectionsKept`); and a live Attempt has the latest number (`LiveLatest`), so
  that rolling `attempt_count` back after a rejection frees the number of the
  deleted row and no other.
* `SlotsCorrect` (`SlotAccounting`), by `SlotInv` with the library's theorems on
  finite sets. The count is kept for Pools that are not registered yet as well,
  since a report makes such a row count; a Pool that was deleted is exempt, as
  its row is gone. `LockInv` gives that a settled Attempt was live before, so that
  the decrement matches one element.
* `QueueRefined` (`RefinesQueue`): the initial states map to initial states, and
  under `TypeOK` and `LockInv` each transaction is an abstract step
  of its Generation and Attempts (`QueueFrame`), everything else a stutter.

### PoolSupervisor

From `PoolAssumption`, for every set of Attempts: `PoolTypeCorrect`,
`ChildNeverLost` (`ChildOwned`), `SlotsCorrect` (`SlotSafe`: `SlotSerial` and
`SlotReturned`) and `ReclaimCorrect` (`ReclaimScoped`), by one invariant `IInv`.
Besides the properties it says which operation can be at which await, that a
refresh or a release under way has a child and its backend, and that the
Attempt an operation works for still waits (`HolderInv`: otherwise a finished
recovery could put a rejected Attempt into `busy`), and that a backend handle is
kept only for a child that needs no termination (`BackendInv`: otherwise a
refresh could declare a child ready that is about to be killed).

### Delivery

From `DeliveryAssumption`, for every set of clients, all sizes and every positive
resume budget:

* `DeliveryTypeCorrect`. `TypeOK` is not inductive: that a DeliverRequest has a
  number below the budget needs `BudgetLeft` (a task that is not at its final
  transaction has attempts left). One lemma per group of variables; the sets
  that depend on `size` do not change because `size` does not (`SizeFixed`).
* `OneShotCorrect` (`OneShot`), by `OneShotInv`: whoever is served has taken the
  row away from `available` for good (`TakenAway`), and an output is recorded
  once (`RecordedOnce`), so no step brings the row back.
* `BackedCorrect` (`AvailableBacked`), by `BackedInv` relative to `OneShotInv`: a
  DiscardOutput is under way only for an output that is not offered
  (`DiscardFinal`), which for the ones sent by a delivery follows from
  `TakenAway`; and a result on its way has its output in the store
  (`SentBacked`).
* `StreamCorrect` (`StreamExact`) and `ConsumedCorrect` (`DeliveredIsConsumed`), by
  `PipeInv` and `EndInv`. The chunks pass the Worker's call, the channel and the
  chunk that is held back before they reach the body, and a call may die at any
  of these. The invariant is that there is one source at a time, a DeliverRequest
  or the call it led to (`SingleSource`); that the channel goes on at the offset
  of the task and the source at the end of the channel (`Flow`); that a task about
  to ask again has no source left (`Quiet`); and that body, held chunk, offset and
  the row's `committed_offset` agree (`Place`, `Relayed`). The empty Artifact has
  no chunk to count and is carried along as a case.

### Watch

From `WatchAssumption`, for every number of tasks and watchers, every channel
capacity and length of the log: `WatchCorrect` (`WatchInv`), `NoneMissedCorrect`
(`NoneMissed`) and `OutputsCorrect` (`OutputsAnnounced`). `NoneMissed` speaks of a
stream that is being followed; its inductive form `Covered` starts when the
handler reads the row, because that is where the snapshot is fixed, and it holds
then because the handler subscribed first and a task logs before it publishes.
`ToldIsDurable` needs that what is in a channel or a replay is in the log
(`Durable`). `Announced` extends `OutputsAnnounced` to the statements between the
read of the outputs and the stream.

### Admission

From `AdmissionAssumption`, for every number of calls, keys, Artifacts and
fetches:

* `IdempotenceCorrect`, `InputsPresentCorrect` and `InputsServedCorrect`, by
  `AdmitInv`, which says what an open transaction may rely on until it commits:
  the key it inserted has no owner and no rival (`KeyInserted`); an input it
  checked has its object unless it expires, which the claim will notice
  (`Checked`); the rows it claimed stay as they are and its own (`Claimed`).
  `DoomedGone` keeps the deletion of objects away from inputs that are in use,
  and `LinkedAsked` and `StreamLinked` tie a fetch to a Generation that still has
  its inputs.
* `AdmissionRefines` (`AdmissionAtomic`): only the commit of an admission and the
  end of a Generation are seen in `AdmissionSpec` (`Unseen`); the refinement mapping
  is a CHOOSE over the owners of a key, which `OneGeneration` makes unique
  (`Binding`).

### Sessions

From `SessionsAssumption` and `NobodyAssumption`: `SessionsCorrect`
(`SessionInv`), `AuthorizationCorrect` (`HandlersAuthorized`) and
`RegistrationCorrect` (the action property `RegistrationKept`). The properties
are inductive together once it is known that only a session that is served has a
message in hand (`BusyServes`).

### Processes

From `ProcessesAssumption` and `NoPidAssumption`: `SignalsCorrect` (`SignalInv`),
`OrphansCorrect` (`OrphansExplained`) and `RecordKeptCorrect` (the action property
`RecordKept`), with the hypothesis `~FastReuse`: the operating system does not
give a process number out again between the check of `verify_ownership` and the
signal. Signals go to a number, so with `FastReuse` one could reach whoever has
the number by then, and `NeverBlind` is false; the code has no means against it. The invariant relates the identity file and the process table: a serial
number names one process and the file the child that was recorded under it
(`RunsUnique`); a number a task relies on is free or its own child (`Held`); a
live child recorded by this executable is the one in the file (`Known`), so once
the start has dealt with the file there is none left (`Alone`).

### Schedule

From `ScheduleAssumption` (finitely many Generations, natural Slot counts,
priorities 0 to 9, as the table's CHECK says), for every set of Pools and of
capabilities they may report: `ScheduleCorrect` (`LeasesServed`: the invariant
`ScheduleInv` and the action property `StartsWhereServed`). `select_next` is a
CHOOSE of a first element, which is in the set only if there is a first:
`OldestFirst`, `HighestFirst` and `WarmestFirst` prove that for the three orders,
from the well-ordering of the naturals. From it follows that a plan holds only
what the Pools admit when it is made (`PlanAdmits`), which `PlanInv` keeps until
the assignment whatever is reported, because a plan names the capability it was
made for. `SlotsKept` is a count of Attempts: an assignment adds one where one
Slot more is free, the CHECK refuses a report with too few, and a withdrawal
takes the Attempts with the row (`ClaimedFewer` and the library's theorems on
finite sets). That a Pool without a row has no Slots is in `PlanInv`; with
`SlotsKept` it makes the one test of `claim_slot` stand for readiness and
existence (`Starts`).

### Only model-checked

* Liveness (`AttemptSettles`, `CancelFinishes`, `Recovers`, `DeliveryEnds`,
  `OutputsReach`, `AdmissionEnds`, `CutOff`, `Reconnects`, `NoStarvation`): proofs
  under fairness need ENABLED, which is outside the prover's reach.
* The properties of section 4, which do not hold.

## 6. What is not modelled, and the plan

Next, proofs of what the composition of two modules rests on: the facts one
model assumes of another (a Worker advertises one Slot per Pool, the child of
`PoolSupervisor` and the one of `Processes`), and smaller leaves where a step
still cites more than it needs.

Left out for good: configuration, command line, telemetry, static pages, the
catalog's single-statement upserts, the validation of generation parameters, the
generated wire format and the bindings to native inference libraries, which are
data or I/O without a protocol; the Job Objects of Windows; hashing and token
formats; the wording of errors and logs; lock-order deadlocks, which PostgreSQL
detects and turns into failed transactions; and the number of rows a sweep takes
at a time in `Lifecycle`, which no small instance reaches (`Schedule` has the
limits of its two queries as constants).
