--------------------------- MODULE PoolSupervisor ---------------------------
(***************************************************************************)
(* One Device Pool of a Worker: its native inference child, its Slot, and  *)
(* the tasks that use them (pool.rs, executor.rs, infer.rs).  The Pools of *)
(* a Worker share one maintenance task and nothing else.                   *)
(*                                                                         *)
(* Every operation on the child runs under the Pool's op_lock, which is    *)
(* held across awaits; the fields of PoolState change between awaits, so a *)
(* step goes from one await to the next.  When the control stream drops,   *)
(* the session's tasks are aborted at whatever await they have reached,    *)
(* and only their destructors run.                                         *)
(***************************************************************************)
EXTENDS Naturals, FiniteSets

CONSTANTS Attempts,   \* Attempts leased to the Pool
          NoAttempt

ASSUME PoolAssumption == NoAttempt \notin Attempts

VARIABLES
  \* PoolState
  proc,      \* process: "none", or whether the leader "runs" or "exited"
  backend,   \* backend.is_some()
  ready, total, free,
  restart,   \* restart_requested
  pending,   \* termination_pending
  busy,
  \* the holder of op_lock
  holder,    \* the operation
  who,       \* the Attempt it works for
  at,        \* the await it is at
  held,      \* the process its TerminatingProcessGuard owns
  \* the tasks of the Attempts
  att,       \* how far accept_lease and execute have got
  handle,    \* whether its backend handle is of the current child
  reclaim,   \* its force_reclaim task
  \* the child: the Attempt whose job is active, and how far the job has got
  job, jobstate,
  hung,      \* it lives but does not answer requests any more
  \* outside
  reported,  \* what Remote believes of ready
  down,      \* the Worker is shutting down
  orphan     \* a process tree was abandoned without being terminated

stateVars == <<proc, backend, ready, total, free, restart, pending, busy>>
opVars == <<holder, who, at, held>>
taskVars == <<att, handle, reclaim>>
jobVars == <<job, jobstate, hung>>
outVars == <<reported, down>>
vars == <<proc, backend, ready, total, free, restart, pending, busy,
          holder, who, at, held, att, handle, reclaim, job, jobstate,
          hung, reported, down, orphan>>
-----------------------------------------------------------------------------
TypeOK ==
  /\ proc \in {"none", "runs", "exited"} /\ held \in {"none", "runs", "exited"}
  /\ backend \in BOOLEAN /\ ready \in BOOLEAN
  /\ total \in {0, 1} /\ free \in {0, 1}
  /\ restart \in BOOLEAN /\ pending \in BOOLEAN
  /\ busy \in SUBSET Attempts
  /\ holder \in {"none", "startup", "ensure", "liveness", "refresh", "idle",
                 "reclaim", "shutdown"}
  /\ who \in Attempts \cup {NoAttempt}
  /\ at \in {"none", "start", "probe", "terminate", "refresh", "release"}
  /\ att \in [Attempts -> {"none", "waiting", "acquired", "preparing",
                           "executing", "done"}]
  /\ handle \in [Attempts -> {"none", "current", "old"}]
  /\ reclaim \in [Attempts -> {"none", "armed", "done"}]
  /\ job \in Attempts \cup {NoAttempt}
  /\ jobstate \in {"none", "running", "cancelled", "terminal"}
  /\ hung \in BOOLEAN
  /\ reported \in BOOLEAN /\ down \in BOOLEAN /\ orphan \in BOOLEAN

\* PoolSupervisor::start calls start_pool_process unless the Pool's models
\* cannot be scanned.
Init ==
  /\ proc = "none" /\ backend = FALSE /\ ready = FALSE
  /\ total = 0 /\ free = 0 /\ pending = FALSE /\ busy = {}
  /\ \/ holder = "startup" /\ at = "start" /\ restart = TRUE
     \/ holder = "none" /\ at = "none" /\ restart = FALSE
  /\ who = NoAttempt /\ held = "none"
  /\ att = [a \in Attempts |-> "none"]
  /\ handle = [a \in Attempts |-> "none"]
  /\ reclaim = [a \in Attempts |-> "none"]
  /\ job = NoAttempt /\ jobstate = "none" /\ hung = FALSE
  /\ reported = FALSE /\ down = FALSE /\ orphan = FALSE

Running == proc # "none" /\ ready
Child == IF proc # "none" THEN proc ELSE held
HasSlotLease(a) == att[a] \in {"acquired", "preparing", "executing"}

\* The block of assignments every path into termination or start begins with.
MarkUnready ==
  backend' = FALSE /\ ready' = FALSE /\ total' = 0 /\ free' = 0

\* Seeded fault: a SlotLease that is no longer in busy adds a Slot.
ReleaseCounts(gone) ==
  /\ busy' = busy \ gone
  /\ free' = IF ready THEN free + Cardinality(gone) ELSE 0

\* PoolState::release for the SlotLeases of these Attempts.
Release(gone) ==
  /\ busy' = busy \ gone
  /\ free' = IF busy \cap gone = {} THEN free ELSE IF ready THEN total ELSE 0

\* op_lock is taken and the operation stops at an await, or it is given up.
Hold(task, a, await) == holder' = task /\ who' = a /\ at' = await
Unlock == holder' = "none" /\ who' = NoAttempt /\ at' = "none"

\* state.process.take() into a TerminatingProcessGuard.
TakeProcess == held' = proc /\ proc' = "none"

\* The Attempt of an ensure_runtime_and_acquire_slot that returns an error is
\* rejected.
RejectWaiting ==
  att' = IF holder = "ensure" THEN [att EXCEPT ![who] = "done"] ELSE att
-----------------------------------------------------------------------------
(***************************************************************************)
(* ensure_runtime_and_acquire_slot                                         *)
(***************************************************************************)
\* Remote leases only to a Pool it believes ready.
LeaseArrives(a) ==
  /\ reported /\ ~down /\ att[a] = "none"
  /\ att' = [att EXCEPT ![a] = "waiting"]
  /\ UNCHANGED <<stateVars, opVars, handle, reclaim, jobVars, outVars, orphan>>

\* Before op_lock: the model is unknown or its assets changed.
RejectModel(a) ==
  /\ att[a] = "waiting" /\ ~(holder = "ensure" /\ who = a)
  /\ att' = [att EXCEPT ![a] = "done"]
  /\ UNCHANGED <<stateVars, opVars, handle, reclaim, jobVars, outVars, orphan>>

\* Recovery must wait for the active Attempt, or the Slot is taken.
RejectSlot(a) ==
  /\ holder = "none" /\ att[a] = "waiting"
  /\ IF Running THEN free = 0 ELSE busy # {}
  /\ att' = [att EXCEPT ![a] = "done"]
  /\ UNCHANGED <<stateVars, opVars, handle, reclaim, jobVars, outVars, orphan>>

\* Seeded fault: try_acquire does not look at slots_free.
FreeForAny == ready

\* PoolState::try_acquire
Free == ready /\ free # 0

Acquire(a) ==
  /\ holder = "none" /\ att[a] = "waiting"
  /\ Running /\ Free
  /\ free' = 0 /\ busy' = busy \cup {a}
  /\ att' = [att EXCEPT ![a] = "acquired"]
  /\ UNCHANGED <<proc, backend, ready, total, restart, pending, opVars, handle,
                 reclaim, jobVars, outVars, orphan>>

\* The child is not usable and idle: terminate what is left of it, then start.
Recover(a) ==
  /\ holder = "none" /\ att[a] = "waiting"
  /\ ~Running /\ busy = {}
  /\ restart' = TRUE /\ pending' = (proc # "none")
  /\ MarkUnready /\ TakeProcess
  /\ Hold("ensure", a, IF proc = "none" THEN "start" ELSE "terminate")
  /\ UNCHANGED <<busy, taskVars, jobVars, outVars, orphan>>

\* accept_lease asks for the backend handle after op_lock was released.
FetchBackend(a) ==
  /\ att[a] = "acquired" /\ backend
  /\ att' = [att EXCEPT ![a] = "preparing"]
  /\ handle' = [handle EXCEPT ![a] = "current"]
  /\ UNCHANGED <<stateVars, opVars, reclaim, jobVars, outVars, orphan>>

NoBackend(a) ==
  /\ att[a] = "acquired" /\ ~backend
  /\ att' = [att EXCEPT ![a] = "done"]
  /\ Release({a})
  /\ UNCHANGED <<proc, backend, ready, total, restart, pending, opVars, handle,
                 reclaim, jobVars, outVars, orphan>>
-----------------------------------------------------------------------------
(***************************************************************************)
(* The executor and the child's one job                                    *)
(***************************************************************************)
\* POST /execute: the child accepts one job and answers 409 while it has one.
StartJob(a) ==
  /\ att[a] = "preparing" /\ handle[a] = "current"
  /\ Child = "runs" /\ ~hung /\ job = NoAttempt
  /\ att' = [att EXCEPT ![a] = "executing"]
  /\ job' = a /\ jobstate' = "running"
  /\ UNCHANGED <<stateVars, opVars, handle, reclaim, hung, outVars, orphan>>

\* POST /cancel, or drain_events found the client gone.
CancelJob ==
  /\ jobstate = "running" /\ ~hung
  /\ jobstate' = "cancelled"
  /\ UNCHANGED <<stateVars, opVars, taskVars, job, hung, outVars, orphan>>

\* execute_blocking sends its terminal event, and only then drops the job.
JobTerminal ==
  /\ jobstate \in {"running", "cancelled"} /\ ~hung
  /\ jobstate' = "terminal"
  /\ UNCHANGED <<stateVars, opVars, taskVars, job, hung, outVars, orphan>>

JobDropped ==
  /\ jobstate = "terminal"
  /\ job' = NoAttempt /\ jobstate' = "none"
  /\ UNCHANGED <<stateVars, opVars, taskVars, hung, outVars, orphan>>

\* execute returns: the request failed or was refused, the event stream broke
\* or could not be read, whatever the job does, or its terminal event came.
\* Dropping the context drops the SlotLease.
Finish(a) ==
  /\ att[a] \in {"preparing", "executing"}
  /\ att' = [att EXCEPT ![a] = "done"]
  /\ Release({a})
  /\ UNCHANGED <<proc, backend, ready, total, restart, pending, opVars, handle,
                 reclaim, jobVars, outVars, orphan>>

\* 45 seconds after its cancellation, or after a timeout whose memory the
\* child did not release, run_backend asks for the child's termination.
ArmReclaim(a) ==
  /\ att[a] = "executing" /\ reclaim[a] = "none"
  /\ reclaim' = [reclaim EXCEPT ![a] = "armed"]
  /\ UNCHANGED <<stateVars, opVars, att, handle, jobVars, outVars, orphan>>

\* Seeded fault: force_reclaim does not check who has the Slot.
ReclaimsAny(a) == proc # "none" /\ a \in Attempts

\* force_reclaim acts only for the Attempt that has the Slot.
Reclaims(a) == a \in busy /\ proc # "none"

ForceReclaim(a) ==
  /\ holder = "none" /\ reclaim[a] = "armed"
  /\ Reclaims(a)
  /\ reclaim' = [reclaim EXCEPT ![a] = "done"]
  /\ restart' = TRUE /\ pending' = TRUE
  /\ MarkUnready /\ TakeProcess
  /\ Hold("reclaim", a, "terminate")
  /\ UNCHANGED <<busy, att, handle, jobVars, outVars, orphan>>

ReclaimMoot(a) ==
  /\ holder = "none" /\ reclaim[a] = "armed"
  /\ ~Reclaims(a)
  /\ reclaim' = [reclaim EXCEPT ![a] = "done"]
  /\ UNCHANGED <<stateVars, opVars, att, handle, jobVars, outVars, orphan>>
-----------------------------------------------------------------------------
(***************************************************************************)
(* terminate_managed_process and start_pool_process                        *)
(***************************************************************************)
\* The operations that start the child again once the old tree is gone.
Restarts == holder = "ensure" \/ (holder = "liveness" /\ restart)

\* terminate_tree succeeded: no process of the tree is left; mark_unready.
TerminateOk ==
  /\ at = "terminate"
  /\ held' = "none" /\ proc' = "none"
  /\ pending' = FALSE /\ busy' = {}
  /\ MarkUnready
  /\ job' = NoAttempt /\ jobstate' = "none" /\ hung' = FALSE
  /\ IF Restarts THEN Hold(holder, who, "start") ELSE Unlock
  /\ UNCHANGED <<restart, taskVars, outVars, orphan>>

\* terminate_tree failed: the guard puts the process back, to be terminated
\* by a later operation.
TerminateFail ==
  /\ at = "terminate" /\ holder # "shutdown"
  /\ proc' = held /\ held' = "none"
  /\ pending' = TRUE
  /\ MarkUnready
  /\ RejectWaiting /\ Unlock
  /\ UNCHANGED <<restart, busy, handle, reclaim, jobVars, outVars, orphan>>

\* shutdown has no guard: it ignores the failure and drops the handle.
ShutdownFail ==
  /\ at = "terminate" /\ holder = "shutdown"
  /\ held' = "none" /\ orphan' = TRUE
  /\ pending' = FALSE /\ busy' = {}
  /\ MarkUnready /\ Unlock
  /\ UNCHANGED <<proc, restart, taskVars, jobVars, outVars>>

\* start_infer_child stores the new child; a child stored before would be
\* abandoned, for a dropped handle does not kill its process.
Spawn ==
  /\ at = "start"
  /\ restart' = TRUE /\ pending' = TRUE
  /\ MarkUnready
  /\ proc' = "runs" /\ orphan' = (orphan \/ proc # "none")
  /\ handle' = [a \in Attempts |-> IF handle[a] = "current" THEN "old" ELSE handle[a]]
  /\ Hold(holder, who, "probe")
  /\ UNCHANGED <<busy, held, att, reclaim, jobVars, outVars>>

SpawnFail ==
  /\ at = "start"
  /\ restart' = TRUE /\ pending' = FALSE
  /\ MarkUnready
  /\ RejectWaiting /\ Unlock
  /\ UNCHANGED <<proc, busy, held, handle, reclaim, jobVars, outVars, orphan>>

\* probe_pool_process: the child answers within the startup timeout; a child
\* that is still not ready then is kept, not ready.
ProbeReady ==
  /\ at = "probe" /\ proc = "runs" /\ ~hung
  /\ restart' = FALSE /\ pending' = FALSE
  /\ backend' = TRUE /\ ready' = TRUE /\ total' = 1
  /\ IF holder = "ensure"
       THEN free' = 0 /\ busy' = {who} /\ att' = [att EXCEPT ![who] = "acquired"]
       ELSE free' = 1 /\ busy' = {} /\ att' = att
  /\ Unlock
  /\ UNCHANGED <<proc, held, handle, reclaim, jobVars, outVars, orphan>>

ProbeUnready ==
  /\ at = "probe" /\ proc = "runs" /\ ~hung
  /\ restart' = FALSE /\ pending' = FALSE
  /\ backend' = TRUE /\ ready' = FALSE /\ total' = 0 /\ free' = 0
  /\ busy' = {}
  /\ RejectWaiting /\ Unlock
  /\ UNCHANGED <<proc, held, handle, reclaim, jobVars, outVars, orphan>>

\* The identity could not be recorded, or no probe was answered in time.
ProbeFail ==
  /\ at = "probe"
  /\ RejectWaiting /\ Unlock
  /\ UNCHANGED <<stateVars, held, handle, reclaim, jobVars, outVars, orphan>>
-----------------------------------------------------------------------------
(***************************************************************************)
(* The maintenance tick, shutdown and the outside world                    *)
(***************************************************************************)
\* check_process_liveness terminates an exited child's tree, or one left over.
LivenessTerminates == proc = "exited" \/ (proc # "none" /\ pending)

CheckLiveness ==
  /\ holder = "none" /\ ~down
  /\ LivenessTerminates
  /\ restart' = (restart \/ proc = "exited") /\ pending' = TRUE
  /\ IF proc = "exited" THEN MarkUnready
                        ELSE UNCHANGED <<backend, ready, total, free>>
  /\ TakeProcess
  /\ Hold("liveness", NoAttempt, "terminate")
  /\ UNCHANGED <<busy, taskVars, jobVars, outVars, orphan>>

CheckRestart ==
  /\ holder = "none" /\ ~down
  /\ proc = "none" /\ restart
  /\ Hold("liveness", NoAttempt, "start")
  /\ UNCHANGED <<stateVars, held, taskVars, jobVars, outVars, orphan>>

\* refresh_capabilities holds op_lock over a probe of the child.  Unlike the
\* probe of a start this one has no timeout: the client has one for the
\* connection only.  A SlotLease may be dropped meanwhile.
Refresh ==
  /\ holder = "none" /\ ~down
  /\ proc # "none" /\ backend
  /\ Hold("refresh", NoAttempt, "refresh")
  /\ UNCHANGED <<stateVars, held, taskVars, jobVars, outVars, orphan>>

RefreshOk(passed) ==
  /\ at = "refresh" /\ proc = "runs" /\ ~hung
  /\ ready' = passed
  /\ total' = IF passed THEN 1 ELSE 0
  /\ free' = IF passed /\ busy = {} THEN 1 ELSE 0
  /\ Unlock
  /\ UNCHANGED <<proc, backend, restart, pending, busy, held, taskVars,
                 jobVars, outVars, orphan>>

RefreshFail ==
  /\ at = "refresh"
  /\ IF ready THEN ready' = FALSE /\ total' = 0 /\ free' = 0
              ELSE UNCHANGED <<ready, total, free>>
  /\ Unlock
  /\ UNCHANGED <<proc, backend, restart, pending, busy, held, taskVars,
                 jobVars, outVars, orphan>>

\* The last part of release_idle: the child is terminated.
Unload ==
  /\ pending' = TRUE
  /\ MarkUnready /\ TakeProcess
  /\ Hold("idle", NoAttempt, "terminate")

\* release_idle: a child that was idle for five minutes is asked, without a
\* timeout, to release its memory.
ReleaseIdle ==
  /\ holder = "none" /\ ~down
  /\ proc # "none" /\ busy = {}
  /\ IF backend
       THEN /\ Hold("idle", NoAttempt, "release")
            /\ UNCHANGED <<proc, backend, ready, total, free, pending, held>>
       ELSE Unload
  /\ UNCHANGED <<restart, busy, taskVars, jobVars, outVars, orphan>>

ReleaseOk ==
  /\ at = "release" /\ proc = "runs" /\ ~hung /\ job = NoAttempt
  /\ Unlock
  /\ UNCHANGED <<stateVars, held, taskVars, jobVars, outVars, orphan>>

\* It still has a job, or the request failed.
ReleaseRefused ==
  /\ at = "release"
  /\ Unload
  /\ UNCHANGED <<restart, busy, taskVars, jobVars, outVars, orphan>>

\* PoolSupervisor::shutdown, after the session and its tasks have ended.
Shutdown ==
  /\ holder = "none" /\ ~down /\ \A a \in Attempts : att[a] \in {"none", "done"}
  /\ down' = TRUE
  /\ restart' = FALSE /\ pending' = FALSE
  /\ TakeProcess
  /\ IF proc = "none"
       THEN MarkUnready /\ busy' = {} /\ Unlock
       ELSE Hold("shutdown", NoAttempt, "terminate")
              /\ UNCHANGED <<backend, ready, total, free, busy>>
  /\ UNCHANGED <<taskVars, jobVars, reported, orphan>>

\* The control stream drops: JoinSet and MaintenanceTask abort their tasks,
\* SlotLeases are released.
DropTasks ==
  /\ ~down
  /\ att' = [a \in Attempts |-> IF att[a] = "none" THEN "none" ELSE "done"]
  /\ UNCHANGED <<handle, reclaim, jobVars, outVars>>

SlotLeases == {a \in Attempts : HasSlotLease(a)}

\* No operation of the session holds op_lock (a force_reclaim that waited for
\* the 45 seconds is a task of its own) ...
SessionDrop ==
  /\ holder \in {"none", "reclaim"}
  /\ \E a \in Attempts : att[a] \notin {"none", "done"}
  /\ DropTasks /\ Release(SlotLeases)
  /\ UNCHANGED <<proc, backend, ready, total, restart, pending, opVars, orphan>>

\* ... or one does and is starting the child or waits for its answer: the
\* child stays as it is ...
SessionDropAwaiting ==
  /\ holder \in {"ensure", "liveness", "refresh", "idle"}
  /\ at \in {"start", "probe", "refresh", "release"}
  /\ DropTasks /\ Release(SlotLeases) /\ Unlock
  /\ UNCHANGED <<proc, backend, ready, total, restart, pending, held, orphan>>

\* Seeded faults: no TerminatingProcessGuard; one that forgets to say why.
GuardDropAbandons ==
  proc' = "none" /\ held' = "none" /\ pending' = TRUE /\ orphan' = TRUE

GuardDropSilent ==
  proc' = held /\ held' = "none" /\ pending' = FALSE /\ orphan' = orphan

\* TerminatingProcessGuard::drop
GuardDrop ==
  proc' = held /\ held' = "none" /\ pending' = TRUE /\ orphan' = orphan

\* ... or is terminating it: its guard puts the process back.
SessionDropTerminating ==
  /\ holder \in {"ensure", "liveness", "idle", "reclaim"} /\ at = "terminate"
  /\ DropTasks /\ busy' = busy \ SlotLeases
  /\ GuardDrop /\ MarkUnready /\ Unlock
  /\ UNCHANGED restart

\* The leader of the child's process tree exits, and its job with it.
ChildExits ==
  /\ Child = "runs"
  /\ proc' = IF proc = "runs" THEN "exited" ELSE proc
  /\ held' = IF held = "runs" THEN "exited" ELSE held
  /\ job' = NoAttempt /\ jobstate' = "none" /\ hung' = FALSE
  /\ UNCHANGED <<backend, ready, total, free, restart, pending, busy, holder,
                 who, at, taskVars, outVars, orphan>>

\* It accepts connections, or its kernel does, and answers nothing more.
ChildHangs ==
  /\ Child = "runs" /\ ~hung
  /\ hung' = TRUE
  /\ UNCHANGED <<stateVars, opVars, taskVars, job, jobstate, outVars, orphan>>

\* A capability report reaches Remote.
Report ==
  /\ ~down /\ reported # ready
  /\ reported' = ready
  /\ UNCHANGED <<stateVars, opVars, taskVars, jobVars, down, orphan>>
-----------------------------------------------------------------------------
AttemptNext ==
  \E a \in Attempts :
     \/ LeaseArrives(a) \/ RejectModel(a) \/ RejectSlot(a) \/ Acquire(a)
     \/ Recover(a) \/ FetchBackend(a) \/ NoBackend(a) \/ StartJob(a)
     \/ Finish(a) \/ ArmReclaim(a) \/ ForceReclaim(a) \/ ReclaimMoot(a)

ChildNext == CancelJob \/ JobTerminal \/ JobDropped \/ ChildExits \/ ChildHangs

OperationNext ==
  \/ TerminateOk \/ TerminateFail \/ ShutdownFail
  \/ Spawn \/ SpawnFail \/ ProbeReady \/ ProbeUnready \/ ProbeFail

AnswerNext ==
  \/ RefreshFail \/ ReleaseOk \/ ReleaseRefused
  \/ \E passed \in BOOLEAN : RefreshOk(passed)

MaintenanceNext ==
  CheckLiveness \/ CheckRestart \/ Refresh \/ ReleaseIdle \/ AnswerNext

SessionNext ==
  SessionDrop \/ SessionDropAwaiting \/ SessionDropTerminating \/ Report
    \/ Shutdown

Next == AttemptNext \/ ChildNext \/ OperationNext \/ MaintenanceNext
          \/ SessionNext

Spec == Init /\ [][Next]_vars

(***************************************************************************)
(* Fairness.  The maintenance tick comes every 30 seconds of a session.    *)
(* An operation that terminates, starts or probes a new child goes on, for *)
(* these awaits have timeouts; one that waits for the answer of a refresh  *)
(* or a release goes on if the child answers or exits, and for ever waits  *)
(* for one that hangs.  Neither the host nor a dropping session prevents   *)
(* it for ever from terminating, starting and probing a child.             *)
(***************************************************************************)
Fairness ==
  /\ WF_vars(OperationNext) /\ WF_vars(~hung /\ AnswerNext)
  /\ SF_vars(CheckLiveness) /\ SF_vars(CheckRestart) /\ SF_vars(Refresh)
  /\ SF_vars(TerminateOk) /\ SF_vars(Spawn) /\ SF_vars(ProbeReady)
  /\ SF_vars(RefreshOk(TRUE))

FairSpec == Spec /\ Fairness

\* A force_reclaim waits in the queue of op_lock, which is fair.
ReclaimSpec ==
  FairSpec /\ \A a \in Attempts : SF_vars(ForceReclaim(a) \/ ReclaimMoot(a))
-----------------------------------------------------------------------------
(***************************************************************************)
(* The Pool has one child at a time and never loses it: whichever await an *)
(* operation is aborted at, the process is owned by PoolState or by the    *)
(* guard of the operation that terminates it.  Only a shutdown that cannot *)
(* terminate it gives it up (ADR 0005).                                    *)
(***************************************************************************)
ChildOwned ==
  /\ orphan => down /\ proc = "none"
  /\ held # "none" <=> at = "terminate"
  /\ at \in {"start", "terminate"} => proc = "none"
  /\ (holder = "none") <=> (at = "none")

(***************************************************************************)
(* A Slot is offered only on a ready child nobody has acquired, and one    *)
(* Attempt at a time has it, although SlotLeases are dropped without       *)
(* op_lock, while the child is being replaced or probed.                   *)
(***************************************************************************)
SlotSerial ==
  /\ free = 1 => ready /\ busy = {}
  /\ ready => /\ total = 1 /\ backend /\ ~pending
              /\ proc # "none" \/ holder = "shutdown"
  /\ \A a, b \in busy : a = b

(***************************************************************************)
(* No Slot leaks: the Attempt in busy still has its SlotLease, so that     *)
(* dropping it, by an abort too, frees the Slot.                           *)
(***************************************************************************)
SlotReturned == \A a \in busy : HasSlotLease(a)

(***************************************************************************)
(* The Slot of the Pool is neither doubled nor leaked: at every await of   *)
(* acquire, release, replacement and abort it is offered on an idle ready  *)
(* child, or one Attempt has it and can give it back.                      *)
(***************************************************************************)
SlotSafe == SlotSerial /\ SlotReturned

(***************************************************************************)
(* force_reclaim runs long after its Attempt asked for it: it terminates   *)
(* the child only while that Attempt has the Slot, never the child another *)
(* one is using.                                                           *)
(***************************************************************************)
ReclaimScoped ==
  [][holder # "reclaim" /\ holder' = "reclaim" => busy = {who'}]_vars

\* Nothing but a lease starts it again, and Remote leases only to a Pool
\* that is ready.
Unloaded == proc = "none" /\ ~restart /\ holder = "none"

\* A child that was started and hangs: it is asked without a timeout.
Unanswered == proc = "runs" /\ hung /\ backend

(***************************************************************************)
(* A Pool whose child crashed, failed to start, could not be terminated or *)
(* was left behind by an aborted task becomes ready again without help     *)
(* from Remote: it is not unready for ever.  Two exceptions: a child that  *)
(* was never started, for its models cannot be scanned, or was unloaded    *)
(* because it was idle; and one that hangs for ever after its start, for   *)
(* which the maintenance task waits with op_lock in its hands.  A child    *)
(* that hangs and then exits, or hangs while it is started, is replaced.   *)
(***************************************************************************)
Recovers == []<>(ready \/ down \/ Unloaded) \/ <>[]Unanswered

(***************************************************************************)
(* executor.rs:5: "Cancellation is cooperative first, then the owning      *)
(* native process tree is forcibly reclaimed after a bounded grace         *)
(* period".  So an Attempt whose grace period is over while the child is   *)
(* still at its job loses its Slot.                                        *)
(***************************************************************************)
ReclaimEnds ==
  \A a \in Attempts :
     (reclaim[a] = "armed" /\ a \in busy /\ job = a) ~> (a \notin busy)

(***************************************************************************)
(* ADR 0005: "Cancellation, OOM, or hung native code terminates the        *)
(* managed child before the Pool is reused".  So no Attempt gets the Slot  *)
(* of a child that is still in a cancelled job.                            *)
(***************************************************************************)
CancelledBeforeReuse ==
  [][\A a \in Attempts :
        att[a] # "acquired" /\ att'[a] = "acquired" => jobstate' # "cancelled"]_vars
=============================================================================
