----------------------------- MODULE Lifecycle -----------------------------
(***************************************************************************)
(* Leasing, execution, retry and cancellation of one Tenant's Generations, *)
(* at the grain of Remote's PostgreSQL transactions (READ COMMITTED).      *)
(*                                                                         *)
(* The variables of a table are its committed rows.  A transaction is one  *)
(* step where its row locks make it atomic, and two steps where it reads a *)
(* row without locking it or sends a message before it commits:            *)
(*   - try_assign sends the lease, then commits (AssignOpen, AssignCommit);*)
(*   - finish_and_decide reads the Generation unlocked, then updates it    *)
(*     (SettleOpen, SettleCommit);                                         *)
(*   - cancel_generation is two UPDATEs (CancelOpen, CancelCommit);        *)
(*   - a handler reads the database clock before it opens its transaction  *)
(*     (ReadNow, then the handler).                                        *)
(* An open transaction holds its row locks: GenerationLocked, PoolLocked   *)
(* and AttemptLocked say which rows another transaction has to wait for.   *)
(*                                                                         *)
(* Time is a flag: lease[a] says that lease_expires_at is in the future,   *)
(* due[a] whether execution_deadline is unset, ahead or passed.            *)
(***************************************************************************)
EXTENDS QueueStates, FiniteSets

CONSTANTS Generations,   \* Generation ids
          Attempts,      \* Attempt ids
          Pools,         \* Device Pool ids
          Workers,       \* Worker ids
          Owner,         \* [Pools -> Workers]: device_pools.worker_id
          Capable,       \* [Generations -> SUBSET Pools]: SlotCapability::admits
          SlotCounts,    \* the total_slots a Worker advertises for a Pool
          PoolReports,   \* [Workers -> SUBSET ...]: what a report says of a Pool
          MaxAttempts,   \* MAX_ATTEMPTS
          Reported,      \* the FailureKinds a Worker reports
          NoAttempt      \* no Attempt: a NULL accepted_attempt_id, no open lease

ASSUME LifecycleAssumption ==
  /\ Generations # {} /\ Pools # {}
  /\ NoAttempt \notin Attempts
  /\ IsFiniteSet(Attempts)
  /\ Owner \in [Pools -> Workers]
  /\ Capable \in [Generations -> SUBSET Pools]
  /\ SlotCounts \subseteq Nat
  /\ PoolReports \in [Workers -> SUBSET {"absent", "ready", "unready"}]
  /\ MaxAttempts \in Nat \ {0}
  /\ Reported \subseteq FailureKind \ {"worker_lost", "lease_expired"}

VARIABLES
  \* generations
  gstate,      \* state
  accepted,    \* accepted_attempt_id
  count,       \* attempt_count
  inputs,      \* whether its input Artifacts still exist
  rejections,  \* its rows of generation_pool_rejections
  \* attempts
  astate,      \* state, or why there is no row
  arow,        \* generation_id, pool_id, attempt_number
  lease,       \* of a live Attempt: lease_expires_at > clock
  due,         \* of a live Attempt: execution_deadline
  akind,       \* failure_kind
  \* device_pools
  pstate,      \* whether the row exists, and its ready column
  total,       \* total_slots
  claimed,     \* claimed_slots
  \* open transactions
  sched,       \* the Attempt try_assign has sent a lease for and not committed
  settle,      \* the failure finish_and_decide is recording, per Attempt
  saw,         \* the Generation state finish_and_decide read
  cancel,      \* Generations whose CancelGeneration is between its two UPDATEs
  \* Workers and the control sessions
  exec,        \* what the Worker does with a lease it was sent
  token,       \* whether the CancellationToken in its live entry is cancelled
  msgs         \* Worker messages not yet handled by Remote

genVars == <<gstate, accepted, count, inputs, rejections>>
attVars == <<astate, arow, lease, due, akind>>
poolVars == <<pstate, total, claimed>>
txVars == <<sched, settle, saw, cancel>>
workerVars == <<exec, token, msgs>>
vars == <<gstate, accepted, count, inputs, rejections,
          astate, arow, lease, due, akind, pstate, total, claimed,
          sched, settle, saw, cancel, exec, token, msgs>>
-----------------------------------------------------------------------------
NoFailure == "none"

\* now: what the handler's reading of the database clock says of the lease.
Message == [type : {"failure"}, att : Attempts, kind : Reported,
            now : {"unread"}]
             \cup [type : {"running", "result", "ack", "rejected"},
                   att : Attempts, kind : {NoFailure},
                   now : {"unread", "fresh", "lapsed"}]

AttemptRow == [gen : Generations, pool : Pools, num : 1..MaxAttempts]

TypeOK ==
  /\ gstate \in [Generations -> GenerationRowState]
  /\ accepted \in [Generations -> Attempts \cup {NoAttempt}]
  /\ count \in [Generations -> 0..MaxAttempts]
  /\ inputs \in [Generations -> BOOLEAN]
  /\ rejections \in [Generations -> SUBSET Pools]
  /\ astate \in [Attempts -> AttemptRowState]
  /\ arow \in [Attempts -> AttemptRow]
  /\ lease \in [Attempts -> BOOLEAN]
  /\ due \in [Attempts -> {"none", "pending", "passed"}]
  /\ akind \in [Attempts -> FailureKind \cup {NoFailure}]
  /\ pstate \in [Pools -> {"absent", "ready", "unready", "deleted"}]
  /\ total \in [Pools -> SlotCounts \cup {0}]
  /\ claimed \in [Pools -> Nat]
  /\ sched \in Attempts \cup {NoAttempt}
  /\ settle \in [Attempts -> FailureKind \cup {NoFailure}]
  /\ saw \in [Attempts -> GenerationRowState]
  /\ cancel \in SUBSET Generations
  /\ exec \in [Attempts -> {"none", "offered", "preparing", "running",
                          "stranded", "ended"}]
  /\ token \in [Attempts -> BOOLEAN]
  /\ msgs \in SUBSET Message

Live(a) == astate[a] \in LiveAttempt
HasRow(a) == astate[a] \in AttemptState
Terminal(g) == gstate[g] \in TerminalGeneration
Registered(p) == pstate[p] \in {"ready", "unready"}
Executing(a) == exec[a] \in {"preparing", "running"}

\* create's SELECT ... FOR UPDATE, held until try_assign commits.
GenerationLocked(g) == sched # NoAttempt /\ arow[sched].gen = g
\* finish's UPDATE of the Attempt, held until its caller commits.
AttemptLocked(a) == settle[a] # NoFailure
\* claim_slot's and release_slot's UPDATEs of the Pool.
PoolLocked(p) == \/ sched # NoAttempt /\ arow[sched].pool = p
                 \/ \E a \in Attempts : AttemptLocked(a) /\ arow[a].pool = p

\* Seeded fault: an out-of-memory Attempt excludes nothing.
ExcludedPoolsRejectedOnly(g) == rejections[g]

(***************************************************************************)
(* native_exclusions::excluded_pools: the Pools that ran out of memory in  *)
(* an Attempt of g or rejected one of its leases before execution.         *)
(***************************************************************************)
ExcludedPools(g) ==
  rejections[g] \cup
    {arow[a].pool : a \in {b \in Attempts : /\ HasRow(b)
                                            /\ arow[b].gen = g
                                            /\ akind[b] = "out_of_memory"}}

\* any_candidate_remains over pool_capabilities: a ready, capable Pool of g
\* outside the excluded ones.
CandidateRemains(g, excluded) ==
  \E p \in Capable[g] \ excluded : pstate[p] = "ready"

\* The WHERE clauses of the UPDATEs of generations.state, as functions of the
\* state: a row that does not match stays as it is.
MarkRunning(s) == IF s = "queued" THEN "running" ELSE s

\* Seeded faults: the wrong state in the WHERE clause; no compare-and-set.
RequeueWrongState(s) == IF s = "cancelling" THEN "queued" ELSE s

RequeueActive(s) == IF s \in {"running", "cancelling"} THEN "queued" ELSE s

Requeue(s) == IF s = "running" THEN "queued" ELSE s

Fail(s) == IF s \in {"queued", "running", "cancelling"} THEN "failed" ELSE s

RequestCancelRunning(s) == IF s = "running" THEN "cancelling" ELSE s

\* Seeded faults: a state the schema does not know; the wrong WHERE clause.
FinishCancelledMisspelt(s) == IF s = "cancelling" THEN "canceled" ELSE s

FinishCancelledWrongState(s) == IF s = "running" THEN "cancelled" ELSE s

FinishCancelled(s) == IF s = "cancelling" THEN "cancelled" ELSE s

\* Seeded fault: any unfinished Generation can be leased.
LeasableUnfinished(g) == gstate[g] \in {"queued", "running"}

\* attempts::create takes only a queued Generation.
Leasable(g) == gstate[g] = "queued"

\* attempts::create numbers an Attempt after the ones the Generation had.
AttemptNumber(g) == count[g] + 1

\* Seeded fault: off by one.
FreeSlotInclusive(p) == Registered(p) /\ claimed[p] <= total[p]

\* workers::claim_slot finds a free Slot.
FreeSlot(p) == Registered(p) /\ claimed[p] < total[p]

\* workers::release_slot
ReleaseSlot(p) ==
  claimed' = [claimed EXCEPT ![p] = IF @ > 0 THEN @ - 1 ELSE 0]

\* The Attempt is not live any more: its lease and its deadline are moot.
EndLease(a) ==
  /\ lease' = [lease EXCEPT ![a] = FALSE]
  /\ due' = [due EXCEPT ![a] = "none"]

\* Seeded fault: the inputs go with every settled Attempt.
SettlesAlways(decision) == decision \in {"fail", "requeue"}

\* settles_generation: the callers of finish_and_decide delete the inputs.
SettlesGeneration(decision) == decision = "fail"

\* reject_lease's roll-back of attempt_count.
RollBack(n) == IF n > 0 THEN n - 1 ELSE 0

\* Seeded fault: the schema without that CHECK.
NoneAcceptedUnchecked(lost) == lost \subseteq Attempts

\* The CHECK on generations.accepted_attempt_id: deleting these Attempts sets
\* no succeeded Generation's accepted_attempt_id to NULL.
NoneAccepted(lost) == \A g \in Generations : accepted[g] \notin lost
-----------------------------------------------------------------------------
\* The columns of an Attempt that was never leased do not matter.
UnusedRow == [gen |-> CHOOSE g \in Generations : TRUE,
              pool |-> CHOOSE p \in Pools : TRUE, num |-> 1]

Init ==
  /\ gstate = [g \in Generations |-> "absent"]
  /\ accepted = [g \in Generations |-> NoAttempt]
  /\ count = [g \in Generations |-> 0]
  /\ inputs = [g \in Generations |-> FALSE]
  /\ rejections = [g \in Generations |-> {}]
  /\ astate = [a \in Attempts |-> "none"]
  /\ arow = [a \in Attempts |-> UnusedRow]
  /\ lease = [a \in Attempts |-> FALSE]
  /\ due = [a \in Attempts |-> "none"]
  /\ akind = [a \in Attempts |-> NoFailure]
  /\ pstate = [p \in Pools |-> "absent"]
  /\ total = [p \in Pools |-> 0]
  /\ claimed = [p \in Pools |-> 0]
  /\ sched = NoAttempt
  /\ settle = [a \in Attempts |-> NoFailure]
  /\ saw = [a \in Attempts |-> "absent"]
  /\ cancel = {}
  /\ exec = [a \in Attempts |-> "none"]
  /\ token = [a \in Attempts |-> FALSE]
  /\ msgs = {}
-----------------------------------------------------------------------------
(***************************************************************************)
(* Clients                                                                 *)
(***************************************************************************)
\* admission::admit: the Generation row and the links to its input Artifacts.
Submit(g) ==
  /\ gstate[g] = "absent"
  /\ gstate' = [gstate EXCEPT ![g] = "queued"]
  /\ inputs' = [inputs EXCEPT ![g] = TRUE]
  /\ UNCHANGED <<accepted, count, rejections, attVars, poolVars, txVars,
                 workerVars>>

\* cancel_generation on a queued Generation: its first UPDATE,
\* generations::cancel_queued, waits for the row's lock and decides.
CancelQueued(g) ==
  /\ gstate[g] = "queued" /\ ~GenerationLocked(g)
  /\ gstate' = [gstate EXCEPT ![g] = "cancelled"]
  /\ inputs' = [inputs EXCEPT ![g] = FALSE]
  /\ UNCHANGED <<accepted, count, rejections, attVars, poolVars, txVars,
                 workerVars>>

(***************************************************************************)
(* cancel_generation on a running Generation: the first UPDATE matches     *)
(* nothing and locks nothing.  (Neither UPDATE ever matches a Generation   *)
(* that is cancelling or terminal.)                                        *)
(***************************************************************************)
CancelOpen(g) ==
  /\ gstate[g] = "running"
  /\ g \notin cancel
  /\ cancel' = cancel \cup {g}
  /\ UNCHANGED <<genVars, attVars, poolVars, sched, settle, saw, workerVars>>

\* cancel_generation's second UPDATE, generations::request_cancel_running, and
\* its commit.
CancelCommit(g) ==
  /\ g \in cancel
  /\ cancel' = cancel \ {g}
  /\ gstate' = [gstate EXCEPT ![g] = RequestCancelRunning(@)]
  /\ UNCHANGED <<accepted, count, inputs, rejections, attVars, poolVars,
                 sched, settle, saw, workerVars>>
-----------------------------------------------------------------------------
(***************************************************************************)
(* The scheduler                                                           *)
(***************************************************************************)
(***************************************************************************)
(* try_assign up to the send: the exclusions, claim_slot, attempts::create *)
(* and generations::mark_running, all uncommitted, then the lease on the   *)
(* Worker's session.  The planning snapshot may be stale, so the Pool need *)
(* not be ready any more; everything else is checked again here.           *)
(***************************************************************************)
AssignOpen(g, p, a) ==
  /\ sched = NoAttempt
  /\ p \in Capable[g]
  /\ p \notin ExcludedPools(g)
  /\ FreeSlot(p) /\ ~PoolLocked(p)
  /\ Leasable(g)
  /\ AttemptNumber(g) <= MaxAttempts
  /\ astate[a] = "none" /\ exec[a] = "none"
  /\ arow' = [arow EXCEPT ![a] = [gen |-> g, pool |-> p, num |-> AttemptNumber(g)]]
  /\ sched' = a
  /\ exec' = [exec EXCEPT ![a] = "offered"]
  /\ UNCHANGED <<genVars, astate, lease, due, akind, poolVars,
                 settle, saw, cancel, token, msgs>>

AssignCommit ==
  /\ sched # NoAttempt
  /\ LET row == arow[sched] IN
     /\ claimed' = [claimed EXCEPT ![row.pool] = @ + 1]
     /\ gstate' = [gstate EXCEPT ![row.gen] = MarkRunning(@)]
     /\ count' = [count EXCEPT ![row.gen] = row.num]
  /\ astate' = [astate EXCEPT ![sched] = "leased"]
  /\ lease' = [lease EXCEPT ![sched] = TRUE]
  /\ sched' = NoAttempt
  /\ UNCHANGED <<accepted, inputs, rejections, arow, due, akind, pstate, total,
                 settle, saw, cancel, workerVars>>

\* The commit fails after the lease was sent: the rows are rolled back, the
\* Worker keeps a lease Remote knows nothing of.
AssignAbort ==
  /\ sched # NoAttempt
  /\ sched' = NoAttempt
  /\ UNCHANGED <<genVars, attVars, poolVars, settle, saw, cancel, workerVars>>
-----------------------------------------------------------------------------
(***************************************************************************)
(* Settling a failed Attempt: finish_and_decide                            *)
(***************************************************************************)
(***************************************************************************)
(* finish settles the Attempt and releases its Slot, uncommitted, so that  *)
(* both rows are locked; then the Generation's state is read, unlocked.    *)
(***************************************************************************)
SettleOpen(a, kind) ==
  /\ Live(a) /\ ~AttemptLocked(a) /\ ~PoolLocked(arow[a].pool)
  /\ settle' = [settle EXCEPT ![a] = kind]
  /\ saw' = [saw EXCEPT ![a] = gstate[arow[a].gen]]

(***************************************************************************)
(* The decision, the UPDATE of the Generation (requeue WHERE running,      *)
(* fail WHERE queued, running or cancelling, finish_cancelled WHERE        *)
(* cancelling), the input cleanup the callers do on a Fail decision, and   *)
(* the commit.  The sweeps then send the Worker a CancelRequest, which is  *)
(* lost when the Worker is offline or its channel is full.                 *)
(***************************************************************************)
SettleCommit(a) ==
  LET g == arow[a].gen
      p == arow[a].pool
      kind == settle[a]
      oom == IF kind = "out_of_memory" THEN {p} ELSE {}
      decision ==
        IF saw[a] = "cancelling" THEN "fail"
        ELSE RetryDecision(kind, count[g], MaxAttempts,
                           CandidateRemains(g, ExcludedPools(g) \cup oom))
      next == IF saw[a] = "cancelling" THEN FinishCancelled(gstate[g])
              ELSE IF decision = "requeue" THEN Requeue(gstate[g])
              ELSE Fail(gstate[g])
  IN /\ AttemptLocked(a)
     /\ ~GenerationLocked(g)
     /\ astate' = [astate EXCEPT ![a] = IF kind = "lease_expired"
                                        THEN "lease_expired" ELSE "failed"]
     /\ akind' = [akind EXCEPT ![a] = kind]
     /\ EndLease(a)
     /\ ReleaseSlot(p)
     /\ gstate' = [gstate EXCEPT ![g] = next]
     /\ inputs' = [inputs EXCEPT ![g] = @ /\ ~SettlesGeneration(decision)]
     /\ \E delivered \in BOOLEAN :
          /\ delivered => Executing(a) /\ kind \in {"lease_expired",
                                                    "execution_timed_out"}
          /\ token' = [token EXCEPT ![a] = @ \/ delivered]
     /\ settle' = [settle EXCEPT ![a] = NoFailure]
     /\ saw' = [saw EXCEPT ![a] = "absent"]
     /\ UNCHANGED <<accepted, count, rejections, arow, pstate, total, sched,
                    cancel, exec, msgs>>
-----------------------------------------------------------------------------
(***************************************************************************)
(* The expiry sweep                                                        *)
(***************************************************************************)
\* Seeded fault: a lease that was never started is not swept.
SweepLeaseStarted(a) ==
  /\ ~lease[a] /\ astate[a] = "running"
  /\ SettleOpen(a, "lease_expired")
  /\ UNCHANGED <<genVars, attVars, poolVars, sched, cancel, workerVars>>

\* expire_leases: FOR UPDATE SKIP LOCKED over live Attempts whose lease
\* lapsed, each recorded with record_lease_expiry.
SweepLease(a) ==
  /\ ~lease[a]
  /\ SettleOpen(a, "lease_expired")
  /\ UNCHANGED <<genVars, attVars, poolVars, sched, cancel, workerVars>>

\* enforce_execution_deadlines: live Attempts past their deadline.
SweepDeadline(a) ==
  /\ due[a] = "passed"
  /\ SettleOpen(a, "execution_timed_out")
  /\ UNCHANGED <<genVars, attVars, poolVars, sched, cancel, workerVars>>

\* expire_starved_queue: a long-queued Generation no registered Pool outside
\* its exclusions can run.
ExpireStarved(g) ==
  /\ gstate[g] = "queued" /\ ~GenerationLocked(g)
  /\ ~CandidateRemains(g, ExcludedPools(g))
  /\ gstate' = [gstate EXCEPT ![g] = "expired"]
  /\ inputs' = [inputs EXCEPT ![g] = FALSE]
  /\ UNCHANGED <<accepted, count, rejections, attVars, poolVars, txVars,
                 workerVars>>

\* propagate_cancellations: a CancelRequest for a live Attempt of a
\* Generation being cancelled; the Worker drops it unless the Attempt is in
\* its live map.
PropagateCancel(a) ==
  /\ Live(a) /\ gstate[arow[a].gen] = "cancelling"
  /\ Executing(a) /\ ~token[a]
  /\ token' = [token EXCEPT ![a] = TRUE]
  /\ UNCHANGED <<genVars, attVars, poolVars, txVars, exec, msgs>>

\* The database clock passes lease_expires_at or execution_deadline.
LeaseLapse(a) ==
  /\ Live(a) /\ lease[a]
  /\ lease' = [lease EXCEPT ![a] = FALSE]
  /\ UNCHANGED <<genVars, astate, arow, due, akind, poolVars, txVars,
                 workerVars>>

DeadlinePass(a) ==
  /\ Live(a) /\ due[a] = "pending"
  /\ due' = [due EXCEPT ![a] = "passed"]
  /\ UNCHANGED <<genVars, astate, arow, lease, akind, poolVars, txVars,
                 workerVars>>
-----------------------------------------------------------------------------
(***************************************************************************)
(* The Worker session: one handler per WorkerMessage.  A session delivers  *)
(* in order, so AttemptRunning is handled before the Attempt's last word.  *)
(***************************************************************************)
Deliverable(m) ==
  m.type # "running" => \A n \in msgs : n.att = m.att => n.type # "running"

(***************************************************************************)
(* The handlers that check the lease read the clock before they open their *)
(* transaction.  What they read matters only if the Attempt is live.       *)
(***************************************************************************)
ReadNow(m) ==
  /\ m \in msgs /\ Deliverable(m)
  /\ m.type \in {"running", "result", "rejected"} /\ m.now = "unread"
  /\ Live(m.att)
  /\ msgs' = (msgs \ {m}) \cup
       {[m EXCEPT !.now = IF lease[m.att] THEN "fresh" ELSE "lapsed"]}
  /\ UNCHANGED <<genVars, attVars, poolVars, txVars, exec, token>>

NowRead(m) == m.now # "unread" \/ ~Live(m.att)

Handled(m) ==
  /\ m \in msgs /\ Deliverable(m)
  /\ msgs' = msgs \ {m}
  /\ UNCHANGED <<exec, token>>

\* The handler returns early, or its transaction commits without an effect.
Ignored(m) == Handled(m) /\ UNCHANGED <<genVars, attVars, poolVars, txVars>>

\* try_handle_attempt_running: attempts::mark_running, then the Generation's
\* own mark_running.
StartAttempt(m) ==
  LET a == m.att
      g == arow[a].gen
  IN /\ m.type = "running" /\ NowRead(m) /\ Handled(m)
     /\ astate[a] = "leased" /\ m.now = "fresh" /\ ~AttemptLocked(a)
     /\ astate' = [astate EXCEPT ![a] = "running"]
     /\ due' = [due EXCEPT ![a] = "pending"]
     /\ gstate' = [gstate EXCEPT ![g] = MarkRunning(@)]
     /\ UNCHANGED <<accepted, count, inputs, rejections, arow, lease, akind,
                    poolVars, txVars>>

IgnoreRunning(m) ==
  /\ m.type = "running" /\ NowRead(m)
  /\ astate[m.att] # "leased" \/ m.now = "lapsed"
  /\ Ignored(m)

HandleRunning(m) == StartAttempt(m) \/ IgnoreRunning(m)

\* accept_result's checks on the locked Attempt and Generation rows.
Acceptable(a, now) ==
  /\ Live(a) /\ now = "fresh"
  /\ accepted[arow[a].gen] = NoAttempt
  /\ <<gstate[arow[a].gen], "succeeded">> \in GenerationEdge

\* try_handle_attempt_result: accept_result, the deletion of the inputs and
\* the commit ...
AcceptResult(m) ==
  LET a == m.att
      g == arow[a].gen
  IN /\ m.type = "result" /\ NowRead(m) /\ Handled(m)
     /\ Acceptable(a, m.now)
     /\ ~AttemptLocked(a) /\ ~GenerationLocked(g) /\ ~PoolLocked(arow[a].pool)
     /\ astate' = [astate EXCEPT ![a] = "succeeded"]
     /\ EndLease(a)
     /\ ReleaseSlot(arow[a].pool)
     /\ gstate' = [gstate EXCEPT ![g] = "succeeded"]
     /\ accepted' = [accepted EXCEPT ![g] = a]
     /\ inputs' = [inputs EXCEPT ![g] = FALSE]
     /\ UNCHANGED <<count, rejections, arow, akind, pstate, total, txVars>>

\* ... or a stale, duplicate or late result, which changes nothing.
DiscardResult(m) ==
  /\ m.type = "result" /\ NowRead(m)
  /\ ~Acceptable(m.att, m.now) /\ ~AttemptLocked(m.att)
  /\ Ignored(m)

HandleResult(m) == AcceptResult(m) \/ DiscardResult(m)

\* A result whose output exceeds max_output_artifact_bytes is a failure
\* (reject_oversized_outputs).
HandleOversizedResult(m) ==
  /\ m.type = "result" /\ NowRead(m) /\ Handled(m)
  /\ SettleOpen(m.att, "invalid_input")
  /\ UNCHANGED <<genVars, attVars, poolVars, sched, cancel>>

\* try_handle_attempt_failure: nothing happens unless the Attempt is live.
RecordFailure(m) ==
  /\ m.type = "failure" /\ Handled(m)
  /\ SettleOpen(m.att, m.kind)
  /\ UNCHANGED <<genVars, attVars, poolVars, sched, cancel>>

IgnoreFailure(m) == m.type = "failure" /\ ~Live(m.att) /\ Ignored(m)

HandleFailure(m) == RecordFailure(m) \/ IgnoreFailure(m)

(***************************************************************************)
(* try_handle_cancel_acknowledged: provided the Generation is being        *)
(* cancelled, acknowledge_cancel settles the Attempt if it is still live,  *)
(* and the Generation whatever the Attempt's state.                        *)
(***************************************************************************)
AckLive(m) ==
  LET a == m.att
      g == arow[a].gen
  IN /\ m.type = "ack" /\ Handled(m)
     /\ Live(a) /\ gstate[g] = "cancelling"
     /\ ~AttemptLocked(a) /\ ~PoolLocked(arow[a].pool)
     /\ astate' = [astate EXCEPT ![a] = "cancelled"]
     /\ EndLease(a)
     /\ ReleaseSlot(arow[a].pool)
     /\ gstate' = [gstate EXCEPT ![g] = FinishCancelled(@)]
     /\ inputs' = [inputs EXCEPT ![g] = FALSE]
     /\ UNCHANGED <<accepted, count, rejections, arow, akind, pstate, total,
                    txVars>>

AckSettled(m) ==
  LET g == arow[m.att].gen
  IN /\ m.type = "ack" /\ Handled(m)
     /\ HasRow(m.att) /\ ~Live(m.att) /\ gstate[g] = "cancelling"
     /\ gstate' = [gstate EXCEPT ![g] = FinishCancelled(@)]
     /\ inputs' = [inputs EXCEPT ![g] = FALSE]
     /\ UNCHANGED <<accepted, count, rejections, attVars, poolVars, txVars>>

IgnoreAck(m) ==
  /\ m.type = "ack" /\ ~AttemptLocked(m.att)
  /\ ~HasRow(m.att) \/ gstate[arow[m.att].gen] # "cancelling"
  /\ Ignored(m)

HandleAck(m) == AckLive(m) \/ AckSettled(m) \/ IgnoreAck(m)

(***************************************************************************)
(* try_handle_lease_rejected: reject_lease deletes the Attempt, remembers  *)
(* the Pool and returns the Generation to the queue with its attempt_count *)
(* rolled back, if the lease is live and the Generation running.           *)
(***************************************************************************)
Rejectable(m) ==
  /\ astate[m.att] = "leased" /\ m.now = "fresh"
  /\ gstate[arow[m.att].gen] = "running"

RejectLease(m) ==
  LET a == m.att
      g == arow[a].gen
      p == arow[a].pool
  IN /\ m.type = "rejected" /\ NowRead(m) /\ Handled(m)
     /\ Rejectable(m) /\ ~AttemptLocked(a) /\ ~PoolLocked(p)
     /\ rejections' = [rejections EXCEPT ![g] = @ \cup {p}]
     /\ astate' = [astate EXCEPT ![a] = "rejected"]
     /\ EndLease(a)
     /\ ReleaseSlot(p)
     /\ gstate' = [gstate EXCEPT ![g] = "queued"]
     /\ count' = [count EXCEPT ![g] = RollBack(@)]
     /\ UNCHANGED <<accepted, inputs, arow, akind, pstate, total, txVars>>

IgnoreRejected(m) ==
  /\ m.type = "rejected" /\ NowRead(m)
  /\ ~Rejectable(m) /\ ~AttemptLocked(m.att)
  /\ Ignored(m)

HandleRejected(m) == RejectLease(m) \/ IgnoreRejected(m)

(***************************************************************************)
(* try_handle_heartbeat renews the leases of live Attempts that have not   *)
(* lapsed, which changes nothing here: a renewed lease stays fresh.  For   *)
(* an Attempt it cannot renew the Worker gets a CancelRequest.             *)
(***************************************************************************)
HeartbeatNotRenewed(a) ==
  /\ Executing(a) /\ ~token[a]
  /\ ~(Live(a) /\ lease[a])
  /\ token' = [token EXCEPT ![a] = TRUE]
  /\ UNCHANGED <<genVars, attVars, poolVars, txVars, exec, msgs>>

PoolsOf(w) == {p \in Pools : Owner[p] = w}

(***************************************************************************)
(* try_handle_capability_report: workers::upsert_pools replaces Worker w's *)
(* Pools by those of the report.  Deleting a Pool cascades to its Attempts *)
(* and rejections.  The transaction fails as a whole when total_slots      *)
(* would drop below claimed_slots (a CHECK) or when a deleted Attempt is   *)
(* some Generation's accepted one (its state CHECK).  A Pool that comes    *)
(* back gets a new id.                                                     *)
(***************************************************************************)
UpsertPools(w, report, newTotal) ==
  LET kept == {p \in PoolsOf(w) : report[p] # "absent"}
      gone == {p \in PoolsOf(w) : Registered(p)} \ kept
      lost == {a \in Attempts : HasRow(a) /\ arow[a].pool \in gone}
  IN /\ \A p \in kept : pstate[p] # "deleted" /\ claimed[p] <= newTotal[p]
     /\ \A p \in kept \cup gone : ~PoolLocked(p)
     /\ NoneAccepted(lost)
     /\ pstate' = [p \in Pools |-> IF p \in kept THEN report[p]
                                   ELSE IF p \in gone THEN "deleted"
                                   ELSE pstate[p]]
     /\ total' = [p \in Pools |-> IF p \in kept THEN newTotal[p] ELSE total[p]]
     /\ astate' = [a \in Attempts |-> IF a \in lost THEN "withdrawn"
                                      ELSE astate[a]]
     /\ lease' = [a \in Attempts |-> lease[a] /\ a \notin lost]
     /\ due' = [a \in Attempts |-> IF a \in lost THEN "none" ELSE due[a]]
     /\ rejections' = [g \in Generations |-> rejections[g] \ gone]
     /\ UNCHANGED <<gstate, accepted, count, inputs, arow, akind, claimed,
                    txVars, workerVars>>
-----------------------------------------------------------------------------
(***************************************************************************)
(* Workers                                                                 *)
(***************************************************************************)
Send(a, type, kind) ==
  msgs' = msgs \cup {[type |-> type, att |-> a, kind |-> kind,
                     now |-> "unread"]}

\* accept_lease acquires a Slot and enters the Attempt in the live map ...
WorkerAccept(a) ==
  /\ exec[a] = "offered"
  /\ exec' = [exec EXCEPT ![a] = "preparing"]
  /\ UNCHANGED <<genVars, attVars, poolVars, txVars, token, msgs>>

\* ... or the Worker rejects the lease before any execution.
WorkerReject(a) ==
  /\ exec[a] = "offered"
  /\ exec' = [exec EXCEPT ![a] = "ended"]
  /\ Send(a, "rejected", NoFailure)
  /\ UNCHANGED <<genVars, attVars, poolVars, txVars, token>>

\* executor::run: the inputs are fetched; AttemptRunning is sent.
WorkerStart(a) ==
  /\ exec[a] = "preparing"
  /\ exec' = [exec EXCEPT ![a] = "running"]
  /\ Send(a, "running", NoFailure)
  /\ UNCHANGED <<genVars, attVars, poolVars, txVars, token>>

\* cancel_expired_leases on the Worker's own clock, the executor's own
\* timeout, or the Worker's shutdown.
WorkerCancel(a) ==
  /\ Executing(a) /\ ~token[a]
  /\ token' = [token EXCEPT ![a] = TRUE]
  /\ UNCHANGED <<genVars, attVars, poolVars, txVars, exec, msgs>>

\* executor::execute sends exactly one terminal message, then accept_lease
\* removes the live entry.
WorkerFinish(a) ==
  /\ Executing(a)
  /\ exec' = [exec EXCEPT ![a] = "ended"]
  /\ \/ exec[a] = "running" /\ Send(a, "result", NoFailure)
     \/ \E kind \in Reported : Send(a, "failure", kind)
     \/ token[a] /\ Send(a, "ack", NoFailure)
  /\ token' = [token EXCEPT ![a] = FALSE]
  /\ UNCHANGED <<genVars, attVars, poolVars, txVars>>

\* The Worker dies: what it had not delivered is lost.
WorkerCrash(a) ==
  /\ exec[a] # "none"
  /\ exec[a] # "ended" \/ \E m \in msgs : m.att = a
  /\ exec' = [exec EXCEPT ![a] = "ended"]
  /\ msgs' = {m \in msgs : m.att # a}
  /\ token' = [token EXCEPT ![a] = FALSE]
  /\ UNCHANGED <<genVars, attVars, poolVars, txVars>>

(***************************************************************************)
(* connect_and_serve returns on a dropped stream: its JoinSet aborts the   *)
(* Attempt's task and the outbound queue is lost, but the entry in the     *)
(* live map, which belongs to run, stays.  After the reconnect the Worker  *)
(* goes on heartbeating an Attempt nobody executes any more.               *)
(***************************************************************************)
SessionDrop(a) ==
  /\ exec[a] \in {"offered", "preparing", "running"}
  /\ exec' = [exec EXCEPT ![a] = IF Executing(a) THEN "stranded" ELSE "ended"]
  /\ msgs' = {m \in msgs : m.att # a}
  /\ token' = [token EXCEPT ![a] = FALSE]
  /\ UNCHANGED <<genVars, attVars, poolVars, txVars>>

\* The child hangs, and with it backend.execute, whose requests have no
\* timeout; the reclaim of the child may wait for op_lock for ever (see
\* PoolSupervisor).  Its entry in the live map stays and is heartbeated.
WorkerHang(a) ==
  /\ exec[a] = "running"
  /\ exec' = [exec EXCEPT ![a] = "stranded"]
  /\ UNCHANGED <<genVars, attVars, poolVars, txVars, token, msgs>>
-----------------------------------------------------------------------------
ClientNext ==
  \E g \in Generations : \/ Submit(g) \/ CancelQueued(g)
                          \/ CancelOpen(g) \/ CancelCommit(g)

SchedulerNext ==
  \/ \E g \in Generations, p \in Pools, a \in Attempts : AssignOpen(g, p, a)
  \/ AssignCommit
  \/ AssignAbort

SweepNext ==
  \/ \E a \in Attempts : \/ SweepLease(a) \/ SweepDeadline(a)
                         \/ PropagateCancel(a)
  \/ \E g \in Generations : ExpireStarved(g)

SessionNext ==
  \/ \E m \in msgs : \/ ReadNow(m) \/ HandleRunning(m) \/ HandleResult(m)
                     \/ HandleOversizedResult(m) \/ HandleFailure(m)
                     \/ HandleAck(m) \/ HandleRejected(m)
  \/ \E a \in Attempts : HeartbeatNotRenewed(a)
  \/ \E w \in Workers :
       \E report \in [PoolsOf(w) -> PoolReports[w]],
          newTotal \in [PoolsOf(w) -> SlotCounts] :
         UpsertPools(w, report, newTotal)

WorkerNext ==
  \E a \in Attempts : \/ WorkerAccept(a) \/ WorkerReject(a) \/ WorkerStart(a)
                      \/ WorkerCancel(a) \/ WorkerFinish(a) \/ WorkerCrash(a)
                      \/ SessionDrop(a) \/ WorkerHang(a)

ClockNext == \E a \in Attempts : LeaseLapse(a) \/ DeadlinePass(a)

SettleNext == \E a \in Attempts : SettleCommit(a)

Next == ClientNext \/ SchedulerNext \/ SettleNext \/ SweepNext \/ SessionNext
          \/ WorkerNext \/ ClockNext

Spec == Init /\ [][Next]_vars

(***************************************************************************)
(* Fairness.  An open transaction commits or aborts; the sweeps tick every *)
(* few seconds; a session hands on every message it has received; a Worker *)
(* answers every lease unless it crashes, its session drops or its child   *)
(* hangs, because the executor has a timeout of its own; and a lease       *)
(* nobody heartbeats lapses.  Nothing makes the heartbeat of a stranded    *)
(* Attempt stop.                                                           *)
(***************************************************************************)
HandleMessage(a) ==
  \E m \in msgs : /\ m.att = a
                  /\ \/ ReadNow(m) \/ HandleRunning(m) \/ HandleResult(m)
                     \/ HandleOversizedResult(m) \/ HandleFailure(m)
                     \/ HandleAck(m) \/ HandleRejected(m)

WorkerStep(a) ==
  WorkerAccept(a) \/ WorkerReject(a) \/ WorkerStart(a) \/ WorkerFinish(a)

UnattendedLapse(a) == exec[a] = "ended" /\ LeaseLapse(a)

Fairness ==
  /\ WF_vars(AssignCommit \/ AssignAbort)
  /\ \A g \in Generations : WF_vars(CancelCommit(g))
  /\ \A a \in Attempts :
       /\ WF_vars(SettleCommit(a))
       /\ WF_vars(SweepLease(a)) /\ WF_vars(SweepDeadline(a))
       /\ WF_vars(PropagateCancel(a))
       /\ WF_vars(HandleMessage(a))
       /\ WF_vars(WorkerStep(a))
       /\ WF_vars(UnattendedLapse(a)) /\ WF_vars(DeadlinePass(a))

FairSpec == Spec /\ Fairness
-----------------------------------------------------------------------------
(***************************************************************************)
(* Safety                                                                  *)
(***************************************************************************)
AttemptsOf(g) == {a \in Attempts : arow[a].gen = g /\ astate[a] # "none"}

(***************************************************************************)
(* What an open transaction has checked stays true until it commits,       *)
(* because the rows it depends on are locked: the lease being assigned is  *)
(* for a Generation still queued, on a Pool that still has a free Slot,    *)
(* and a failure is being recorded for an Attempt that is still live.  A   *)
(* Generation read as cancelling never runs again, although that row is    *)
(* not locked.                                                             *)
(***************************************************************************)
LockDiscipline ==
  /\ sched # NoAttempt =>
       /\ astate[sched] = "none"
       /\ gstate[arow[sched].gen] = "queued"
       /\ FreeSlot(arow[sched].pool)
  /\ \A a \in Attempts :
       AttemptLocked(a) =>
         /\ Live(a)
         /\ saw[a] = "cancelling" => gstate[arow[a].gen] # "running"

(***************************************************************************)
(* A Generation is executed by one Attempt at a time, and a queued one by  *)
(* none, whatever the order in which results, failures, rejections, lease  *)
(* expiries and scheduling passes commit: attempts::create takes only a    *)
(* queued Generation, and it returns to the queue only together with the   *)
(* end of its live Attempt.                                                *)
(***************************************************************************)
SingleExecution ==
  /\ \A a, b \in Attempts :
        Live(a) /\ Live(b) /\ arow[a].gen = arow[b].gen => a = b
  /\ \A a \in Attempts : Live(a) => gstate[arow[a].gen] \notin {"absent", "queued"}

(***************************************************************************)
(* claimed_slots of a registered Pool counts exactly its live Attempts and *)
(* never exceeds total_slots, across failed commits, duplicate settlements *)
(* and capability reports: no Slot leaks and none is sold twice.           *)
(***************************************************************************)
SlotAccounting ==
  \A p \in Pools :
     Registered(p) =>
       /\ claimed[p] = Cardinality({a \in Attempts : Live(a) /\ arow[a].pool = p})
       /\ claimed[p] <= total[p]

(***************************************************************************)
(* A succeeded Generation has an Accepted Result, which is its own Attempt *)
(* and still on record, and an Attempt succeeds only as the Accepted       *)
(* Result: at-least-once execution, exactly-once acceptance.               *)
(***************************************************************************)
AcceptedResult ==
  /\ \A g \in Generations :
        /\ gstate[g] = "succeeded" <=> accepted[g] # NoAttempt
        /\ accepted[g] # NoAttempt => /\ astate[accepted[g]] = "succeeded"
                                      /\ arow[accepted[g]].gen = g
  /\ \A a \in Attempts :
        astate[a] = "succeeded" => accepted[arow[a].gen] = a

(***************************************************************************)
(* The Attempts of a Generation have different attempt_numbers, none of    *)
(* them above attempt_count: the roll-back of a rejected lease frees the   *)
(* number of the deleted row only, so the next INSERT cannot meet the      *)
(* UNIQUE constraint on (generation_id, attempt_number).                   *)
(***************************************************************************)
AttemptNumbers ==
  \A a, b \in Attempts :
     HasRow(a) =>
       /\ arow[a].num <= count[arow[a].gen]
       /\ (HasRow(b) /\ a # b /\ arow[a].gen = arow[b].gen)
             => arow[a].num # arow[b].num

(***************************************************************************)
(* A Generation is never executed again on a Pool that ran out of memory   *)
(* for it or rejected its lease, although the scheduler plans from a       *)
(* snapshot older than its transaction (ADR 0003).                         *)
(***************************************************************************)
ExclusionRespected ==
  \A a, b \in Attempts :
     (Live(a) /\ arow[a].gen = arow[b].gen /\ arow[a].pool = arow[b].pool)
       => /\ astate[b] # "rejected"
          /\ HasRow(b) => akind[b] # "out_of_memory"

(***************************************************************************)
(* The input Artifacts of a Generation exist exactly while it may still    *)
(* need them: a retry finds its inputs, and no terminal path leaves them   *)
(* behind (ADR 0008), although finish_and_decide's callers delete them     *)
(* after a decision taken from an unlocked read.                           *)
(***************************************************************************)
InputsKept ==
  \A g \in Generations :
     inputs[g] <=> gstate[g] \in {"queued", "running", "cancelling"}

(***************************************************************************)
(* A Generation stays running only because some Attempt is live or was     *)
(* deleted together with its Pool: every other end of an Attempt moves the *)
(* Generation on.                                                          *)
(***************************************************************************)
RunningBacked ==
  \A g \in Generations :
     gstate[g] = "running" =>
       \E a \in AttemptsOf(g) : Live(a) \/ astate[a] = "withdrawn"

(***************************************************************************)
(* A failure the policy does not retry is the Generation's last: no retry  *)
(* follows invalid input, a timeout or an internal error, even when the    *)
(* failure meets a cancellation between the read and the update of         *)
(* finish_and_decide (ADR 0003).                                           *)
(***************************************************************************)
PermanentFailureFinal ==
  \A a \in Attempts :
     (HasRow(a) /\ akind[a] \in {"invalid_input", "unsupported_capability",
                                 "model_unavailable", "execution_timed_out",
                                 "cancelled", "internal"})
       => Terminal(arow[a].gen)

(***************************************************************************)
(* The transactions that race for a Generation are serialised by its row:  *)
(* one Attempt at a time executes it, and what an open transaction checked *)
(* under its locks is still true when it commits.                          *)
(***************************************************************************)
Serialised == SingleExecution /\ LockDiscipline

(***************************************************************************)
(* The state of a Generation follows its Attempts: it is running only for  *)
(* an Attempt that will settle it, and it ended with the first failure     *)
(* that retrying cannot mend.                                              *)
(***************************************************************************)
FollowsAttempts == RunningBacked /\ PermanentFailureFinal

(***************************************************************************)
(* What a retry may not repeat: a Pool that is excluded for the Generation *)
(* and an attempt_number that another Attempt of it holds.                 *)
(***************************************************************************)
RetryDiscipline == ExclusionRespected /\ AttemptNumbers
-----------------------------------------------------------------------------
(***************************************************************************)
(* Refinement and liveness                                                 *)
(***************************************************************************)
Abstract == INSTANCE QueueSpec WITH gstate <- gstate, accepted <- accepted,
                                    astate <- astate

(***************************************************************************)
(* The transactions implement the queue's abstract specification: states   *)
(* follow gpq-domain's transition tables, although the UPDATEs check only  *)
(* their own WHERE clauses, and a Generation and its accepted Attempt      *)
(* succeed in one step.                                                    *)
(***************************************************************************)
RefinesQueue == Abstract!QueueSpec

\* The Worker renews the lease of an Attempt nobody executes, and Remote has
\* set no deadline for it.
Stranded(a) == exec[a] = "stranded" /\ due[a] = "none"

(***************************************************************************)
(* Every Attempt is settled or loses its row: whatever the Worker, the     *)
(* session and the scheduler do, a lease that is not renewed is swept and  *)
(* its Slot comes back, and so is an execution that passes its deadline.   *)
(* The exception is an Attempt that is stranded before Remote learns that  *)
(* it runs: it has no deadline, and the Worker keeps renewing its lease.   *)
(***************************************************************************)
AttemptSettles ==
  \A a \in Attempts : Live(a) ~> (~Live(a) \/ Stranded(a))

(***************************************************************************)
(* A cancellation that is committed before its live Attempt begins to      *)
(* settle ends the Generation, by the Worker's acknowledgement, its result *)
(* or the sweeps.  The exceptions: the Attempt is stranded without a       *)
(* deadline, or its row is deleted with its Pool.                          *)
(***************************************************************************)
CancelFinishes ==
  \A g \in Generations, a \in Attempts :
     (/\ gstate[g] = "cancelling" /\ Live(a) /\ arow[a].gen = g
      /\ saw[a] \in {"absent", "cancelling"})
       ~> (Terminal(g) \/ astate[a] = "withdrawn" \/ Stranded(a))
-----------------------------------------------------------------------------
(***************************************************************************)
(* What the documentation says and the code does not do.  Each of these    *)
(* has a run that shows how it fails.                                      *)
(***************************************************************************)
(***************************************************************************)
(* attempts.rs on finish_and_decide: "A Generation already `Cancelling`    *)
(* settles `Cancelled` regardless of retry policy."  So a Generation being *)
(* cancelled has an Attempt left that will settle it.                      *)
(***************************************************************************)
CancellingBacked ==
  \A g \in Generations :
     gstate[g] = "cancelling" =>
       \E a \in AttemptsOf(g) : Live(a) \/ astate[a] = "withdrawn"

(***************************************************************************)
(* ADR 0003: "Queued cancellation terminates immediately; running          *)
(* cancellation enters `Cancelling`".  So no CancelGeneration returns a    *)
(* Generation that is queued or running.                                   *)
(***************************************************************************)
CancelTakesEffect ==
  [][\A g \in Generations :
        CancelCommit(g) => gstate'[g] \notin {"queued", "running"}]_vars

(***************************************************************************)
(* state.rs on is_active: a Worker may still be executing an Attempt only  *)
(* of a running or cancelling Generation.                                  *)
(***************************************************************************)
LiveIsActive ==
  \A a \in Attempts : Live(a) => gstate[arow[a].gen] \in {"running", "cancelling"}

(***************************************************************************)
(* ADR 0008: "PostgreSQL retains Generation and Attempt metadata".  The    *)
(* row of an Attempt that was executed is never deleted.                   *)
(***************************************************************************)
AttemptsRetained ==
  [][\A a \in Attempts :
        astate[a] \in AttemptState \ {"leased"} => HasRow(a)']_vars

(***************************************************************************)
(* lease.rs: Workers "may resume the same Attempt after reconnecting       *)
(* before expiry".  A stranded Attempt is executed again or settled.       *)
(***************************************************************************)
StrandedResumes ==
  \A a \in Attempts :
     (Live(a) /\ exec[a] = "stranded") ~> (~Live(a) \/ Executing(a))
=============================================================================
