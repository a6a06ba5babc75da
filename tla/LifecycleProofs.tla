-------------------------- MODULE LifecycleProofs --------------------------
(***************************************************************************)
(* Proofs of Lifecycle's safety properties for every value of its          *)
(* constants.  The type invariant comes first; LockInv says what the row   *)
(* locks of open transactions protect and carries everything else.         *)
(***************************************************************************)
EXTENDS Lifecycle, FiniteSetTheorems, TLAPS

(***************************************************************************)
(* The columns of an Attempt that was never leased are well-typed.         *)
(***************************************************************************)
LEMMA UnusedRowType == UnusedRow \in AttemptRow
<1>1. (CHOOSE g \in Generations : TRUE) \in Generations
  BY LifecycleAssumption
<1>2. (CHOOSE p \in Pools : TRUE) \in Pools
  BY LifecycleAssumption
<1>3. 1 \in 1..MaxAttempts
  BY LifecycleAssumption
<1> QED
  BY <1>1, <1>2, <1>3 DEF UnusedRow, AttemptRow

(***************************************************************************)
(* The states the UPDATEs of generations write are states of a row.        *)
(***************************************************************************)
LEMMA StateUpdateTypes ==
  ASSUME NEW s \in GenerationRowState
  PROVE  /\ MarkRunning(s) \in GenerationRowState
         /\ Requeue(s) \in GenerationRowState
         /\ Fail(s) \in GenerationRowState
         /\ RequestCancelRunning(s) \in GenerationRowState
         /\ FinishCancelled(s) \in GenerationRowState
  BY DEF GenerationRowState, GenerationState, MarkRunning, Requeue, Fail,
         RequestCancelRunning, FinishCancelled

(***************************************************************************)
(* Every column and every in-memory variable keeps its type.               *)
(***************************************************************************)
THEOREM TypeCorrect == Spec => []TypeOK
<1>1. Init => TypeOK
  BY UnusedRowType, LifecycleAssumption
     DEF Init, TypeOK, GenerationRowState, AttemptRowState, NoFailure
<1>2. TypeOK /\ [Next]_vars => TypeOK'
  <2> SUFFICES ASSUME TypeOK, [Next]_vars
               PROVE  TypeOK'
    OBVIOUS
  <2> USE LifecycleAssumption
  <2>1. ASSUME NEW g \in Generations, Submit(g) PROVE TypeOK'
    BY <2>1 DEF TypeOK, Submit, GenerationRowState, GenerationState,
       attVars, poolVars, txVars, workerVars
  <2>2. ASSUME NEW g \in Generations, CancelQueued(g) PROVE TypeOK'
    BY <2>2 DEF TypeOK, CancelQueued, GenerationRowState, GenerationState,
       attVars, poolVars, txVars, workerVars
  <2>3. ASSUME NEW g \in Generations, CancelOpen(g) PROVE TypeOK'
    BY <2>3 DEF TypeOK, CancelOpen, genVars, attVars, poolVars, workerVars
  <2>4. ASSUME NEW g \in Generations, CancelCommit(g) PROVE TypeOK'
    BY <2>4, StateUpdateTypes DEF TypeOK, CancelCommit, attVars, poolVars,
       workerVars
  <2>5. ASSUME NEW g \in Generations, NEW p \in Pools, NEW a \in Attempts,
               AssignOpen(g, p, a)
        PROVE  TypeOK'
    <3>1. AttemptNumber(g) \in 1..MaxAttempts
      BY <2>5 DEF AssignOpen, AttemptNumber, TypeOK
    <3> QED
      BY <2>5, <3>1 DEF TypeOK, AssignOpen, AttemptRow, genVars, poolVars
  <2>6. ASSUME AssignCommit PROVE TypeOK'
    BY <2>6, StateUpdateTypes DEF TypeOK, AssignCommit, AttemptRow,
       AttemptRowState, AttemptState, workerVars
  <2>7. ASSUME AssignAbort PROVE TypeOK'
    BY <2>7 DEF TypeOK, AssignAbort, genVars, attVars, poolVars, workerVars
  <2>8. ASSUME NEW a \in Attempts, SettleCommit(a) PROVE TypeOK'
    BY <2>8, StateUpdateTypes DEF TypeOK, SettleCommit, AttemptRow,
       AttemptRowState, AttemptState, FailureKind, GenerationRowState,
       ReleaseSlot, EndLease, SettlesGeneration
  <2>9. ASSUME NEW a \in Attempts, SweepLease(a) PROVE TypeOK'
    BY <2>9 DEF TypeOK, SweepLease, SettleOpen, FailureKind, AttemptRow,
       genVars, attVars, poolVars, workerVars
  <2>10. ASSUME NEW a \in Attempts, SweepDeadline(a) PROVE TypeOK'
    BY <2>10 DEF TypeOK, SweepDeadline, SettleOpen, FailureKind, AttemptRow,
       genVars, attVars, poolVars, workerVars
  <2>11. ASSUME NEW a \in Attempts, PropagateCancel(a) PROVE TypeOK'
    BY <2>11 DEF TypeOK, PropagateCancel, genVars, attVars, poolVars, txVars
  <2>12. ASSUME NEW g \in Generations, ExpireStarved(g) PROVE TypeOK'
    BY <2>12 DEF TypeOK, ExpireStarved, GenerationRowState, GenerationState,
       attVars, poolVars, txVars, workerVars
  <2>13. ASSUME NEW m \in msgs, ReadNow(m) PROVE TypeOK'
    BY <2>13 DEF TypeOK, ReadNow, Message, genVars, attVars, poolVars, txVars
  <2>14. ASSUME NEW m \in msgs, StartAttempt(m) PROVE TypeOK'
    BY <2>14, StateUpdateTypes DEF TypeOK, StartAttempt, Handled, Message,
       AttemptRow, AttemptRowState, AttemptState, poolVars, txVars
  <2>15. ASSUME NEW m \in msgs, AcceptResult(m) PROVE TypeOK'
    BY <2>15 DEF TypeOK, AcceptResult, Handled, Message, AttemptRow,
       AttemptRowState, AttemptState, GenerationRowState, GenerationState,
       ReleaseSlot, EndLease, txVars
  <2>16. ASSUME NEW m \in msgs, HandleOversizedResult(m) PROVE TypeOK'
    BY <2>16 DEF TypeOK, HandleOversizedResult, Handled, SettleOpen, Message,
       FailureKind, AttemptRow, genVars, attVars, poolVars
  <2>17. ASSUME NEW m \in msgs, RecordFailure(m) PROVE TypeOK'
    BY <2>17 DEF TypeOK, RecordFailure, Handled, SettleOpen, Message,
       AttemptRow, genVars, attVars, poolVars
  <2>18. ASSUME NEW m \in msgs, AckLive(m) PROVE TypeOK'
    BY <2>18, StateUpdateTypes DEF TypeOK, AckLive, Handled, Message,
       AttemptRow, AttemptRowState, AttemptState, ReleaseSlot, EndLease, txVars
  <2>19. ASSUME NEW m \in msgs, AckSettled(m) PROVE TypeOK'
    BY <2>19, StateUpdateTypes DEF TypeOK, AckSettled, Handled, Message,
       AttemptRow, attVars, poolVars, txVars
  <2>20. ASSUME NEW m \in msgs, RejectLease(m) PROVE TypeOK'
    BY <2>20 DEF TypeOK, RejectLease, Handled, Message, AttemptRow,
       AttemptRowState, GenerationRowState, GenerationState, ReleaseSlot,
       EndLease, RollBack, txVars
  <2>21. ASSUME NEW m \in msgs, Ignored(m) PROVE TypeOK'
    BY <2>21 DEF TypeOK, Ignored, Handled, genVars, attVars, poolVars, txVars
  <2>22. ASSUME NEW a \in Attempts, HeartbeatNotRenewed(a) PROVE TypeOK'
    BY <2>22 DEF TypeOK, HeartbeatNotRenewed, genVars, attVars, poolVars, txVars
  <2>23. ASSUME NEW w \in Workers, NEW report \in [PoolsOf(w) -> PoolReports[w]],
                NEW newTotal \in [PoolsOf(w) -> SlotCounts],
                UpsertPools(w, report, newTotal)
         PROVE  TypeOK'
    BY <2>23 DEF TypeOK, UpsertPools, PoolsOf, Registered, AttemptRowState,
       AttemptRow, txVars, workerVars
  <2>24. ASSUME NEW a \in Attempts, WorkerAccept(a) PROVE TypeOK'
    BY <2>24 DEF TypeOK, WorkerAccept, genVars, attVars, poolVars, txVars
  <2>25. ASSUME NEW a \in Attempts, WorkerReject(a) PROVE TypeOK'
    BY <2>25 DEF TypeOK, WorkerReject, Send, Message, genVars,
       attVars, poolVars, txVars
  <2>26. ASSUME NEW a \in Attempts, WorkerStart(a) PROVE TypeOK'
    BY <2>26 DEF TypeOK, WorkerStart, Send, Message, genVars,
       attVars, poolVars, txVars
  <2>27. ASSUME NEW a \in Attempts, WorkerCancel(a) PROVE TypeOK'
    BY <2>27 DEF TypeOK, WorkerCancel, genVars, attVars, poolVars, txVars
  <2>28. ASSUME NEW a \in Attempts, WorkerFinish(a) PROVE TypeOK'
    <3>1. msgs' \in SUBSET Message
      BY <2>28 DEF TypeOK, WorkerFinish, Send, Message
    <3> QED
      BY <2>28, <3>1 DEF TypeOK, WorkerFinish, genVars, attVars, poolVars, txVars
  <2>29. ASSUME NEW a \in Attempts, WorkerCrash(a) PROVE TypeOK'
    BY <2>29 DEF TypeOK, WorkerCrash, genVars, attVars, poolVars, txVars
  <2>30. ASSUME NEW a \in Attempts, SessionDrop(a) PROVE TypeOK'
    BY <2>30 DEF TypeOK, SessionDrop, genVars, attVars, poolVars, txVars
  <2>31. ASSUME NEW a \in Attempts, LeaseLapse(a) PROVE TypeOK'
    BY <2>31 DEF TypeOK, LeaseLapse, genVars, poolVars, txVars, workerVars
  <2>32. ASSUME NEW a \in Attempts, DeadlinePass(a) PROVE TypeOK'
    BY <2>32 DEF TypeOK, DeadlinePass, genVars, poolVars, txVars, workerVars
  <2>33. ASSUME NEW a \in Attempts, WorkerHang(a) PROVE TypeOK'
    BY <2>33 DEF TypeOK, WorkerHang, genVars, attVars, poolVars, txVars
  <2>34. CASE UNCHANGED vars
    BY <2>34 DEF TypeOK, vars
  <2> QED
    BY <2>1, <2>2, <2>3, <2>4, <2>5, <2>6, <2>7, <2>8, <2>9, <2>10, <2>11,
       <2>12, <2>13, <2>14, <2>15, <2>16, <2>17, <2>18, <2>19, <2>20, <2>21,
       <2>22, <2>23, <2>24, <2>25, <2>26, <2>27, <2>28, <2>29, <2>30, <2>31,
       <2>32, <2>33, <2>34
    DEF Next, ClientNext, SchedulerNext, SettleNext, SweepNext, SessionNext,
       WorkerNext, ClockNext, HandleRunning, HandleResult, HandleFailure,
       HandleAck, HandleRejected, IgnoreRunning, DiscardResult, IgnoreFailure,
       IgnoreAck, IgnoreRejected
<1> QED
  BY <1>1, <1>2, PTL DEF Spec
-----------------------------------------------------------------------------
(***************************************************************************)
(* The steps that touch neither the rows the invariants are about nor an   *)
(* open transaction: the clock, the Workers, CancelRequests and messages   *)
(* that have no effect.                                                    *)
(***************************************************************************)
Quiet == UNCHANGED <<gstate, accepted, count, inputs, rejections, astate, arow,
                     akind, pstate, total, claimed, sched, settle, saw>>

\* A transaction has begun to record a failure of Attempt a.
SettleOpened(a) ==
  /\ \E kind \in FailureKind : SettleOpen(a, kind)
  /\ UNCHANGED <<gstate, accepted, count, inputs, rejections, astate, arow,
                 akind, pstate, total, claimed, sched>>

(***************************************************************************)
(* Every step is quiet, opens a settlement or is one of the transactions.  *)
(***************************************************************************)
LEMMA StepCases ==
  ASSUME TypeOK, [Next]_vars
  PROVE  \/ Quiet
         \/ \E a \in Attempts : SettleOpened(a)
         \/ \E g \in Generations : \/ Submit(g) \/ CancelQueued(g)
                                   \/ CancelCommit(g) \/ ExpireStarved(g)
         \/ \E g \in Generations, p \in Pools, a \in Attempts : AssignOpen(g, p, a)
         \/ AssignCommit
         \/ AssignAbort
         \/ \E a \in Attempts : SettleCommit(a)
         \/ \E m \in msgs : \/ StartAttempt(m) \/ AcceptResult(m)
                            \/ AckLive(m) \/ AckSettled(m) \/ RejectLease(m)
         \/ \E w \in Workers :
              \E report \in [PoolsOf(w) -> PoolReports[w]],
                 newTotal \in [PoolsOf(w) -> SlotCounts] :
                UpsertPools(w, report, newTotal)
<1>1. ASSUME NEW g \in Generations, CancelOpen(g) PROVE Quiet
  BY <1>1 DEF CancelOpen, Quiet, genVars, attVars, poolVars
<1>2. ASSUME NEW a \in Attempts,
             SweepLease(a) \/ SweepDeadline(a)
      PROVE  SettleOpened(a)
  BY <1>2 DEF SweepLease, SweepDeadline, SettleOpened, FailureKind, genVars,
     attVars, poolVars
<1>3. ASSUME NEW a \in Attempts,
             PropagateCancel(a) \/ HeartbeatNotRenewed(a)
      PROVE  Quiet
  BY <1>3 DEF PropagateCancel, HeartbeatNotRenewed, Quiet, genVars, attVars,
     poolVars, txVars
<1>4. ASSUME NEW m \in msgs, ReadNow(m) \/ Ignored(m) PROVE Quiet
  BY <1>4 DEF ReadNow, Ignored, Quiet, genVars, attVars, poolVars, txVars
<1>5. ASSUME NEW m \in msgs, HandleOversizedResult(m) \/ RecordFailure(m)
      PROVE  \E a \in Attempts : SettleOpened(a)
  <2>1. m.att \in Attempts /\ (m.type = "failure" => m.kind \in FailureKind)
    BY LifecycleAssumption DEF TypeOK, Message
  <2>2. CASE HandleOversizedResult(m)
    BY <2>1, <2>2 DEF HandleOversizedResult, SettleOpened, FailureKind,
       genVars, attVars, poolVars
  <2>3. CASE RecordFailure(m)
    BY <2>1, <2>3 DEF RecordFailure, SettleOpened, genVars, attVars, poolVars
  <2> QED
    BY <1>5, <2>2, <2>3
<1>6. ASSUME NEW a \in Attempts,
             \/ WorkerAccept(a) \/ WorkerReject(a) \/ WorkerStart(a)
             \/ WorkerCancel(a) \/ WorkerFinish(a) \/ WorkerCrash(a)
             \/ SessionDrop(a) \/ WorkerHang(a)
      PROVE  Quiet
  BY <1>6 DEF WorkerAccept, WorkerReject, WorkerStart, WorkerCancel,
     WorkerFinish, WorkerCrash, SessionDrop, WorkerHang, Quiet, genVars,
     attVars, poolVars, txVars
<1>7. ASSUME NEW a \in Attempts, LeaseLapse(a) \/ DeadlinePass(a) PROVE Quiet
  BY <1>7 DEF LeaseLapse, DeadlinePass, Quiet, genVars, poolVars, txVars
<1>8. CASE UNCHANGED vars
  BY <1>8 DEF vars, Quiet
<1> QED
  BY <1>1, <1>2, <1>3, <1>4, <1>5, <1>6, <1>7, <1>8
  DEF Next, ClientNext, SchedulerNext, SettleNext, SweepNext, SessionNext,
     WorkerNext, ClockNext, HandleRunning, HandleResult, HandleFailure,
     HandleAck, HandleRejected, IgnoreRunning, DiscardResult, IgnoreFailure,
     IgnoreAck, IgnoreRejected
-----------------------------------------------------------------------------
(***************************************************************************)
(* Locks and single execution are inductive together: the lock on a queued *)
(* Generation keeps a second Attempt away, and it is because a Generation  *)
(* with a live Attempt is never queued that the lock is never stolen.      *)
(***************************************************************************)
LockInv == LockDiscipline /\ SingleExecution

\* The message's Attempt and its row are well-typed.
LEMMA MessageTypes ==
  ASSUME TypeOK, NEW m \in msgs
  PROVE  /\ m.att \in Attempts
         /\ arow[m.att].gen \in Generations
         /\ arow[m.att].pool \in Pools
  BY DEF TypeOK, Message, AttemptRow

\* Releasing a Slot only adds free Slots.
LEMMA ReleaseKeepsFree ==
  ASSUME TypeOK, NEW p \in Pools, NEW q \in Pools, ReleaseSlot(p),
         UNCHANGED <<pstate, total>>, FreeSlot(q)
  PROVE  FreeSlot(q)'
<1>1. claimed[q] \in Nat /\ total[q] \in Nat
  <2>1. \A n \in SlotCounts \cup {0} : n \in Nat
    BY LifecycleAssumption
  <2>2. claimed[q] \in Nat /\ total[q] \in SlotCounts \cup {0}
    BY DEF TypeOK
  <2> QED
    BY <2>1, <2>2
<1>2. claimed'[q] = IF p = q /\ claimed[q] > 0 THEN claimed[q] - 1
                     ELSE claimed[q]
  BY <1>1 DEF ReleaseSlot, TypeOK
<1>3. claimed'[q] < total[q]
  BY <1>1, <1>2 DEF FreeSlot
<1> QED
  BY <1>3 DEF FreeSlot, Registered

\* Locks and single execution survive every step.
LEMMA LockInvStep ==
  ASSUME TypeOK, LockInv, [Next]_vars
  PROVE  LockInv'
<1> USE LifecycleAssumption
<1> USE DEF LockInv, LockDiscipline, SingleExecution, Live, AttemptLocked,
        LiveAttempt
<1>0. ASSUME NEW p \in Pools, ReleaseSlot(p), UNCHANGED <<pstate, total, sched, arow>>,
             sched # NoAttempt
      PROVE  FreeSlot(arow[sched].pool)'
  <2>1. arow[sched].pool \in Pools /\ FreeSlot(arow[sched].pool)
    BY <1>0 DEF TypeOK, AttemptRow
  <2> QED
    BY <1>0, <2>1, ReleaseKeepsFree
<1>1. CASE Quiet
  BY <1>1 DEF Quiet, FreeSlot, Registered
<1>2. ASSUME NEW a \in Attempts, SettleOpened(a) PROVE LockInv'
  BY <1>2 DEF FreeSlot, Registered, SettleOpened, SettleOpen, TypeOK
<1>3. ASSUME NEW g \in Generations, Submit(g) PROVE LockInv'
  BY <1>3 DEF FreeSlot, Registered, Submit, TypeOK, attVars, poolVars, txVars
<1>4. ASSUME NEW g \in Generations, CancelQueued(g) PROVE LockInv'
  BY <1>4 DEF FreeSlot, Registered, CancelQueued, GenerationLocked, TypeOK, attVars, poolVars, txVars
<1>5. ASSUME NEW g \in Generations, CancelCommit(g) PROVE LockInv'
  BY <1>5 DEF FreeSlot, Registered, CancelCommit, RequestCancelRunning, TypeOK, attVars, poolVars
<1>6. ASSUME NEW g \in Generations, ExpireStarved(g) PROVE LockInv'
  BY <1>6 DEF FreeSlot, Registered, ExpireStarved, GenerationLocked, TypeOK, attVars, poolVars, txVars
<1>7. ASSUME NEW g \in Generations, NEW p \in Pools, NEW a \in Attempts,
             AssignOpen(g, p, a)
      PROVE  LockInv'
  BY <1>7 DEF FreeSlot, Registered, AssignOpen, Leasable, TypeOK, AttemptRow, genVars, poolVars
<1>8. CASE AssignCommit
  BY <1>8 DEF FreeSlot, Registered, AssignCommit, MarkRunning, TypeOK, AttemptRow
<1>9. CASE AssignAbort
  BY <1>9 DEF FreeSlot, Registered, AssignAbort, TypeOK, genVars, attVars, poolVars
<1>10. ASSUME NEW a \in Attempts, SettleCommit(a) PROVE LockInv'
  BY <1>10, <1>0 DEF SettleCommit, FinishCancelled, Requeue, Fail,
     GenerationLocked, TypeOK, AttemptRow
<1>11. ASSUME NEW m \in msgs, StartAttempt(m) PROVE LockInv'
  BY <1>11, MessageTypes DEF FreeSlot, Registered, StartAttempt, MarkRunning, TypeOK, poolVars, txVars
<1>12. ASSUME NEW m \in msgs, AcceptResult(m) PROVE LockInv'
  BY <1>12, <1>0, MessageTypes DEF AcceptResult, Acceptable,
     GenerationLocked, TypeOK, txVars
<1>13. ASSUME NEW m \in msgs, AckLive(m) PROVE LockInv'
  BY <1>13, <1>0, MessageTypes DEF AckLive, FinishCancelled, TypeOK, txVars
<1>14. ASSUME NEW m \in msgs, AckSettled(m) PROVE LockInv'
  BY <1>14, MessageTypes DEF FreeSlot, Registered, AckSettled, FinishCancelled, TypeOK, attVars,
     poolVars, txVars
<1>15. ASSUME NEW m \in msgs, RejectLease(m) PROVE LockInv'
  BY <1>15, <1>0, MessageTypes DEF RejectLease, Rejectable, TypeOK, txVars
<1>16. ASSUME NEW w \in Workers, NEW report \in [PoolsOf(w) -> PoolReports[w]],
              NEW newTotal \in [PoolsOf(w) -> SlotCounts],
              UpsertPools(w, report, newTotal)
       PROVE  LockInv'
  <2>1. /\ UNCHANGED <<gstate, arow, claimed, sched, settle, saw>>
        /\ \A a \in Attempts : astate'[a] \in {astate[a], "withdrawn"}
    BY <1>16 DEF UpsertPools, txVars
  <2>2. \A a \in Attempts : Live(a)' => Live(a)
    BY <2>1
  <2>3. SingleExecution'
    BY <2>1, <2>2
  <2>4. ASSUME sched # NoAttempt
        PROVE  /\ astate'[sched] = "none" /\ gstate'[arow'[sched].gen] = "queued"
               /\ FreeSlot(arow[sched].pool)'
    <3>1. /\ sched \in Attempts /\ arow[sched].pool \in Pools
          /\ astate[sched] = "none" /\ gstate[arow[sched].gen] = "queued"
          /\ FreeSlot(arow[sched].pool) /\ PoolLocked(arow[sched].pool)
      BY <2>4 DEF TypeOK, AttemptRow, PoolLocked
    <3>2. /\ pstate'[arow[sched].pool] = pstate[arow[sched].pool]
          /\ total'[arow[sched].pool] = total[arow[sched].pool]
      BY <1>16, <3>1 DEF UpsertPools
    <3>3. astate'[sched] = "none"
      BY <1>16, <3>1 DEF UpsertPools, HasRow, AttemptState
    <3> QED
      BY <2>1, <3>1, <3>2, <3>3 DEF FreeSlot, Registered
  <2>5. ASSUME NEW a \in Attempts, AttemptLocked(a)' PROVE Live(a)'
    <3>1. AttemptLocked(a) /\ Live(a) /\ arow[a].pool \in Pools
      BY <2>1, <2>5 DEF TypeOK, AttemptRow
    <3>2. PoolLocked(arow[a].pool)
      BY <3>1 DEF PoolLocked
    <3> QED
      BY <1>16, <3>1, <3>2 DEF UpsertPools
  <2>6. LockDiscipline'
    BY <2>1, <2>4, <2>5
  <2> QED
    BY <2>3, <2>6
<1> QED
  BY <1>1, <1>2, <1>3, <1>4, <1>5, <1>6, <1>7, <1>8, <1>9, <1>10, <1>11,
     <1>12, <1>13, <1>14, <1>15, <1>16, StepCases

(***************************************************************************)
(* At no time do two Attempts of one Generation hold a lease, and the      *)
(* locks of open transactions protect what they checked.                   *)
(***************************************************************************)
THEOREM LockingCorrect == Spec => []Serialised
<1>1. Init => LockInv
  BY DEF Init, LockInv, LockDiscipline, SingleExecution, Live, LiveAttempt,
     AttemptLocked, NoFailure
<1>2. TypeOK /\ LockInv /\ [Next]_vars => LockInv'
  BY LockInvStep
<1>3. LockInv => Serialised
  BY DEF LockInv, Serialised
<1> QED
  BY <1>1, <1>2, <1>3, TypeCorrect, PTL DEF Spec
-----------------------------------------------------------------------------
(***************************************************************************)
(* How Generations end.  LockInv supplies what the settling transactions   *)
(* rely on: the Attempt they settle was live, alone, and of a Generation   *)
(* that is neither queued nor, once it was read as cancelling, running.    *)
(***************************************************************************)
\* Only an Attempt that was leased records a failure.
UntouchedRows == \A a \in Attempts : astate[a] = "none" => akind[a] = NoFailure

OutcomeInv ==
  /\ AcceptedResult /\ InputsKept /\ RunningBacked /\ PermanentFailureFinal
  /\ UntouchedRows

\* The outcome of a Generation survives every step.
LEMMA OutcomeInvStep ==
  ASSUME TypeOK, LockInv, OutcomeInv, [Next]_vars
  PROVE  OutcomeInv'
<1> USE LifecycleAssumption
<1> USE DEF OutcomeInv, AcceptedResult, InputsKept, RunningBacked,
        PermanentFailureFinal, UntouchedRows, AttemptsOf, Terminal, TerminalGeneration, HasRow,
        AttemptState, Live, LiveAttempt
<1>1. CASE Quiet
  BY <1>1 DEF Quiet
<1>2. ASSUME NEW a \in Attempts, SettleOpened(a) PROVE OutcomeInv'
  BY <1>2 DEF SettleOpened
<1>3. ASSUME NEW g \in Generations, Submit(g) PROVE OutcomeInv'
  BY <1>3 DEF Submit, TypeOK, attVars
<1>4. ASSUME NEW g \in Generations, CancelQueued(g) PROVE OutcomeInv'
  BY <1>4 DEF CancelQueued, TypeOK, attVars
<1>5. ASSUME NEW g \in Generations, CancelCommit(g) PROVE OutcomeInv'
  BY <1>5 DEF CancelCommit, RequestCancelRunning, TypeOK, attVars
<1>6. ASSUME NEW g \in Generations, ExpireStarved(g) PROVE OutcomeInv'
  BY <1>6 DEF ExpireStarved, TypeOK, attVars
<1>7. ASSUME NEW g \in Generations, NEW p \in Pools, NEW a \in Attempts,
             AssignOpen(g, p, a)
      PROVE  OutcomeInv'
  BY <1>7 DEF AssignOpen, TypeOK, AttemptRow, genVars
<1>8. CASE AssignCommit
  <2> DEFINE g == arow[sched].gen
  <2>1. /\ sched \in Attempts /\ g \in Generations
        /\ gstate[g] = "queued" /\ astate[sched] = "none"
    BY <1>8 DEF AssignCommit, LockInv, LockDiscipline, TypeOK, AttemptRow
  <2>2. /\ gstate' = [gstate EXCEPT ![g] = "running"]
        /\ astate' = [astate EXCEPT ![sched] = "leased"]
        /\ UNCHANGED <<accepted, inputs, arow, akind>>
    BY <1>8, <2>1 DEF AssignCommit, MarkRunning
  <2>3. RunningBacked'
    BY <2>1, <2>2 DEF TypeOK
  <2>4. AcceptedResult' /\ InputsKept'
    BY <2>1, <2>2 DEF TypeOK
  <2>5. PermanentFailureFinal'
    <3>1. akind[sched] = NoFailure
      BY <2>1
    <3> QED
      BY <2>1, <2>2, <3>1 DEF TypeOK, NoFailure
  <2>6. UntouchedRows'
    BY <2>1, <2>2 DEF TypeOK
  <2> QED
    BY <2>3, <2>4, <2>5, <2>6
<1>9. CASE AssignAbort
  BY <1>9 DEF AssignAbort, genVars, attVars
<1>10. ASSUME NEW a \in Attempts, SettleCommit(a) PROVE OutcomeInv'
  <2> DEFINE g == arow[a].gen
             permanent == settle[a] \in {"invalid_input", "unsupported_capability",
                                         "model_unavailable", "execution_timed_out",
                                         "cancelled", "internal"}
  <2>1. /\ g \in Generations /\ Live(a)
        /\ gstate[g] \notin {"absent", "queued"}
        /\ saw[a] = "cancelling" => gstate[g] # "running"
    BY <1>10 DEF SettleCommit, LockInv, LockDiscipline, SingleExecution,
       AttemptLocked, TypeOK, AttemptRow
  <2>2. /\ astate' = [astate EXCEPT ![a] = IF settle[a] = "lease_expired"
                                           THEN "lease_expired" ELSE "failed"]
        /\ akind' = [akind EXCEPT ![a] = settle[a]]
        /\ UNCHANGED <<accepted, arow>>
    BY <1>10 DEF SettleCommit
  <2>3. PICK decision \in {"requeue", "fail"} :
          /\ saw[a] = "cancelling" => decision = "fail"
          /\ permanent => decision = "fail"
          /\ gstate' = [gstate EXCEPT ![g] =
                          IF saw[a] = "cancelling" THEN FinishCancelled(gstate[g])
                          ELSE IF decision = "requeue" THEN Requeue(gstate[g])
                          ELSE Fail(gstate[g])]
          /\ inputs' = [inputs EXCEPT ![g] = @ /\ decision # "fail"]
    BY <1>10 DEF SettleCommit, RetryDecision, Retryable, SettlesGeneration
  <2>4. /\ gstate'[g] # "running"
        /\ gstate'[g] = "succeeded" <=> gstate[g] = "succeeded"
        /\ gstate[g] \in TerminalGeneration => gstate'[g] = gstate[g]
        /\ decision = "fail" => gstate'[g] \in TerminalGeneration
        /\ decision # "fail" => (gstate'[g] \in {"queued", "running", "cancelling"}
                                 <=> gstate[g] \in {"queued", "running", "cancelling"})
    BY <2>1, <2>3 DEF FinishCancelled, Requeue, Fail, TypeOK, GenerationRowState,
       GenerationState
  <2>5. \A h \in Generations \ {g} : gstate'[h] = gstate[h] /\ inputs'[h] = inputs[h]
    BY <2>3 DEF TypeOK
  <2>6. AcceptedResult'
    BY <2>1, <2>2, <2>4, <2>5 DEF TypeOK
  <2>7. InputsKept'
    <3>1. inputs'[g] = (inputs[g] /\ decision # "fail")
      BY <2>1, <2>3 DEF TypeOK
    <3>2. CASE decision = "fail"
      <4>1. gstate'[g] \notin {"queued", "running", "cancelling"}
        BY <2>4, <3>2
      <4> QED
        BY <4>1, <3>1, <3>2, <2>5
    <3>3. CASE decision # "fail"
      <4>1. gstate'[g] \in {"queued", "running", "cancelling"}
              <=> gstate[g] \in {"queued", "running", "cancelling"}
        BY <2>4, <3>3
      <4>2. inputs[g] <=> gstate[g] \in {"queued", "running", "cancelling"}
        BY <2>1
      <4>3. inputs'[g] <=> inputs[g]
        BY <3>1, <3>3
      <4> QED
        BY <4>1, <4>2, <4>3, <2>5
    <3> QED
      BY <3>2, <3>3
  <2>8. RunningBacked'
    <3> SUFFICES ASSUME NEW h \in Generations, gstate'[h] = "running"
                 PROVE  \E b \in AttemptsOf(h)' : Live(b)' \/ astate'[b] = "withdrawn"
      OBVIOUS
    <3>1. h # g /\ gstate[h] = "running"
      BY <2>4, <2>5
    <3>2. PICK b \in AttemptsOf(h) : Live(b) \/ astate[b] = "withdrawn"
      BY <3>1
    <3>3. b \in Attempts /\ b # a /\ arow[b].gen = h
      BY <3>1, <3>2
    <3>4. astate'[b] = astate[b] /\ arow'[b] = arow[b]
      BY <2>2, <3>3 DEF TypeOK
    <3> QED
      BY <3>2, <3>3, <3>4
  <2>9. PermanentFailureFinal'
    BY <2>1, <2>2, <2>3, <2>4, <2>5 DEF TypeOK, AttemptRow
  <2>10. UntouchedRows'
    BY <2>1, <2>2 DEF TypeOK
  <2> QED
    BY <2>6, <2>7, <2>8, <2>9, <2>10
<1>11. ASSUME NEW m \in msgs, StartAttempt(m) PROVE OutcomeInv'
  BY <1>11, MessageTypes DEF StartAttempt, MarkRunning, LockInv,
     SingleExecution, TypeOK
<1>12. ASSUME NEW m \in msgs, AcceptResult(m) PROVE OutcomeInv'
  <2> DEFINE a == m.att
             g == arow[a].gen
  <2>1. /\ a \in Attempts /\ g \in Generations /\ accepted[g] = NoAttempt
        /\ astate[a] \in {"leased", "running"}
    BY <1>12, MessageTypes DEF AcceptResult, Acceptable
  <2>2. /\ astate' = [astate EXCEPT ![a] = "succeeded"]
        /\ gstate' = [gstate EXCEPT ![g] = "succeeded"]
        /\ accepted' = [accepted EXCEPT ![g] = a]
        /\ inputs' = [inputs EXCEPT ![g] = FALSE]
        /\ arow' = arow /\ akind' = akind
    BY <1>12 DEF AcceptResult
  <2>3. /\ astate \in [Attempts -> AttemptRowState] /\ NoAttempt \notin Attempts
        /\ gstate \in [Generations -> GenerationRowState]
        /\ accepted \in [Generations -> Attempts \cup {NoAttempt}]
        /\ inputs \in [Generations -> BOOLEAN]
        /\ arow \in [Attempts -> AttemptRow]
    BY DEF TypeOK
  <2> HIDE DEF a, g
  <2>4. g = arow[a].gen
    BY DEF a, g
  <2>5. AcceptedResult'
    <3>1. \A h \in Generations : accepted[h] # a
      BY <2>1, <2>3
    <3> QED
      BY <2>1, <2>2, <2>3, <2>4, <3>1
  <2>6. InputsKept'
    BY <2>1, <2>2, <2>3
  <2>7. RunningBacked'
    <3> SUFFICES ASSUME NEW h \in Generations, gstate'[h] = "running"
                 PROVE  \E b \in AttemptsOf(h)' : Live(b)' \/ astate'[b] = "withdrawn"
      OBVIOUS
    <3>1. h # g /\ gstate[h] = "running"
      BY <2>1, <2>2, <2>3
    <3>2. PICK b \in AttemptsOf(h) : Live(b) \/ astate[b] = "withdrawn"
      BY <3>1
    <3>3. b \in Attempts /\ b # a /\ arow[b].gen = h
      BY <2>4, <3>1, <3>2
    <3>4. astate'[b] = astate[b] /\ arow'[b] = arow[b]
      BY <2>2, <2>3, <3>3
    <3> QED
      BY <3>2, <3>3, <3>4
  <2>8. PermanentFailureFinal'
    BY <2>1, <2>2, <2>3, <2>4 DEF AttemptRow
  <2>9. UntouchedRows'
    BY <2>1, <2>2, <2>3
  <2> QED
    BY <2>5, <2>6, <2>7, <2>8, <2>9
<1>13. ASSUME NEW m \in msgs, AckLive(m) PROVE OutcomeInv'
  BY <1>13, MessageTypes DEF AckLive, FinishCancelled, TypeOK
<1>14. ASSUME NEW m \in msgs, AckSettled(m) PROVE OutcomeInv'
  BY <1>14, MessageTypes DEF AckSettled, FinishCancelled, TypeOK, attVars
<1>15. ASSUME NEW m \in msgs, RejectLease(m) PROVE OutcomeInv'
  BY <1>15, MessageTypes DEF RejectLease, Rejectable, TypeOK
<1>16. ASSUME NEW w \in Workers, NEW report \in [PoolsOf(w) -> PoolReports[w]],
              NEW newTotal \in [PoolsOf(w) -> SlotCounts],
              UpsertPools(w, report, newTotal)
       PROVE  OutcomeInv'
  BY <1>16 DEF UpsertPools, NoneAccepted, TypeOK
<1> QED
  BY <1>1, <1>2, <1>3, <1>4, <1>5, <1>6, <1>7, <1>8, <1>9, <1>10, <1>11,
     <1>12, <1>13, <1>14, <1>15, <1>16, StepCases

LEMMA OutcomeInvariance == Spec => []OutcomeInv
<1>1. Init => OutcomeInv
  BY LifecycleAssumption
     DEF Init, OutcomeInv, AcceptedResult, InputsKept, RunningBacked,
     PermanentFailureFinal, UntouchedRows, HasRow, AttemptState
<1>2. TypeOK /\ LockInv /\ OutcomeInv /\ [Next]_vars => OutcomeInv'
  BY OutcomeInvStep
<1>3. Serialised => LockInv
  BY DEF LockInv, Serialised
<1> QED
  BY <1>1, <1>2, <1>3, TypeCorrect, LockingCorrect, PTL DEF Spec

(***************************************************************************)
(* A Generation succeeds with its one Accepted Result, which is an Attempt *)
(* of its own, and no Attempt succeeds without being accepted.             *)
(***************************************************************************)
THEOREM AcceptanceCorrect == Spec => []AcceptedResult
<1>1. OutcomeInv => AcceptedResult
  BY DEF OutcomeInv
<1> QED
  BY <1>1, OutcomeInvariance, PTL

(***************************************************************************)
(* The inputs of a Generation exist exactly while it is unfinished.        *)
(***************************************************************************)
THEOREM InputsCorrect == Spec => []InputsKept
<1>1. OutcomeInv => InputsKept
  BY DEF OutcomeInv
<1> QED
  BY <1>1, OutcomeInvariance, PTL

(***************************************************************************)
(* A Generation runs only because of an Attempt that is live or was        *)
(* withdrawn, and a permanent failure ends it.                             *)
(***************************************************************************)
THEOREM FollowsCorrect == Spec => []FollowsAttempts
<1>1. OutcomeInv => FollowsAttempts
  BY DEF OutcomeInv, FollowsAttempts
<1> QED
  BY <1>1, OutcomeInvariance, PTL
-----------------------------------------------------------------------------
(***************************************************************************)
(* What a retry may not repeat.  The check of the exclusions and the       *)
(* attempt_number are taken when the assignment opens and used when it     *)
(* commits (AssignClear); a rejection is remembered as long as its Pool    *)
(* can be leased (RejectionsKept); and rolling attempt_count back frees    *)
(* the number of the deleted row because a live Attempt is the latest      *)
(* (LiveLatest).                                                           *)
(***************************************************************************)
RejectionsKept ==
  \A b \in Attempts : astate[b] = "rejected" =>
    \/ arow[b].pool \in rejections[arow[b].gen]
    \/ pstate[arow[b].pool] = "deleted"
AssignClear ==
  sched # NoAttempt =>
    /\ arow[sched].num = count[arow[sched].gen] + 1
    /\ \A b \in Attempts :
         arow[b].gen = arow[sched].gen /\ arow[b].pool = arow[sched].pool =>
           astate[b] # "rejected" /\ (HasRow(b) => akind[b] # "out_of_memory")
LiveLatest == \A a \in Attempts : Live(a) => arow[a].num = count[arow[a].gen]
RetryInv == ExclusionRespected /\ AttemptNumbers /\ RejectionsKept /\ AssignClear
              /\ LiveLatest

\* Attempts only settle or lose their row, and nothing is numbered anew.
LEMMA RetryFrame ==
  ASSUME TypeOK, RetryInv, UNCHANGED <<count, arow>>, sched' \in {sched, NoAttempt},
         \A b \in Attempts :
           /\ Live(b)' => Live(b)
           /\ HasRow(b)' => HasRow(b)
           /\ astate'[b] = "rejected" => astate[b] = "rejected"
           /\ HasRow(b)' /\ akind'[b] = "out_of_memory" => akind[b] = "out_of_memory",
         \A b \in Attempts :
           \/ arow[b].pool \in rejections[arow[b].gen] =>
                arow[b].pool \in rejections'[arow[b].gen]
           \/ pstate'[arow[b].pool] = "deleted",
         \A p \in Pools : pstate[p] = "deleted" => pstate'[p] = "deleted"
  PROVE  RetryInv'
<1>1. \A b \in Attempts : arow[b].pool \in Pools
  BY DEF TypeOK, AttemptRow
<1>2. ExclusionRespected'
  BY DEF RetryInv, ExclusionRespected
<1>3. AttemptNumbers'
  BY DEF RetryInv, AttemptNumbers
<1>4. RejectionsKept'
  BY <1>1 DEF RetryInv, RejectionsKept
<1>5. AssignClear'
  BY DEF RetryInv, AssignClear
<1>6. LiveLatest'
  BY DEF RetryInv, LiveLatest
<1> QED
  BY <1>2, <1>3, <1>4, <1>5, <1>6 DEF RetryInv

\* The steps that neither assign, reject nor record a failure.
LEMMA RetryEasy ==
  ASSUME TypeOK, LockInv, RetryInv,
         \/ Quiet \/ AssignAbort
         \/ \E a \in Attempts : SettleOpened(a)
         \/ \E g \in Generations : \/ Submit(g) \/ CancelQueued(g)
                                   \/ CancelCommit(g) \/ ExpireStarved(g)
         \/ \E m \in msgs : \/ StartAttempt(m) \/ AcceptResult(m)
                            \/ AckLive(m) \/ AckSettled(m)
  PROVE  RetryInv'
<1>1. /\ UNCHANGED <<count, arow, rejections, akind, pstate>>
      /\ sched' \in {sched, NoAttempt}
  BY DEF Quiet, AssignAbort, SettleOpened, Submit, CancelQueued, CancelCommit,
     ExpireStarved, StartAttempt, AcceptResult, AckLive, AckSettled, genVars, attVars,
     poolVars, txVars
<1>2. ASSUME NEW b \in Attempts
      PROVE  /\ Live(b)' => Live(b) /\ HasRow(b)
             /\ HasRow(b)' => HasRow(b)
             /\ astate'[b] = "rejected" => astate[b] = "rejected"
  <2>1. CASE UNCHANGED astate
    BY <2>1 DEF Live, HasRow, LiveAttempt, AttemptState
  <2>2. ASSUME NEW m \in msgs, StartAttempt(m) \/ AcceptResult(m) \/ AckLive(m)
        PROVE  /\ Live(b)' => Live(b) /\ HasRow(b)
               /\ HasRow(b)' => HasRow(b)
               /\ astate'[b] = "rejected" => astate[b] = "rejected"
    <3>1. m.att \in Attempts /\ Live(m.att)
      BY <2>2, MessageTypes DEF StartAttempt, AcceptResult, Acceptable, AckLive, Live, LiveAttempt
    <3>2. PICK s \in {"running", "succeeded", "cancelled"} :
            astate' = [astate EXCEPT ![m.att] = s]
      BY <2>2 DEF StartAttempt, AcceptResult, AckLive
    <3> QED
      BY <3>1, <3>2 DEF TypeOK, Live, HasRow, LiveAttempt, AttemptState
  <2> QED
    BY <2>1, <2>2 DEF Quiet, AssignAbort, SettleOpened, Submit, CancelQueued, CancelCommit,
       ExpireStarved, AckSettled, attVars
<1> QED
  BY <1>1, <1>2, RetryFrame

LEMMA RetryUpsert ==
  ASSUME TypeOK, RetryInv, NEW w \in Workers, NEW report \in [PoolsOf(w) -> PoolReports[w]],
         NEW newTotal \in [PoolsOf(w) -> SlotCounts], UpsertPools(w, report, newTotal)
  PROVE  RetryInv'
<1>1. PICK gone \in SUBSET Pools :
        /\ \A g \in Generations : rejections'[g] = rejections[g] \ gone
        /\ \A p \in gone : pstate'[p] = "deleted"
  <2> DEFINE kept == {p \in PoolsOf(w) : report[p] # "absent"}
             gone == {p \in PoolsOf(w) : Registered(p)} \ kept
  <2>1. gone \in SUBSET Pools
    BY DEF PoolsOf
  <2>2. \A g \in Generations : rejections'[g] = rejections[g] \ gone
    BY DEF UpsertPools
  <2>3. \A p \in gone : pstate'[p] = "deleted"
    BY <2>1 DEF UpsertPools
  <2> QED
    BY <2>1, <2>2, <2>3
<1>2. \A b \in Attempts :
        \/ arow[b].pool \in rejections[arow[b].gen] =>
             arow[b].pool \in rejections'[arow[b].gen]
        \/ pstate'[arow[b].pool] = "deleted"
  <2>1. \A b \in Attempts : arow[b].gen \in Generations
    BY DEF TypeOK, AttemptRow
  <2> QED
    BY <1>1, <2>1
<1>3. \A p \in Pools : pstate[p] = "deleted" => pstate'[p] = "deleted"
  BY DEF UpsertPools, Registered
<1>4. UNCHANGED <<count, arow, akind, sched>>
  BY DEF UpsertPools, txVars
<1>5. \A b \in Attempts : astate'[b] \in {astate[b], "withdrawn"}
  BY DEF UpsertPools
<1>6. \A b \in Attempts :
        /\ Live(b)' => Live(b)
        /\ HasRow(b)' => HasRow(b)
        /\ astate'[b] = "rejected" => astate[b] = "rejected"
  BY <1>5 DEF Live, HasRow, LiveAttempt, AttemptState
<1> QED
  BY <1>2, <1>3, <1>4, <1>6, RetryFrame

\* The check of the exclusions covers every earlier Attempt on the Pool.
LEMMA RetryAssignOpen ==
  ASSUME TypeOK, RetryInv, NEW g \in Generations, NEW p \in Pools, NEW a \in Attempts,
         AssignOpen(g, p, a)
  PROVE  RetryInv'
<1> USE LifecycleAssumption
<1>1. /\ astate[a] = "none" /\ ~Live(a) /\ ~HasRow(a) /\ sched' = a
      /\ UNCHANGED <<count, rejections, astate, akind, pstate>>
  BY DEF AssignOpen, genVars, poolVars, Live, LiveAttempt, HasRow, AttemptState
<1>2. /\ arow'[a].gen = g /\ arow'[a].pool = p /\ arow'[a].num = count[g] + 1
      /\ \A b \in Attempts \ {a} : arow'[b] = arow[b]
  BY DEF AssignOpen, AttemptNumber, TypeOK
<1>3. \A b \in Attempts : /\ Live(b)' <=> Live(b)
                          /\ HasRow(b)' <=> HasRow(b)
  BY <1>1 DEF Live, HasRow
<1>4. p \notin ExcludedPools(g) /\ pstate[p] # "deleted"
  BY DEF AssignOpen, FreeSlot, Registered
<1>5. ASSUME NEW b \in Attempts \ {a}, arow[b].gen = g, arow[b].pool = p
      PROVE  astate[b] # "rejected" /\ (HasRow(b) => akind[b] # "out_of_memory")
  <2>1. astate[b] # "rejected"
    BY <1>4, <1>5 DEF RetryInv, RejectionsKept, ExcludedPools
  <2>2. HasRow(b) => akind[b] # "out_of_memory"
    BY <1>4, <1>5 DEF ExcludedPools
  <2> QED
    BY <2>1, <2>2
<1>6. ExclusionRespected'
  BY <1>1, <1>2, <1>3 DEF RetryInv, ExclusionRespected
<1>7. AttemptNumbers'
  BY <1>1, <1>2, <1>3 DEF RetryInv, AttemptNumbers
<1>8. RejectionsKept'
  BY <1>1, <1>2 DEF RetryInv, RejectionsKept
<1>9. AssignClear'
  BY <1>1, <1>2, <1>3, <1>5 DEF AssignClear
<1>10. LiveLatest'
  BY <1>1, <1>2, <1>3 DEF RetryInv, LiveLatest
<1> QED
  BY <1>6, <1>7, <1>8, <1>9, <1>10 DEF RetryInv

\* What was checked then still holds at the commit.
LEMMA RetryAssignCommit ==
  ASSUME TypeOK, LockInv, RetryInv, UntouchedRows, AssignCommit
  PROVE  RetryInv'
<1> USE LifecycleAssumption
<1>1. PICK a \in Attempts : a = sched
  BY DEF AssignCommit, TypeOK
<1>2. PICK g \in Generations : g = arow[a].gen
  BY DEF TypeOK, AttemptRow
<1>3. /\ astate[a] = "none" /\ gstate[g] = "queued" /\ akind[a] = NoFailure
      /\ arow[a].num = count[g] + 1 /\ count[g] \in Nat
      /\ \A b \in Attempts : arow[b].gen = g /\ arow[b].pool = arow[a].pool =>
           astate[b] # "rejected" /\ (HasRow(b) => akind[b] # "out_of_memory")
  <2>1. sched # NoAttempt
    BY DEF AssignCommit
  <2>2. astate[a] = "none" /\ gstate[g] = "queued" /\ akind[a] = NoFailure
    BY <1>1, <1>2, <2>1 DEF LockInv, LockDiscipline, UntouchedRows
  <2>3. count[g] \in Nat
    BY DEF TypeOK
  <2> QED
    BY <1>1, <1>2, <2>1, <2>2, <2>3 DEF RetryInv, AssignClear
<1>4. /\ astate'[a] = "leased" /\ count'[g] = count[g] + 1 /\ sched' = NoAttempt
      /\ \A b \in Attempts \ {a} : astate'[b] = astate[b]
      /\ \A h \in Generations \ {g} : count'[h] = count[h]
      /\ UNCHANGED <<arow, akind, rejections, pstate>>
  BY <1>1, <1>2, <1>3 DEF AssignCommit, TypeOK
<1>5. \A b \in Attempts \ {a} : (Live(b)' <=> Live(b)) /\ (HasRow(b)' <=> HasRow(b))
  BY <1>4 DEF Live, HasRow
<1>6. \A b \in Attempts : Live(b) => arow[b].gen # g
  BY <1>3 DEF LockInv, SingleExecution
<1>7. \A b \in Attempts : arow[b].gen \in Generations /\ count[arow[b].gen] \in Nat
  BY DEF TypeOK, AttemptRow
<1>8. ExclusionRespected'
  <2> SUFFICES ASSUME NEW x \in Attempts, NEW y \in Attempts, Live(x)',
                      arow[x].gen = arow[y].gen, arow[x].pool = arow[y].pool
               PROVE  astate'[y] # "rejected" /\ (HasRow(y)' => akind[y] # "out_of_memory")
    BY <1>4 DEF ExclusionRespected
  <2>1. CASE y = a
    BY <1>3, <1>4, <2>1 DEF NoFailure
  <2>2. CASE y # a /\ x = a
    BY <1>2, <1>3, <1>4, <1>5, <2>2
  <2>3. CASE y # a /\ x # a
    BY <1>4, <1>5, <2>3 DEF RetryInv, ExclusionRespected
  <2> QED
    BY <2>1, <2>2, <2>3
<1>9. AttemptNumbers'
  <2> SUFFICES ASSUME NEW x \in Attempts, NEW y \in Attempts, HasRow(x)'
               PROVE  /\ arow[x].num <= count'[arow[x].gen]
                      /\ (HasRow(y)' /\ x # y /\ arow[x].gen = arow[y].gen)
                           => arow[x].num # arow[y].num
    BY <1>4 DEF AttemptNumbers
  <2>1. \A b \in Attempts \ {a} : HasRow(b)' =>
          /\ arow[b].num <= count[arow[b].gen]
          /\ arow[b].num \in Nat
    BY <1>5 DEF RetryInv, AttemptNumbers, TypeOK, AttemptRow
  <2>2. CASE x = a /\ y = a
    BY <1>2, <1>3, <1>4, <2>2
  <2>3. CASE x = a /\ y # a
    BY <1>2, <1>3, <1>4, <2>1, <2>3
  <2>4. CASE x # a /\ y = a
    BY <1>2, <1>3, <1>4, <1>7, <2>1, <2>4
  <2>5. CASE x # a /\ y # a
    <3>1. arow[x].num <= count'[arow[x].gen]
      BY <1>3, <1>4, <1>7, <2>1, <2>5
    <3> QED
      BY <1>5, <2>5, <3>1 DEF RetryInv, AttemptNumbers
  <2> QED
    BY <2>2, <2>3, <2>4, <2>5
<1>10. RejectionsKept'
  BY <1>4 DEF RetryInv, RejectionsKept
<1>11. LiveLatest'
  <2> SUFFICES ASSUME NEW x \in Attempts, Live(x)' PROVE arow[x].num = count'[arow[x].gen]
    BY <1>4 DEF LiveLatest
  <2>1. CASE x = a
    BY <1>2, <1>3, <1>4, <2>1
  <2>2. CASE x # a
    BY <1>4, <1>5, <1>6, <1>7, <2>2 DEF RetryInv, LiveLatest
  <2> QED
    BY <2>1, <2>2
<1>12. AssignClear'
  BY <1>4 DEF AssignClear
<1> QED
  BY <1>8, <1>9, <1>10, <1>11, <1>12 DEF RetryInv

\* A failure excludes a Pool for a Generation nothing else is leased for.
LEMMA RetrySettle ==
  ASSUME TypeOK, LockInv, RetryInv, NEW a \in Attempts, SettleCommit(a)
  PROVE  RetryInv'
<1>1. Live(a) /\ gstate[arow[a].gen] # "queued"
  BY DEF SettleCommit, LockInv, LockDiscipline, SingleExecution
<1>2. /\ astate'[a] \in {"lease_expired", "failed"}
      /\ \A b \in Attempts \ {a} : astate'[b] = astate[b] /\ akind'[b] = akind[b]
      /\ UNCHANGED <<arow, count, rejections, pstate, sched>>
  BY DEF SettleCommit, TypeOK
<1>3. /\ ~Live(a)' /\ HasRow(a)
      /\ \A b \in Attempts \ {a} : (Live(b)' <=> Live(b)) /\ (HasRow(b)' <=> HasRow(b))
  BY <1>1, <1>2 DEF Live, HasRow, LiveAttempt, AttemptState
<1>4. \A b \in Attempts \ {a} : Live(b) => arow[b].gen # arow[a].gen
  BY <1>1 DEF LockInv, SingleExecution
<1>5. sched # NoAttempt => arow[sched].gen # arow[a].gen
  BY <1>1 DEF LockInv, LockDiscipline
<1>6. ExclusionRespected'
  BY <1>2, <1>3, <1>4 DEF RetryInv, ExclusionRespected
<1>7. AttemptNumbers'
  BY <1>2, <1>3 DEF RetryInv, AttemptNumbers
<1>8. RejectionsKept'
  BY <1>2 DEF RetryInv, RejectionsKept
<1>9. AssignClear'
  BY <1>2, <1>3, <1>5 DEF RetryInv, AssignClear
<1>10. LiveLatest'
  BY <1>2, <1>3 DEF RetryInv, LiveLatest
<1> QED
  BY <1>6, <1>7, <1>8, <1>9, <1>10 DEF RetryInv

\* A rejected lease frees the number of the latest row, which is its own.
LEMMA RetryReject ==
  ASSUME TypeOK, LockInv, RetryInv, NEW m \in msgs, RejectLease(m)
  PROVE  RetryInv'
<1>1. PICK a \in Attempts : a = m.att
  BY MessageTypes
<1>2. PICK g \in Generations : g = arow[a].gen
  BY DEF TypeOK, AttemptRow
<1>3. astate[a] = "leased" /\ Live(a) /\ HasRow(a) /\ gstate[g] = "running"
  BY <1>1, <1>2 DEF RejectLease, Rejectable, Live, LiveAttempt, HasRow, AttemptState
<1>4. /\ astate' = [astate EXCEPT ![a] = "rejected"]
      /\ rejections' = [rejections EXCEPT ![g] = @ \cup {arow[a].pool}]
      /\ count' = [count EXCEPT ![g] = RollBack(@)]
      /\ UNCHANGED <<arow, akind, pstate, sched>>
  BY <1>1, <1>2 DEF RejectLease, txVars
<1>5. /\ count[g] = arow[a].num /\ arow[a].num \in Nat \ {0} /\ count'[g] = count[g] - 1
      /\ \A h \in Generations \ {g} : count'[h] = count[h]
  <2>1. count[g] = arow[a].num
    BY <1>2, <1>3 DEF RetryInv, LiveLatest
  <2>2. arow[a].num \in Nat \ {0}
    BY LifecycleAssumption DEF TypeOK, AttemptRow
  <2> QED
    BY <1>4, <2>1, <2>2 DEF TypeOK, RollBack
<1>6. /\ ~Live(a)' /\ ~HasRow(a)' /\ astate'[a] = "rejected"
      /\ \A b \in Attempts \ {a} : /\ astate'[b] = astate[b]
                                  /\ (Live(b)' <=> Live(b)) /\ (HasRow(b)' <=> HasRow(b))
  BY <1>4 DEF TypeOK, Live, HasRow, LiveAttempt, AttemptState
<1>7. \A b \in Attempts \ {a} : Live(b) => arow[b].gen # g
  BY <1>2, <1>3 DEF LockInv, SingleExecution
<1>8. sched # NoAttempt => arow[sched].gen # g /\ arow[sched].gen \in Generations
  BY <1>3, LifecycleAssumption DEF LockInv, LockDiscipline, TypeOK, AttemptRow
<1>9. \A b \in Attempts : /\ arow[b].gen \in Generations /\ arow[b].num \in Nat
                          /\ count[arow[b].gen] \in Nat
  BY LifecycleAssumption DEF TypeOK, AttemptRow
<1>10. ExclusionRespected'
  BY <1>2, <1>4, <1>6, <1>7 DEF RetryInv, ExclusionRespected
<1>11. AttemptNumbers'
  <2> SUFFICES ASSUME NEW x \in Attempts, NEW y \in Attempts, HasRow(x)'
               PROVE  /\ arow[x].num <= count'[arow[x].gen]
                      /\ (HasRow(y)' /\ x # y /\ arow[x].gen = arow[y].gen)
                           => arow[x].num # arow[y].num
    BY <1>4 DEF AttemptNumbers
  <2>1. x # a /\ HasRow(x) /\ (HasRow(y)' => HasRow(y))
    BY <1>6
  <2>2. arow[x].num <= count[arow[x].gen]
    BY <2>1 DEF RetryInv, AttemptNumbers
  <2>3. arow[x].gen = g => arow[x].num # arow[a].num
    BY <1>2, <1>3, <2>1 DEF RetryInv, AttemptNumbers
  <2>4. arow[x].num <= count'[arow[x].gen]
    BY <1>5, <1>9, <2>2, <2>3
  <2> QED
    BY <2>1, <2>4 DEF RetryInv, AttemptNumbers
<1>12. RejectionsKept'
  <2> SUFFICES ASSUME NEW b \in Attempts, astate'[b] = "rejected"
               PROVE  \/ arow[b].pool \in rejections'[arow[b].gen]
                      \/ pstate[arow[b].pool] = "deleted"
    BY <1>4 DEF RejectionsKept
  <2>1. CASE b = a
    BY <1>2, <1>4, <2>1 DEF TypeOK
  <2>2. CASE b # a
    BY <1>4, <1>6, <1>9, <2>2 DEF RetryInv, RejectionsKept, TypeOK
  <2> QED
    BY <2>1, <2>2
<1>13. AssignClear'
  BY <1>2, <1>4, <1>5, <1>6, <1>8 DEF RetryInv, AssignClear
<1>14. LiveLatest'
  BY <1>4, <1>5, <1>6, <1>7, <1>9 DEF RetryInv, LiveLatest
<1> QED
  BY <1>10, <1>11, <1>12, <1>13, <1>14 DEF RetryInv

(***************************************************************************)
(* A retry repeats neither a Pool that is excluded for its Generation nor  *)
(* an attempt_number another Attempt of it holds, although the exclusions  *)
(* and the number are read in one transaction and committed later, and a   *)
(* rejection rolls attempt_count back (attempts::create, reject_lease,     *)
(* excluded_pools).                                                        *)
(***************************************************************************)
THEOREM RetryCorrect == Spec => []RetryDiscipline
<1>1. Init => RetryInv
  BY LifecycleAssumption
     DEF Init, RetryInv, ExclusionRespected, AttemptNumbers, RejectionsKept, AssignClear,
     LiveLatest, Live, LiveAttempt, HasRow, AttemptState
<1>2. TypeOK /\ LockInv /\ OutcomeInv /\ RetryInv /\ [Next]_vars => RetryInv'
  <2> SUFFICES ASSUME TypeOK, LockInv, OutcomeInv, RetryInv, [Next]_vars PROVE RetryInv'
    OBVIOUS
  <2> QED
    BY StepCases, RetryEasy, RetryUpsert, RetryAssignOpen, RetryAssignCommit, RetrySettle,
       RetryReject DEF OutcomeInv
<1>3. RetryInv => RetryDiscipline
  BY DEF RetryInv, RetryDiscipline
<1>4. Serialised => LockInv
  BY DEF LockInv, Serialised
<1> QED
  BY <1>1, <1>2, <1>3, <1>4, TypeCorrect, LockingCorrect, OutcomeInvariance, PTL DEF Spec
-----------------------------------------------------------------------------
(***************************************************************************)
(* Slots.  claimed_slots counts the live Attempts of a Pool before the     *)
(* Pool is registered too, so that it is right when a report creates the   *)
(* row; a deleted Pool's counter is never read again.                      *)
(***************************************************************************)
LiveOn(p) == {a \in Attempts : Live(a) /\ arow[a].pool = p}
SlotInv ==
  \A p \in Pools :
    /\ pstate[p] # "deleted" => claimed[p] = Cardinality(LiveOn(p))
    /\ Registered(p) => claimed[p] <= total[p]

LEMMA SlotTypes ==
  ASSUME TypeOK, NEW p \in Pools
  PROVE  /\ claimed[p] \in Nat /\ total[p] \in Nat
         /\ IsFiniteSet(LiveOn(p)) /\ Cardinality(LiveOn(p)) \in Nat
<1>1. \A n \in SlotCounts \cup {0} : n \in Nat
  BY LifecycleAssumption
<1>2. claimed[p] \in Nat /\ total[p] \in SlotCounts \cup {0}
  BY DEF TypeOK
<1>3. LiveOn(p) \in SUBSET Attempts
  BY DEF LiveOn
<1>4. IsFiniteSet(LiveOn(p))
  BY <1>3, FS_Subset, LifecycleAssumption
<1>5. Cardinality(LiveOn(p)) \in Nat
  BY <1>4, FS_CardinalityType
<1> QED
  BY <1>1, <1>2, <1>4, <1>5

\* Nothing a Pool's count depends on changes.
LEMMA SlotFrame ==
  ASSUME SlotInv, UNCHANGED <<pstate, total, claimed>>,
         \A a \in Attempts : /\ Live(a)' <=> Live(a)
                             /\ Live(a) => arow'[a] = arow[a]
  PROVE  SlotInv'
<1>1. \A p \in Pools : LiveOn(p)' = LiveOn(p)
  BY DEF LiveOn
<1> QED
  BY <1>1 DEF SlotInv, Registered

\* The end of a live Attempt gives its Slot back, once.
LEMMA SlotReleased ==
  ASSUME TypeOK, SlotInv, NEW a \in Attempts, Live(a), ~Live(a)',
         \A b \in Attempts \ {a} : Live(b)' <=> Live(b),
         UNCHANGED <<arow, pstate, total>>, ReleaseSlot(arow[a].pool)
  PROVE  SlotInv'
<1> SUFFICES ASSUME NEW p \in Pools
             PROVE  /\ pstate'[p] # "deleted" => claimed'[p] = Cardinality(LiveOn(p)')
                    /\ Registered(p)' => claimed'[p] <= total'[p]
  BY DEF SlotInv
<1>1. /\ pstate[p] # "deleted" => claimed[p] = Cardinality(LiveOn(p))
      /\ Registered(p) => claimed[p] <= total[p]
  BY DEF SlotInv
<1>2. Registered(p)' <=> Registered(p)
  BY DEF Registered
<1>3. CASE p = arow[a].pool
  <2>1. a \in LiveOn(p) /\ LiveOn(p)' = LiveOn(p) \ {a}
    BY <1>3 DEF LiveOn
  <2>2. Cardinality(LiveOn(p)') = Cardinality(LiveOn(p)) - 1
    BY <2>1, SlotTypes, FS_RemoveElement
  <2>3. Cardinality(LiveOn(p)) # 0
    BY <2>1, SlotTypes, FS_EmptySet
  <2>4. claimed'[p] = IF claimed[p] > 0 THEN claimed[p] - 1 ELSE 0
    BY <1>3 DEF ReleaseSlot, TypeOK
  <2> QED
    BY <1>1, <1>2, <2>2, <2>3, <2>4, SlotTypes
<1>4. CASE p # arow[a].pool
  <2>1. LiveOn(p)' = LiveOn(p)
    BY <1>4 DEF LiveOn
  <2>2. claimed'[p] = claimed[p]
    BY <1>4 DEF ReleaseSlot, TypeOK
  <2> QED
    BY <1>1, <1>2, <2>1, <2>2
<1> QED
  BY <1>3, <1>4

\* A committed assignment takes the Slot it found free.
LEMMA SlotClaimed ==
  ASSUME TypeOK, LockInv, SlotInv, AssignCommit
  PROVE  SlotInv'
<1>1. PICK a \in Attempts : a = sched
  BY DEF AssignCommit, TypeOK
<1>2. PICK q \in Pools : q = arow[a].pool
  BY DEF TypeOK, AttemptRow
<1>3. astate[a] = "none" /\ ~Live(a) /\ FreeSlot(q)
  <2>1. astate[a] = "none" /\ FreeSlot(q)
    BY <1>1, <1>2 DEF AssignCommit, LockInv, LockDiscipline
  <2> QED
    BY <2>1 DEF Live, LiveAttempt
<1>4. /\ astate' = [astate EXCEPT ![a] = "leased"] /\ claimed' = [claimed EXCEPT ![q] = @ + 1]
      /\ UNCHANGED <<arow, pstate, total>>
  BY <1>1, <1>2 DEF AssignCommit
<1>5. Live(a)' /\ \A b \in Attempts \ {a} : Live(b)' <=> Live(b)
  BY <1>4 DEF Live, LiveAttempt, TypeOK
<1> SUFFICES ASSUME NEW p \in Pools
             PROVE  /\ pstate'[p] # "deleted" => claimed'[p] = Cardinality(LiveOn(p)')
                    /\ Registered(p)' => claimed'[p] <= total'[p]
  BY DEF SlotInv
<1>6. /\ pstate[p] # "deleted" => claimed[p] = Cardinality(LiveOn(p))
      /\ Registered(p) => claimed[p] <= total[p]
      /\ Registered(p)' <=> Registered(p)
  BY <1>4 DEF SlotInv, Registered
<1>7. CASE p = q
  <2>1. a \notin LiveOn(p) /\ LiveOn(p)' = LiveOn(p) \cup {a}
    BY <1>2, <1>3, <1>4, <1>5, <1>7 DEF LiveOn
  <2>2. Cardinality(LiveOn(p)') = Cardinality(LiveOn(p)) + 1
    BY <2>1, SlotTypes, FS_AddElement
  <2>3. claimed'[p] = claimed[p] + 1
    BY <1>4, <1>7 DEF TypeOK
  <2> QED
    BY <1>3, <1>4, <1>6, <1>7, <2>2, <2>3, SlotTypes DEF FreeSlot
<1>8. CASE p # q
  <2>1. LiveOn(p)' = LiveOn(p)
    BY <1>2, <1>3, <1>4, <1>5, <1>8 DEF LiveOn
  <2>2. claimed'[p] = claimed[p]
    BY <1>4, <1>8 DEF TypeOK
  <2> QED
    BY <1>4, <1>6, <2>1, <2>2
<1> QED
  BY <1>7, <1>8

\* A report keeps the Attempts of every Pool it keeps, and its CHECK holds.
LEMMA SlotReport ==
  ASSUME TypeOK, SlotInv, NEW w \in Workers, NEW report \in [PoolsOf(w) -> PoolReports[w]],
         NEW newTotal \in [PoolsOf(w) -> SlotCounts], UpsertPools(w, report, newTotal)
  PROVE  SlotInv'
<1> DEFINE kept == {p \in PoolsOf(w) : report[p] # "absent"}
           gone == {p \in PoolsOf(w) : Registered(p)} \ kept
           lost == {a \in Attempts : HasRow(a) /\ arow[a].pool \in gone}
<1>1. /\ \A p \in kept : pstate[p] # "deleted" /\ claimed[p] <= newTotal[p]
      /\ pstate' = [p \in Pools |-> IF p \in kept THEN report[p]
                                    ELSE IF p \in gone THEN "deleted"
                                    ELSE pstate[p]]
      /\ total' = [p \in Pools |-> IF p \in kept THEN newTotal[p] ELSE total[p]]
      /\ astate' = [a \in Attempts |-> IF a \in lost THEN "withdrawn" ELSE astate[a]]
      /\ UNCHANGED <<arow, claimed>>
  BY DEF UpsertPools
<1> HIDE DEF kept
<1> SUFFICES ASSUME NEW p \in Pools
             PROVE  /\ pstate'[p] # "deleted" => claimed'[p] = Cardinality(LiveOn(p)')
                    /\ Registered(p)' => claimed'[p] <= total'[p]
  BY DEF SlotInv
<1>2. pstate'[p] # "deleted" => pstate[p] # "deleted" /\ p \notin gone
  BY <1>1
<1>3. p \notin gone => LiveOn(p)' = LiveOn(p)
  <2>1. ASSUME NEW a \in Attempts, arow[a].pool = p, p \notin gone PROVE astate'[a] = astate[a]
    BY <1>1, <2>1
  <2> QED
    BY <1>1, <2>1 DEF LiveOn, Live
<1>4. pstate'[p] # "deleted" => claimed'[p] = Cardinality(LiveOn(p)')
  BY <1>1, <1>2, <1>3 DEF SlotInv
<1>5. Registered(p)' => claimed'[p] <= total'[p]
  <2>1. CASE p \in kept
    BY <1>1, <2>1
  <2>2. CASE p \notin kept
    BY <1>1, <2>2 DEF SlotInv, Registered
  <2> QED
    BY <2>1, <2>2
<1> QED
  BY <1>4, <1>5

LEMMA SlotInvStep ==
  ASSUME TypeOK, LockInv, SlotInv, [Next]_vars
  PROVE  SlotInv'
<1> USE LifecycleAssumption
<1>1. CASE \/ Quiet \/ AssignAbort
           \/ \E a \in Attempts : SettleOpened(a)
           \/ \E g \in Generations : \/ Submit(g) \/ CancelQueued(g)
                                     \/ CancelCommit(g) \/ ExpireStarved(g)
           \/ \E m \in msgs : AckSettled(m)
  <2>1. UNCHANGED <<pstate, total, claimed, astate, arow>>
    BY <1>1 DEF Quiet, AssignAbort, SettleOpened, Submit, CancelQueued, CancelCommit,
       ExpireStarved, AckSettled, attVars, poolVars
  <2>2. \A a \in Attempts : Live(a)' <=> Live(a)
    BY <2>1 DEF Live
  <2> QED
    BY <2>1, <2>2, SlotFrame
<1>2. ASSUME NEW g \in Generations, NEW p \in Pools, NEW a \in Attempts, AssignOpen(g, p, a)
      PROVE  SlotInv'
  <2>1. UNCHANGED <<pstate, total, claimed, astate>> /\ ~Live(a)
    BY <1>2 DEF AssignOpen, poolVars, Live, LiveAttempt
  <2>2. \A b \in Attempts \ {a} : arow'[b] = arow[b]
    BY <1>2 DEF AssignOpen, TypeOK
  <2>3. \A b \in Attempts : Live(b)' <=> Live(b)
    BY <2>1 DEF Live
  <2> QED
    BY <2>1, <2>2, <2>3, SlotFrame
<1>3. ASSUME NEW m \in msgs, StartAttempt(m) PROVE SlotInv'
  <2>1. UNCHANGED <<pstate, total, claimed, arow>>
    BY <1>3 DEF StartAttempt, poolVars
  <2>2. \A b \in Attempts : Live(b)' <=> Live(b)
    BY <1>3, MessageTypes DEF StartAttempt, Live, LiveAttempt, TypeOK
  <2> QED
    BY <2>1, <2>2, SlotFrame
<1>4. ASSUME NEW a \in Attempts, SettleCommit(a) PROVE SlotInv'
  <2>1. Live(a) /\ ReleaseSlot(arow[a].pool) /\ UNCHANGED <<arow, pstate, total>>
    BY <1>4 DEF SettleCommit, LockInv, LockDiscipline
  <2>2. ~Live(a)' /\ \A b \in Attempts \ {a} : Live(b)' <=> Live(b)
    BY <1>4 DEF SettleCommit, Live, LiveAttempt, TypeOK
  <2> QED
    BY <2>1, <2>2, SlotReleased
<1>5. ASSUME NEW m \in msgs, AcceptResult(m) \/ AckLive(m) \/ RejectLease(m) PROVE SlotInv'
  <2>1. PICK a \in Attempts : a = m.att
    BY MessageTypes
  <2>2. Live(a) /\ ReleaseSlot(arow[a].pool) /\ UNCHANGED <<arow, pstate, total>>
    BY <1>5, <2>1 DEF AcceptResult, Acceptable, AckLive, RejectLease, Rejectable, Live,
       LiveAttempt
  <2>3. PICK s \in {"succeeded", "cancelled", "rejected"} : astate' = [astate EXCEPT ![a] = s]
    BY <1>5, <2>1 DEF AcceptResult, AckLive, RejectLease
  <2>4. ~Live(a)' /\ \A b \in Attempts \ {a} : Live(b)' <=> Live(b)
    BY <2>3 DEF Live, LiveAttempt, TypeOK
  <2> QED
    BY <2>2, <2>4, SlotReleased
<1> QED
  BY <1>1, <1>2, <1>3, <1>4, <1>5, SlotClaimed, SlotReport, StepCases

(***************************************************************************)
(* No Slot leaks and none is sold twice: claimed_slots of every registered *)
(* Pool is the number of its live Attempts and at most total_slots, for    *)
(* any number of Pools, Slots and Attempts, across failed commits, racing  *)
(* settlements and capability reports (claim_slot, release_slot,           *)
(* upsert_pools).                                                          *)
(***************************************************************************)
THEOREM SlotsCorrect == Spec => []SlotAccounting
<1>1. Init => SlotInv
  <2> SUFFICES ASSUME Init PROVE SlotInv
    OBVIOUS
  <2>1. \A p \in Pools : LiveOn(p) = {} /\ claimed[p] = 0 /\ ~Registered(p)
    BY DEF Init, LiveOn, Live, LiveAttempt, Registered
  <2> QED
    BY <2>1, FS_EmptySet DEF SlotInv
<1>2. TypeOK /\ LockInv /\ SlotInv /\ [Next]_vars => SlotInv'
  BY SlotInvStep
<1>3. SlotInv => SlotAccounting
  BY DEF SlotInv, SlotAccounting, LiveOn, Registered
<1>4. Serialised => LockInv
  BY DEF LockInv, Serialised
<1> QED
  BY <1>1, <1>2, <1>3, <1>4, TypeCorrect, LockingCorrect, PTL DEF Spec
-----------------------------------------------------------------------------
(***************************************************************************)
(* The queue's abstract specification.  A transaction maps to one abstract *)
(* step of its Generation and its Attempt; a report maps to a step that    *)
(* deletes rows; every other step stutters.                                *)
(***************************************************************************)
LEMMA QueueFrame ==
  ASSUME TypeOK', NEW g \in Generations,
         \A h \in Generations \ {g} : gstate'[h] = gstate[h] /\ accepted'[h] = accepted[h],
         \/ Abstract!GenerationStep(g)
         \/ gstate'[g] = gstate[g] /\ accepted'[g] = accepted[g],
         \A b \in Attempts :
           /\ Abstract!AttemptStep(b) \/ astate'[b] = astate[b]
           /\ \/ astate'[b] # "succeeded" \/ astate[b] = "succeeded"
              \/ Abstract!Accept(g) /\ accepted'[g] = b
  PROVE  Abstract!QueueNext
<1>1. /\ gstate' \in [Generations -> GenerationRowState]
      /\ accepted' \in [Generations -> Attempts \cup {NoAttempt}]
      /\ astate' \in [Attempts -> AttemptRowState]
  BY DEF TypeOK
<1>2. \A h \in Generations :
        Abstract!GenerationStep(h) \/ UNCHANGED <<gstate[h], accepted[h]>>
  OBVIOUS
<1>3. \A b \in Attempts :
        /\ Abstract!AttemptStep(b) \/ UNCHANGED astate[b]
        /\ (astate[b] # "succeeded" /\ astate'[b] = "succeeded")
              => \E h \in Generations : Abstract!Accept(h) /\ accepted'[h] = b
  OBVIOUS
<1> QED
  BY <1>1, <1>2, <1>3 DEF Abstract!QueueNext, Abstract!GenerationRowState,
     Abstract!GenerationState, Abstract!AttemptRowState, Abstract!AttemptState,
     GenerationRowState, GenerationState, AttemptRowState, AttemptState

\* A transaction that updates one Generation and its Attempts along their
\* edges, or deletes rows, and accepts nothing.
LEMMA QueueMove ==
  ASSUME TypeOK, TypeOK', NEW g \in Generations, NEW s,
         gstate' = [gstate EXCEPT ![g] = s], UNCHANGED accepted,
         \/ s = gstate[g]
         \/ gstate[g] = "absent" /\ s = "queued"
         \/ gstate[g] = "queued" /\ s \in {"running", "cancelled", "failed", "expired"}
         \/ gstate[g] = "running" /\ s \in {"queued", "cancelling", "failed"}
         \/ gstate[g] = "cancelling" /\ s \in {"cancelled", "failed"},
         \A b \in Attempts :
           \/ astate'[b] = astate[b]
           \/ astate[b] = "none" /\ astate'[b] = "leased"
           \/ astate[b] = "leased" /\ astate'[b] \in {"running", "rejected"}
           \/ astate[b] \in LiveAttempt /\ astate'[b] \in {"failed", "cancelled", "lease_expired"}
           \/ astate[b] \in AttemptState /\ astate'[b] = "withdrawn"
  PROVE  Abstract!QueueNext
<1>1. /\ gstate'[g] = s /\ \A h \in Generations \ {g} : gstate'[h] = gstate[h]
  BY DEF TypeOK
<1>2. Abstract!GenerationStep(g) \/ gstate'[g] = gstate[g]
  <2>1. CASE gstate[g] = "absent" /\ s = "queued"
    BY <1>1, <2>1 DEF Abstract!GenerationStep
  <2>2. CASE \/ gstate[g] = "queued" /\ s \in {"running", "cancelled", "failed", "expired"}
             \/ gstate[g] = "running" /\ s \in {"queued", "cancelling", "failed"}
             \/ gstate[g] = "cancelling" /\ s \in {"cancelled", "failed"}
    <3>1. <<gstate[g], s>> \in Abstract!GenerationEdge /\ s # "succeeded"
      BY <2>2 DEF Abstract!GenerationEdge
    <3> QED
      BY <1>1, <3>1 DEF Abstract!GenerationStep
  <2> QED
    BY <1>1, <2>1, <2>2
<1>3. ASSUME NEW a \in Attempts
      PROVE  /\ Abstract!AttemptStep(a) \/ astate'[a] = astate[a]
             /\ astate'[a] # "succeeded" \/ astate[a] = "succeeded"
  <2>1. CASE \/ astate[a] = "leased" /\ astate'[a] = "running"
             \/ astate[a] \in LiveAttempt /\ astate'[a] \in {"failed", "cancelled", "lease_expired"}
    <3>1. <<astate[a], astate'[a]>> \in Abstract!AttemptEdge
      BY <2>1 DEF Abstract!AttemptEdge, LiveAttempt
    <3> QED
      BY <2>1, <3>1 DEF Abstract!AttemptStep
  <2>2. CASE \/ astate[a] = "none" /\ astate'[a] = "leased"
             \/ astate[a] = "leased" /\ astate'[a] = "rejected"
             \/ astate[a] \in AttemptState /\ astate'[a] = "withdrawn"
    BY <2>2 DEF Abstract!AttemptStep, Abstract!AttemptState, AttemptState
  <2> QED
    BY <2>1, <2>2
<1> QED
  BY <1>1, <1>2, <1>3, QueueFrame

\* A result is accepted for a Generation and its Attempt in one step.
LEMMA QueueAccept ==
  ASSUME TypeOK, TypeOK', NEW m \in msgs, AcceptResult(m)
  PROVE  Abstract!QueueNext
<1>1. PICK a \in Attempts : a = m.att
  BY MessageTypes
<1>2. PICK g \in Generations : g = arow[a].gen
  BY DEF TypeOK, AttemptRow
<1>3. /\ astate[a] \in LiveAttempt /\ accepted[g] = NoAttempt
      /\ gstate[g] \in {"running", "cancelling"}
  BY <1>1, <1>2 DEF AcceptResult, Acceptable, Live, GenerationEdge
<1>4. /\ gstate'[g] = "succeeded" /\ accepted'[g] = a /\ astate'[a] = "succeeded"
      /\ \A h \in Generations \ {g} : gstate'[h] = gstate[h] /\ accepted'[h] = accepted[h]
      /\ \A b \in Attempts \ {a} : astate'[b] = astate[b]
  BY <1>1, <1>2 DEF AcceptResult, TypeOK
<1>5. Abstract!Accept(g)
  <2>1. <<gstate[g], "succeeded">> \in Abstract!GenerationEdge
    BY <1>3 DEF Abstract!GenerationEdge
  <2> QED
    BY <1>3, <1>4, <2>1 DEF Abstract!Accept, Abstract!LiveAttempt, LiveAttempt
<1>6. Abstract!AttemptStep(a)
  <2>1. <<astate[a], "succeeded">> \in Abstract!AttemptEdge
    BY <1>3 DEF Abstract!AttemptEdge, LiveAttempt
  <2> QED
    BY <1>4, <2>1 DEF Abstract!AttemptStep
<1>7. Abstract!GenerationStep(g)
  BY <1>5 DEF Abstract!GenerationStep
<1> QED
  BY <1>4, <1>5, <1>6, <1>7, QueueFrame

LEMMA QueueStep ==
  ASSUME TypeOK, TypeOK', LockInv, [Next]_vars
  PROVE  [Abstract!QueueNext]_Abstract!queueVars
<1> USE LifecycleAssumption
<1> SUFFICES Abstract!QueueNext \/ UNCHANGED <<gstate, accepted, astate>>
  BY DEF Abstract!queueVars
<1>1. CASE Quiet \/ AssignAbort \/ \E a \in Attempts : SettleOpened(a)
  BY <1>1 DEF Quiet, AssignAbort, SettleOpened, genVars, attVars
<1>2. ASSUME NEW g \in Generations, NEW p \in Pools, NEW a \in Attempts, AssignOpen(g, p, a)
      PROVE  UNCHANGED <<gstate, accepted, astate>>
  BY <1>2 DEF AssignOpen, genVars
<1>3. ASSUME NEW g \in Generations,
             Submit(g) \/ CancelQueued(g) \/ CancelCommit(g) \/ ExpireStarved(g)
      PROVE  Abstract!QueueNext
  <2>1. PICK s : /\ gstate' = [gstate EXCEPT ![g] = s]
                 /\ \/ s = gstate[g]
                    \/ gstate[g] = "absent" /\ s = "queued"
                    \/ gstate[g] = "queued" /\ s \in {"cancelled", "expired"}
                    \/ gstate[g] = "running" /\ s = "cancelling"
    BY <1>3 DEF Submit, CancelQueued, CancelCommit, ExpireStarved, RequestCancelRunning
  <2>2. UNCHANGED <<accepted, astate>>
    BY <1>3 DEF Submit, CancelQueued, CancelCommit, ExpireStarved, attVars
  <2> QED
    BY <2>1, <2>2, QueueMove
<1>4. CASE AssignCommit
  <2>1. PICK a \in Attempts, g \in Generations : a = sched /\ g = arow[a].gen
    BY <1>4 DEF AssignCommit, TypeOK, AttemptRow
  <2>2. astate[a] = "none" /\ gstate[g] = "queued"
    BY <1>4, <2>1 DEF AssignCommit, LockInv, LockDiscipline
  <2>3. /\ gstate' = [gstate EXCEPT ![g] = "running"] /\ UNCHANGED accepted
        /\ astate'[a] = "leased" /\ \A b \in Attempts \ {a} : astate'[b] = astate[b]
    BY <1>4, <2>1, <2>2 DEF AssignCommit, MarkRunning, TypeOK
  <2> QED
    BY <2>2, <2>3, QueueMove
<1>5. ASSUME NEW a \in Attempts, SettleCommit(a) PROVE Abstract!QueueNext
  <2>1. PICK g \in Generations : g = arow[a].gen
    BY DEF TypeOK, AttemptRow
  <2>2. astate[a] \in LiveAttempt
    BY <1>5 DEF SettleCommit, LockInv, LockDiscipline, Live
  <2>3. PICK s \in {FinishCancelled(gstate[g]), Requeue(gstate[g]), Fail(gstate[g])} :
          gstate' = [gstate EXCEPT ![g] = s]
    BY <1>5, <2>1 DEF SettleCommit
  <2>4. \/ s = gstate[g]
        \/ gstate[g] = "queued" /\ s = "failed"
        \/ gstate[g] = "running" /\ s \in {"queued", "failed"}
        \/ gstate[g] = "cancelling" /\ s \in {"cancelled", "failed"}
    BY <2>3 DEF FinishCancelled, Requeue, Fail
  <2>5. /\ astate'[a] \in {"failed", "lease_expired"} /\ UNCHANGED accepted
        /\ \A b \in Attempts \ {a} : astate'[b] = astate[b]
    BY <1>5 DEF SettleCommit, TypeOK
  <2> QED
    BY <2>2, <2>3, <2>4, <2>5, QueueMove
<1>6. ASSUME NEW m \in msgs, StartAttempt(m) \/ AckLive(m) \/ AckSettled(m) \/ RejectLease(m)
      PROVE  Abstract!QueueNext
  <2>1. PICK a \in Attempts, g \in Generations : a = m.att /\ g = arow[a].gen
    BY MessageTypes
  <2>2. PICK s : /\ gstate' = [gstate EXCEPT ![g] = s]
                 /\ \/ s = gstate[g]
                    \/ gstate[g] = "queued" /\ s = "running"
                    \/ gstate[g] = "running" /\ s = "queued"
                    \/ gstate[g] = "cancelling" /\ s = "cancelled"
    BY <1>6, <2>1 DEF StartAttempt, AckLive, AckSettled, RejectLease, Rejectable, MarkRunning,
       FinishCancelled
  <2>3. /\ UNCHANGED accepted
        /\ \A b \in Attempts \ {a} : astate'[b] = astate[b]
        /\ \/ astate'[a] = astate[a]
           \/ astate[a] = "leased" /\ astate'[a] \in {"running", "rejected"}
           \/ astate[a] \in LiveAttempt /\ astate'[a] = "cancelled"
    BY <1>6, <2>1 DEF StartAttempt, AckLive, AckSettled, RejectLease, Rejectable, Live, attVars,
       TypeOK
  <2> QED
    BY <2>2, <2>3, QueueMove
<1>7. ASSUME NEW w \in Workers, NEW report \in [PoolsOf(w) -> PoolReports[w]],
             NEW newTotal \in [PoolsOf(w) -> SlotCounts], UpsertPools(w, report, newTotal)
      PROVE  Abstract!QueueNext
  <2>1. PICK g \in Generations : TRUE
    OBVIOUS
  <2>2. UNCHANGED accepted /\ gstate' = [gstate EXCEPT ![g] = gstate[g]]
    BY <1>7 DEF UpsertPools, TypeOK
  <2>3. \A b \in Attempts :
          \/ astate'[b] = astate[b]
          \/ astate[b] \in AttemptState /\ astate'[b] = "withdrawn"
    BY <1>7 DEF UpsertPools, HasRow
  <2> QED
    BY <2>2, <2>3, QueueMove
<1> QED
  BY <1>1, <1>2, <1>3, <1>4, <1>5, <1>6, <1>7, QueueAccept, StepCases

(***************************************************************************)
(* Lifecycle implements QueueSpec: every transaction, handler and sweep    *)
(* moves Generations and Attempts along the transition tables of           *)
(* gpq-domain, and a Generation succeeds in the step in which exactly one  *)
(* live Attempt of it does (state.rs, accept_result).                      *)
(***************************************************************************)
THEOREM QueueRefined == Spec => RefinesQueue
<1>1. Init => Abstract!QueueInit
  BY DEF Init, Abstract!QueueInit
<1>2. TypeOK /\ TypeOK' /\ LockInv /\ [Next]_vars => [Abstract!QueueNext]_Abstract!queueVars
  BY QueueStep
<1>3. Serialised => LockInv
  BY DEF LockInv, Serialised
<1> QED
  BY <1>1, <1>2, <1>3, TypeCorrect, LockingCorrect, PTL
  DEF Spec, RefinesQueue, Abstract!QueueSpec
=============================================================================
