------------------------ MODULE PoolSupervisorProofs ------------------------
(***************************************************************************)
(* Proofs of PoolSupervisor's safety properties for every set of Attempts. *)
(* ChildOwned, SlotSerial and SlotReturned hold by one induction: each     *)
(* needs the others, and what op_lock's holder may rely on.                *)
(***************************************************************************)
EXTENDS PoolSupervisor, TLAPS

(***************************************************************************)
(* Who holds op_lock at which await.  The Attempt an operation works for   *)
(* still waits for its Slot, and nothing goes on once the Worker is down.  *)
(***************************************************************************)
HolderInv ==
  /\ holder = "startup" => at \in {"start", "probe"}
  /\ holder = "refresh" => at = "refresh"
  /\ holder = "idle" => at \in {"release", "terminate"}
  /\ holder = "reclaim" => at = "terminate"
  /\ at \in {"refresh", "release"} => /\ holder \in {"refresh", "idle"}
                                     /\ proc # "none" /\ backend
  /\ at = "release" => busy = {}
  /\ holder = "shutdown" => at = "terminate" /\ down
  /\ holder = "ensure" => who \in Attempts /\ att[who] = "waiting"
  /\ down => /\ proc = "none" /\ holder \in {"none", "shutdown"}
             /\ \A a \in Attempts : att[a] \in {"none", "done"}

(***************************************************************************)
(* A backend handle is kept only for a child that needs no termination.    *)
(***************************************************************************)
BackendInv == backend => ~pending

IInv == TypeOK /\ ChildOwned /\ SlotSerial /\ SlotReturned /\ HolderInv
          /\ BackendInv

(***************************************************************************)
(* The induction, one step per action.                                     *)
(***************************************************************************)
LEMMA Invariance == Spec => []IInv
<1>1. Init => IInv
  <2> SUFFICES ASSUME Init PROVE IInv
    OBVIOUS
  <2> USE DEF Init
  <2>1. TypeOK
    BY DEF TypeOK
  <2>2. ChildOwned /\ SlotSerial /\ SlotReturned
    BY DEF ChildOwned, SlotSerial, SlotReturned
  <2>3. HolderInv /\ BackendInv
    BY DEF HolderInv, BackendInv
  <2> QED
    BY <2>1, <2>2, <2>3 DEF IInv
<1>2. IInv /\ [Next]_vars => IInv'
  <2> SUFFICES ASSUME IInv, [Next]_vars
               PROVE  IInv'
    OBVIOUS
  <2> USE PoolAssumption
        DEF IInv, TypeOK, ChildOwned, SlotSerial, SlotReturned, HolderInv,
            BackendInv, HasSlotLease, stateVars, opVars, taskVars, jobVars,
            outVars
  <2>1. ASSUME NEW a \in Attempts, LeaseArrives(a) PROVE IInv'
    BY <2>1 DEF LeaseArrives
  <2>2. ASSUME NEW a \in Attempts, RejectModel(a) PROVE IInv'
    BY <2>2 DEF RejectModel
  <2>3. ASSUME NEW a \in Attempts, RejectSlot(a) PROVE IInv'
    BY <2>3 DEF RejectSlot
  <2>4. ASSUME NEW a \in Attempts, Acquire(a) PROVE IInv'
    BY <2>4 DEF Acquire, Running, Free
  <2>5. ASSUME NEW a \in Attempts, Recover(a) PROVE IInv'
    BY <2>5 DEF Recover, Running, MarkUnready, TakeProcess, Hold
  <2>6. ASSUME NEW a \in Attempts, FetchBackend(a) PROVE IInv'
    BY <2>6 DEF FetchBackend
  <2>7. ASSUME NEW a \in Attempts, NoBackend(a) PROVE IInv'
    BY <2>7 DEF NoBackend, Release
  <2>8. ASSUME NEW a \in Attempts, StartJob(a) PROVE IInv'
    BY <2>8 DEF StartJob
  <2>9. ASSUME NEW a \in Attempts, Finish(a) PROVE IInv'
    BY <2>9 DEF Finish, Release
  <2>10. ASSUME NEW a \in Attempts, ArmReclaim(a) PROVE IInv'
    BY <2>10 DEF ArmReclaim
  <2>11. ASSUME NEW a \in Attempts, ForceReclaim(a) PROVE IInv'
    BY <2>11 DEF ForceReclaim, Reclaims, MarkUnready, TakeProcess, Hold
  <2>12. ASSUME NEW a \in Attempts, ReclaimMoot(a) PROVE IInv'
    BY <2>12 DEF ReclaimMoot
  <2>13. CASE CancelJob
    BY <2>13 DEF CancelJob
  <2>14. CASE JobTerminal
    BY <2>14 DEF JobTerminal
  <2>15. CASE JobDropped
    BY <2>15 DEF JobDropped
  <2>16. CASE ChildExits
    <3> USE <2>16 DEF ChildExits, Child
    <3>1. TypeOK'
      <4>1. /\ proc' \in {"none", "runs", "exited"}
            /\ held' \in {"none", "runs", "exited"}
        OBVIOUS
      <4>2. hung' \in BOOLEAN
        OBVIOUS
      <4>3. UNCHANGED <<backend, ready, total, free, restart, pending, busy,
                        holder, who, at, att, handle, reclaim, reported, down,
                        orphan>>
        OBVIOUS
      <4>4. job' \in Attempts \cup {NoAttempt} /\ jobstate' = "none"
        OBVIOUS
      <4> QED
        BY <4>1, <4>2, <4>3, <4>4
    <3>2. ChildOwned'
      OBVIOUS
    <3>3. SlotSerial'
      OBVIOUS
    <3>4. SlotReturned'
      OBVIOUS
    <3>5. HolderInv'
      OBVIOUS
    <3>6. BackendInv'
      OBVIOUS
    <3> QED BY <3>1, <3>2, <3>3, <3>4, <3>5, <3>6
  <2>17. CASE TerminateOk
    <3> USE <2>17 DEF TerminateOk, MarkUnready, Restarts, Hold, Unlock
    <3>1. TypeOK'
      OBVIOUS
    <3>2. ChildOwned'
      OBVIOUS
    <3>3. SlotSerial'
      OBVIOUS
    <3>4. SlotReturned'
      OBVIOUS
    <3>5. HolderInv'
      OBVIOUS
    <3>6. BackendInv'
      OBVIOUS
    <3> QED BY <3>1, <3>2, <3>3, <3>4, <3>5, <3>6
  <2>18. CASE TerminateFail
    <3> USE <2>18 DEF TerminateFail, MarkUnready, RejectWaiting, Unlock
    <3>1. TypeOK'
      OBVIOUS
    <3>2. ChildOwned'
      OBVIOUS
    <3>3. SlotSerial'
      OBVIOUS
    <3>4. SlotReturned'
      OBVIOUS
    <3>5. HolderInv'
      OBVIOUS
    <3>6. BackendInv'
      OBVIOUS
    <3> QED BY <3>1, <3>2, <3>3, <3>4, <3>5, <3>6
  <2>19. CASE ShutdownFail
    <3> USE <2>19 DEF ShutdownFail, MarkUnready, Unlock
    <3>1. TypeOK'
      OBVIOUS
    <3>2. ChildOwned'
      OBVIOUS
    <3>3. SlotSerial'
      OBVIOUS
    <3>4. SlotReturned'
      OBVIOUS
    <3>5. HolderInv'
      OBVIOUS
    <3>6. BackendInv'
      OBVIOUS
    <3> QED BY <3>1, <3>2, <3>3, <3>4, <3>5, <3>6
  <2>20. CASE Spawn
    BY <2>20 DEF Spawn, MarkUnready, Hold
  <2>21. CASE SpawnFail
    BY <2>21 DEF SpawnFail, MarkUnready, RejectWaiting, Unlock
  <2>22. CASE ProbeReady
    <3> USE <2>22 DEF ProbeReady, Unlock
    <3>1. TypeOK'
      <4>1. /\ att' \in [Attempts -> {"none", "waiting", "acquired", "preparing",
                                     "executing", "done"}]
            /\ busy' \in SUBSET Attempts
        OBVIOUS
      <4> QED
        BY <4>1
    <3>2. ChildOwned'
      OBVIOUS
    <3>3. SlotSerial'
      OBVIOUS
    <3>4. SlotReturned'
      OBVIOUS
    <3>5. HolderInv'
      OBVIOUS
    <3>6. BackendInv'
      OBVIOUS
    <3> QED BY <3>1, <3>2, <3>3, <3>4, <3>5, <3>6
  <2>23. CASE ProbeUnready
    <3> USE <2>23 DEF ProbeUnready, RejectWaiting, Unlock
    <3>1. TypeOK'
      OBVIOUS
    <3>2. ChildOwned'
      OBVIOUS
    <3>3. SlotSerial'
      OBVIOUS
    <3>4. SlotReturned'
      OBVIOUS
    <3>5. HolderInv'
      OBVIOUS
    <3>6. BackendInv'
      OBVIOUS
    <3> QED BY <3>1, <3>2, <3>3, <3>4, <3>5, <3>6
  <2>24. CASE ProbeFail
    BY <2>24 DEF ProbeFail, RejectWaiting, Unlock
  <2>25. CASE CheckLiveness
    <3> USE <2>25 DEF CheckLiveness, LivenessTerminates, MarkUnready,
       TakeProcess, Hold
    <3>1. TypeOK'
      OBVIOUS
    <3>2. ChildOwned'
      OBVIOUS
    <3>3. SlotSerial'
      OBVIOUS
    <3>4. SlotReturned'
      OBVIOUS
    <3>5. HolderInv'
      OBVIOUS
    <3>6. BackendInv'
      OBVIOUS
    <3> QED BY <3>1, <3>2, <3>3, <3>4, <3>5, <3>6
  <2>26. CASE CheckRestart
    BY <2>26 DEF CheckRestart, Hold
  <2>27. CASE RefreshFail
    <3> USE <2>27 DEF RefreshFail, Unlock
    <3>1. TypeOK'
      OBVIOUS
    <3>2. ChildOwned'
      OBVIOUS
    <3>3. SlotSerial'
      OBVIOUS
    <3>4. SlotReturned'
      OBVIOUS
    <3>5. HolderInv'
      OBVIOUS
    <3>6. BackendInv'
      OBVIOUS
    <3> QED BY <3>1, <3>2, <3>3, <3>4, <3>5, <3>6
  <2>28. CASE ReleaseIdle
    <3> USE <2>28 DEF ReleaseIdle, Unload, MarkUnready, TakeProcess, Hold
    <3>1. TypeOK'
      OBVIOUS
    <3>2. ChildOwned'
      OBVIOUS
    <3>3. SlotSerial'
      OBVIOUS
    <3>4. SlotReturned'
      OBVIOUS
    <3>5. HolderInv'
      OBVIOUS
    <3>6. BackendInv'
      OBVIOUS
    <3> QED BY <3>1, <3>2, <3>3, <3>4, <3>5, <3>6
  <2>29. ASSUME NEW passed \in BOOLEAN, RefreshOk(passed) PROVE IInv'
    BY <2>29 DEF RefreshOk, Unlock
  <2>30. CASE SessionDrop
    BY <2>30 DEF SessionDrop, DropTasks, Release, SlotLeases
  <2>31. CASE SessionDropAwaiting
    BY <2>31 DEF SessionDropAwaiting, DropTasks, Release, SlotLeases, Unlock
  <2>32. CASE SessionDropTerminating
    BY <2>32 DEF SessionDropTerminating, DropTasks, SlotLeases, GuardDrop,
       MarkUnready, Unlock
  <2>33. CASE Report
    BY <2>33 DEF Report
  <2>34. CASE Shutdown
    <3> USE <2>34 DEF Shutdown, MarkUnready, TakeProcess, Hold, Unlock
    <3>1. TypeOK'
      OBVIOUS
    <3>2. ChildOwned'
      OBVIOUS
    <3>3. SlotSerial'
      OBVIOUS
    <3>4. SlotReturned'
      OBVIOUS
    <3>5. HolderInv'
      OBVIOUS
    <3>6. BackendInv'
      OBVIOUS
    <3> QED BY <3>1, <3>2, <3>3, <3>4, <3>5, <3>6
  <2>35. CASE Refresh
    BY <2>35 DEF Refresh, Hold
  <2>36. CASE ReleaseOk
    BY <2>36 DEF ReleaseOk, Unlock
  <2>37. CASE ReleaseRefused
    <3> USE <2>37 DEF ReleaseRefused, Unload, MarkUnready, TakeProcess, Hold
    <3>1. TypeOK'
      OBVIOUS
    <3>2. ChildOwned'
      OBVIOUS
    <3>3. SlotSerial'
      OBVIOUS
    <3>4. SlotReturned'
      OBVIOUS
    <3>5. HolderInv'
      OBVIOUS
    <3>6. BackendInv'
      OBVIOUS
    <3> QED BY <3>1, <3>2, <3>3, <3>4, <3>5, <3>6
  <2>38. CASE ChildHangs
    BY <2>38 DEF ChildHangs
  <2>39. CASE UNCHANGED vars
    BY <2>39 DEF vars
  <2> QED
    BY <2>1, <2>2, <2>3, <2>4, <2>5, <2>6, <2>7, <2>8, <2>9, <2>10, <2>11,
       <2>12, <2>13, <2>14, <2>15, <2>16, <2>17, <2>18, <2>19, <2>20, <2>21,
       <2>22, <2>23, <2>24, <2>25, <2>26, <2>27, <2>28, <2>29, <2>30, <2>31,
       <2>32, <2>33, <2>34, <2>35, <2>36, <2>37, <2>38, <2>39
       DEF Next, AttemptNext, ChildNext, OperationNext, MaintenanceNext,
           AnswerNext, SessionNext
<1> QED
  BY <1>1, <1>2, PTL DEF Spec

(***************************************************************************)
(* The fields of PoolState and the tasks keep their types: slots_free is   *)
(* never above the one Slot, although SlotLeases are dropped late.         *)
(***************************************************************************)
THEOREM PoolTypeCorrect == Spec => []TypeOK
<1>1. IInv => TypeOK
  BY DEF IInv
<1> QED
  BY <1>1, Invariance, PTL

(***************************************************************************)
(* The child is never lost and never doubled, whichever await an operation *)
(* is aborted at.                                                          *)
(***************************************************************************)
THEOREM ChildNeverLost == Spec => []ChildOwned
<1>1. IInv => ChildOwned
  BY DEF IInv
<1> QED
  BY <1>1, Invariance, PTL

(***************************************************************************)
(* A Slot is offered only on a ready, idle child, has at most one Attempt, *)
(* and never outlives that Attempt's SlotLease.                            *)
(***************************************************************************)
THEOREM SlotsCorrect == Spec => []SlotSafe
<1>1. IInv => SlotSafe
  BY DEF IInv, SlotSafe
<1> QED
  BY <1>1, Invariance, PTL

(***************************************************************************)
(* A force_reclaim never terminates the child another Attempt is using.    *)
(***************************************************************************)
THEOREM ReclaimCorrect == Spec => ReclaimScoped
<1> DEFINE Scoped == holder # "reclaim" /\ holder' = "reclaim" => busy = {who'}
<1>1. IInv /\ [Next]_vars => [Scoped]_vars
  <2> SUFFICES ASSUME IInv, Next, holder # "reclaim", holder' = "reclaim"
               PROVE  busy = {who'}
    OBVIOUS
  <2>1. PICK a \in Attempts : ForceReclaim(a)
    BY DEF Next, AttemptNext, ChildNext, OperationNext, MaintenanceNext,
       AnswerNext, SessionNext, LeaseArrives, RejectModel, RejectSlot, Acquire, Recover,
       FetchBackend, NoBackend, StartJob, Finish, ArmReclaim, ReclaimMoot,
       CancelJob, JobTerminal, JobDropped, ChildExits, ChildHangs, TerminateOk,
       TerminateFail, ShutdownFail, Spawn, SpawnFail, ProbeReady,
       ProbeUnready, ProbeFail, CheckLiveness, CheckRestart, Refresh,
       RefreshOk, RefreshFail, ReleaseIdle, ReleaseOk, ReleaseRefused, Unload,
       SessionDrop, SessionDropAwaiting,
       SessionDropTerminating, Report, Shutdown, Hold, Unlock, opVars
  <2> QED
    BY <2>1 DEF ForceReclaim, Reclaims, Hold, IInv, SlotSerial
<1> QED
  BY <1>1, Invariance, PTL DEF Spec, ReclaimScoped
=============================================================================
