--------------------------- MODULE SessionsProofs ---------------------------
(***************************************************************************)
(* Proofs of Sessions' safety properties for every number of enrolments,   *)
(* streams and failures.  One induction carries them: what the registry    *)
(* and the row lock promise rests on where each task is, and on the fact   *)
(* that only a task that serves its stream has a message in hand.          *)
(***************************************************************************)
EXTENDS Sessions, TLAPS

\* A message is handled only by the pump of a session that is being served.
BusyServes == \A s \in Sessions : busy[s] # "none" => pc[s] = "open"

IInv == TypeOK /\ RegisteredRuns /\ HandlersAuthorized /\ BusyServes

(***************************************************************************)
(* The initial states: nobody is enrolled and nothing is connected.        *)
(***************************************************************************)
LEMMA InitInv == Init => IInv
<1> SUFFICES ASSUME Init PROVE IInv
  OBVIOUS
<1>1. TypeOK
  <2>1. row \in [cred : Enrolments \cup {Nobody}, revoked : BOOLEAN]
    BY DEF Init, NoRow
  <2>2. draining \in BOOLEAN
    BY Zenon DEF Init
  <2>3. breaks \in 0..MaxBreaks
    BY SessionsAssumption DEF Init
  <2> QED
    BY <2>1, <2>2, <2>3 DEF Init, TypeOK
<1>2. RegisteredRuns /\ HandlersAuthorized /\ BusyServes
  BY DEF Init, RegisteredRuns, HandlersAuthorized, BusyServes
<1> QED
  BY <1>1, <1>2 DEF IInv

(***************************************************************************)
(* The steps of the operator.  The ones that write the row wait for the    *)
(* lock, and while nobody holds it no handler is inside.                   *)
(***************************************************************************)
LEMMA OperatorInv == IInv /\ OperatorStep => IInv'
<1> SUFFICES ASSUME IInv, OperatorStep PROVE IInv'
  OBVIOUS
<1> USE SessionsAssumption, NobodyAssumption
      DEF IInv, TypeOK, RegisteredRuns, HandlersAuthorized, BusyServes, Current,
          Unlocked, workerVars, taskVars, operatorVars
<1>1. ASSUME NEW e \in Enrolments, EnrollCall(e) PROVE IInv'
  BY <1>1 DEF EnrollCall
<1>2. ASSUME NEW e \in Enrolments, EnrollCommit(e) PROVE IInv'
  BY <1>2 DEF EnrollCommit
<1>3. ASSUME NEW e \in Enrolments, EnrollStore(e) PROVE IInv'
  BY <1>3 DEF EnrollStore
<1>4. ASSUME NEW e \in Enrolments, EnrollDropped(e) PROVE IInv'
  BY <1>4 DEF EnrollDropped
<1>5. CASE EnrollAbandon
  BY <1>5 DEF EnrollAbandon
<1>6. CASE RevokeWorker
  BY <1>6 DEF RevokeWorker
<1>7. CASE Uninstall
  BY <1>7 DEF Uninstall
<1> QED
  BY <1>1, <1>2, <1>3, <1>4, <1>5, <1>6, <1>7 DEF OperatorStep

(***************************************************************************)
(* The steps of the Worker process.                                        *)
(***************************************************************************)
LEMMA WorkerInv == IInv /\ WorkerStep => IInv'
<1> SUFFICES ASSUME IInv, WorkerStep PROVE IInv'
  OBVIOUS
<1> USE SessionsAssumption, NobodyAssumption
      DEF IInv, TypeOK, RegisteredRuns, HandlersAuthorized, BusyServes, Current,
          Unlocked, workerVars, taskVars, operatorVars
<1>1. CASE StartWorker
  BY <1>1 DEF StartWorker
<1>2. CASE StopWorker
  BY <1>2 DEF StopWorker
<1>3. CASE ReceiveAck
  BY <1>3 DEF ReceiveAck
<1>4. CASE NoticeEnd
  BY <1>4 DEF NoticeEnd
<1>5. CASE BreakStream
  BY <1>5 DEF BreakStream
<1>6. ASSUME NEW s \in Sessions, Connect(s) PROVE IInv'
  BY <1>6 DEF Connect
<1>7. ASSUME NEW m \in {"heartbeat", "report"}, SendMessage(m) PROVE IInv'
  BY <1>7 DEF SendMessage
<1> QED
  BY <1>1, <1>2, <1>3, <1>4, <1>5, <1>6, <1>7 DEF WorkerStep

(***************************************************************************)
(* The steps of Remote's task of one stream.  A task that lets go of the   *)
(* row lets go of its own lock only, and leaves no other handler without.  *)
(***************************************************************************)
LEMMA TaskInv == ASSUME NEW s \in Sessions PROVE IInv /\ TaskStep(s) => IInv'
<1> SUFFICES ASSUME IInv, TaskStep(s) PROVE IInv'
  OBVIOUS
<1> USE SessionsAssumption, NobodyAssumption
      DEF IInv, TypeOK, RegisteredRuns, HandlersAuthorized, BusyServes, Current,
          Unlocked, Unlock, Goto, Finish, workerVars, taskVars, operatorVars
<1>1. CASE Authenticate(s)
  BY <1>1 DEF Authenticate
<1>2. CASE LockWorker(s)
  BY <1>2 DEF LockWorker
<1>3. CASE MarkSession(s)
  BY <1>3 DEF MarkSession
<1>4. CASE Register(s)
  BY <1>4 DEF Register
<1>5. CASE DropHandshake(s)
  BY <1>5 DEF DropHandshake
<1>6. CASE Dispatch(s)
  BY <1>6 DEF Dispatch
<1>7. CASE FinishMessage(s)
  BY <1>7 DEF FinishMessage
<1>8. CASE PumpEnds(s)
  BY <1>8 DEF PumpEnds
<1>9. CASE EndSession(s)
  BY <1>9 DEF EndSession
<1> QED
  BY <1>1, <1>2, <1>3, <1>4, <1>5, <1>6, <1>7, <1>8, <1>9
  DEF TaskStep, HandshakeStep

(***************************************************************************)
(* The whole of Remote stops or starts again: no task and no lock is left. *)
(***************************************************************************)
LEMMA RemoteInv == IInv /\ (Shutdown \/ RestartRemote) => IInv'
<1> SUFFICES ASSUME IInv, Shutdown \/ RestartRemote PROVE IInv'
  OBVIOUS
<1> USE SessionsAssumption, NobodyAssumption
      DEF IInv, TypeOK, RegisteredRuns, HandlersAuthorized, BusyServes, Current,
          workerVars, taskVars, operatorVars
<1>1. CASE Shutdown
  BY <1>1 DEF Shutdown
<1>2. CASE RestartRemote
  <2> USE <1>2 DEF RestartRemote
  <2>1. draining' \in BOOLEAN
    BY Zenon
  <2>2. TypeOK'
    BY <2>1
  <2>3. RegisteredRuns' /\ HandlersAuthorized' /\ BusyServes'
    OBVIOUS
  <2> QED
    BY <2>2, <2>3
<1> QED
  BY <1>1, <1>2

LEMMA Invariance == Spec => []IInv
<1>1. IInv /\ UNCHANGED vars => IInv'
  BY DEF IInv, TypeOK, RegisteredRuns, HandlersAuthorized, BusyServes, Current, vars
<1>2. IInv /\ [Next]_vars => IInv'
  BY <1>1, OperatorInv, WorkerInv, TaskInv, RemoteInv DEF Next
<1> QED
  BY InitInv, <1>2, PTL DEF Spec

-----------------------------------------------------------------------------
(***************************************************************************)
(* Every variable stays in its type, and a registered session always has a *)
(* task that will drop its guard, for every number of enrolments, streams  *)
(* and failures (WorkerRegistry::register, SessionGuard).                  *)
(***************************************************************************)
THEOREM SessionsCorrect == Spec => []SessionInv
<1>1. IInv => SessionInv
  BY DEF IInv, SessionInv
<1> QED
  BY Invariance, <1>1, PTL

(***************************************************************************)
(* A handler's transaction is open only under the Worker's current         *)
(* credential, and one at a time: no revocation or second enrolment comes  *)
(* between lock_current_worker_credential and the commit.                  *)
(***************************************************************************)
THEOREM AuthorizationCorrect == Spec => []HandlersAuthorized
<1>1. IInv => HandlersAuthorized
  BY DEF IInv
<1> QED
  BY Invariance, <1>1, PTL

(***************************************************************************)
(* A Worker becomes unregistered only when its registered task is over:    *)
(* the late cleanup of a superseded session (SessionGuard::drop) leaves    *)
(* its successor's registration alone.                                     *)
(***************************************************************************)
THEOREM RegistrationCorrect == Spec => RegistrationKept
<1> DEFINE Kept == registry # Nobody /\ registry' = Nobody => pc'[registry] = "none"
<1>1. IInv /\ [Next]_vars => [Kept]_vars
  <2> SUFFICES ASSUME IInv, Next PROVE Kept
    OBVIOUS
  <2> USE NobodyAssumption
        DEF IInv, TypeOK, Goto, Finish, operatorVars, workerVars, taskVars
  <2>1. CASE OperatorStep
    BY <2>1 DEF OperatorStep, EnrollCall, EnrollCommit, EnrollStore, EnrollDropped,
                EnrollAbandon, RevokeWorker, Uninstall
  <2>2. CASE WorkerStep
    BY <2>2 DEF WorkerStep, StartWorker, StopWorker, ReceiveAck, NoticeEnd,
                BreakStream, Connect, SendMessage
  <2>3. ASSUME NEW s \in Sessions, TaskStep(s) PROVE Kept
    BY <2>3 DEF TaskStep, HandshakeStep, Authenticate, LockWorker, MarkSession,
                Register, DropHandshake, Dispatch, FinishMessage, PumpEnds, EndSession
  <2>4. CASE Shutdown \/ RestartRemote
    BY <2>4 DEF Shutdown, RestartRemote
  <2> QED
    BY <2>1, <2>2, <2>3, <2>4 DEF Next
<1> QED
  BY Invariance, <1>1, PTL DEF Spec, RegistrationKept
=============================================================================
