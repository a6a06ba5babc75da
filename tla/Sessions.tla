------------------------------ MODULE Sessions ------------------------------
(***************************************************************************)
(* Enrolment, credentials, the control session and the session registry of *)
(* one Worker.                                                             *)
(*                                                                         *)
(* Four parties act: the operator (`gpq worker enroll`, `gpq remote worker *)
(* revoke`), the Worker process, which loads its credential once and       *)
(* reconnects with backoff, the handlers of Remote, one task per stream,   *)
(* and the database, whose row lock on the Worker serialises the handlers  *)
(* with revocation and re-enrolment.                                       *)
(*                                                                         *)
(* A credential is named by the enrolment that generated it.  The columns  *)
(* session_id and last_seen_at of the Worker's row are written and never   *)
(* read by Remote, so they are left out.  The names of sessions that are   *)
(* over are used again; nothing of a finished session is left that could   *)
(* be mistaken (RegisteredRuns).                                           *)
(***************************************************************************)
EXTENDS Naturals

CONSTANTS Enrolments,  \* calls of Enroll, each with the secret it generates
          Sessions,    \* names of control streams
          MaxBreaks    \* broken streams and restarts of Remote, together

ASSUME SessionsAssumption ==
    /\ MaxBreaks \in Nat
    /\ Enrolments \cap Sessions = {}

Nobody == "nobody"

ASSUME NobodyAssumption == Nobody \notin Enrolments \cup Sessions

VARIABLES
    row,       \* workers row: its credential_hash and revoked_at
    enrol,     \* progress of each call of Enroll
    command,   \* the call the running `worker enroll` waits for
    file,      \* the stored Worker Credential
    wpc,       \* the Worker process
    wcred,     \* the credential it loaded at its start
    wsess,     \* its end of a control stream
    pc,        \* Remote's task of each stream
    scred,     \* the credential_hash the task was given
    inbox,     \* the message that waits in the stream
    busy,      \* the message whose transaction is open
    lock,      \* the task that holds the row of the Worker
    registry,  \* WorkerRegistry.sessions, of this Worker
    draining,  \* state.shutdown is cancelled
    breaks

operatorVars == <<enrol, command, file>>
workerVars == <<wpc, wcred, wsess>>
taskVars == <<pc, scred, inbox, busy, lock>>
vars == <<row, enrol, command, file, wpc, wcred, wsess,
          pc, scred, inbox, busy, lock, registry, draining, breaks>>

-----------------------------------------------------------------------------
NoRow == [cred |-> Nobody, revoked |-> FALSE]

\* gpq_authenticate_worker, and the test of lock_current_worker_credential.
Current(c) == row.cred = c /\ ~row.revoked

Unlocked == lock = Nobody
Unlock(s) == lock' = IF lock = s THEN Nobody ELSE lock

\* Task s takes its next step, or is over.
Goto(s, l) == pc' = [pc EXCEPT ![s] = l] /\ UNCHANGED scred
Finish(s) ==
    /\ pc' = [pc EXCEPT ![s] = "none"]
    /\ scred' = [scred EXCEPT ![s] = Nobody]

Init ==
    /\ row = NoRow
    /\ enrol = [e \in Enrolments |-> "idle"]
    /\ command = Nobody
    /\ file = Nobody
    /\ wpc = "down" /\ wcred = Nobody /\ wsess = Nobody
    /\ pc = [s \in Sessions |-> "none"]
    /\ scred = [s \in Sessions |-> Nobody]
    /\ inbox = [s \in Sessions |-> "none"]
    /\ busy = [s \in Sessions |-> "none"]
    /\ lock = Nobody
    /\ registry = Nobody
    /\ draining = FALSE
    /\ breaks = 0

-----------------------------------------------------------------------------
(* The operator: enrolment, revocation, keys, and the service.             *)

\* The command calls Enroll, and authenticate_master_key finds its Tenant,
\* in a statement of its own, or refuses the key.
EnrollCall(e) ==
    /\ command = Nobody /\ enrol[e] = "idle" /\ ~draining
    /\ \/ command' = e /\ enrol' = [enrol EXCEPT ![e] = "authed"]
       \/ UNCHANGED command /\ enrol' = [enrol EXCEPT ![e] = "done"]
    /\ UNCHANGED <<row, file, workerVars, taskVars, registry, draining, breaks>>

\* The upsert replaces the credential and lifts a revocation; it waits for
\* the row.
EnrollCommit(e) ==
    /\ enrol[e] = "authed" /\ Unlocked
    /\ row' = [cred |-> e, revoked |-> FALSE]
    /\ enrol' = [enrol EXCEPT ![e] = "answered"]
    /\ UNCHANGED <<command, file, workerVars, taskVars, registry, draining, breaks>>

\* store_file writes a temporary file and renames it over the old one.
EnrollStore(e) ==
    /\ command = e /\ enrol[e] = "answered"
    /\ file' = e
    /\ command' = Nobody
    /\ enrol' = [enrol EXCEPT ![e] = "done"]
    /\ UNCHANGED <<row, workerVars, taskVars, registry, draining, breaks>>

\* The command is killed, loses its answer or cannot store it, and the call
\* goes on without it.
EnrollAbandon ==
    /\ command # Nobody
    /\ command' = Nobody
    /\ UNCHANGED <<row, enrol, file, workerVars, taskVars, registry, draining, breaks>>

EnrollDropped(e) ==
    /\ command # e /\ enrol[e] \in {"authed", "answered"}
    /\ enrol' = [enrol EXCEPT ![e] = "done"]
    /\ UNCHANGED <<row, command, file, workerVars, taskVars, registry, draining, breaks>>

RevokeWorker ==
    /\ row.cred # Nobody /\ ~row.revoked /\ Unlocked
    /\ row' = [row EXCEPT !.revoked = TRUE]
    /\ UNCHANGED <<operatorVars, workerVars, taskVars, registry, draining, breaks>>

\* service uninstall stops the Worker and deletes its credential.
Uninstall ==
    /\ file # Nobody
    /\ file' = Nobody
    /\ wpc' = "down" /\ wcred' = Nobody /\ wsess' = Nobody
    /\ UNCHANGED <<row, enrol, command, taskVars, registry, draining, breaks>>

-----------------------------------------------------------------------------
(* The Worker process.                                                     *)

StartWorker ==
    /\ wpc = "down" /\ file # Nobody
    /\ wpc' = "apart" /\ wcred' = file
    /\ UNCHANGED <<operatorVars, row, wsess, taskVars, registry, draining, breaks>>

StopWorker ==
    /\ wpc # "down"
    /\ wpc' = "down" /\ wcred' = Nobody /\ wsess' = Nobody
    /\ UNCHANGED <<operatorVars, row, taskVars, registry, draining, breaks>>

Connect(s) ==
    /\ wpc = "apart" /\ pc[s] = "none" /\ ~draining
    /\ wpc' = "handshake" /\ wsess' = s
    /\ pc' = [pc EXCEPT ![s] = "opened"]
    /\ scred' = [scred EXCEPT ![s] = wcred]
    /\ UNCHANGED <<operatorVars, row, wcred, inbox, busy, lock, registry, draining, breaks>>

\* The acknowledgement arrives and is answered with a CapabilityReport.
ReceiveAck ==
    /\ wpc = "handshake" /\ pc[wsess] \in {"open", "ended"}
    /\ wpc' = "serving"
    /\ inbox' = [inbox EXCEPT ![wsess] = "report"]
    /\ UNCHANGED <<operatorVars, row, wcred, wsess, pc, scred, busy, lock,
                   registry, draining, breaks>>

SendMessage(m) ==
    /\ wpc = "serving" /\ pc[wsess] # "none" /\ inbox[wsess] = "none"
    /\ inbox' = [inbox EXCEPT ![wsess] = m]
    /\ UNCHANGED <<operatorVars, row, workerVars, pc, scred, busy, lock,
                   registry, draining, breaks>>

\* Remote has closed the stream, or refused it.
NoticeEnd ==
    /\ wsess # Nobody /\ pc[wsess] = "none"
    /\ wpc' = "apart" /\ wsess' = Nobody
    /\ UNCHANGED <<operatorVars, row, wcred, taskVars, registry, draining, breaks>>

\* The transport fails; Remote's end may not notice for long.
BreakStream ==
    /\ wsess # Nobody /\ breaks < MaxBreaks
    /\ wpc' = "apart" /\ wsess' = Nobody
    /\ breaks' = breaks + 1
    /\ UNCHANGED <<operatorVars, row, wcred, taskVars, registry, draining>>

-----------------------------------------------------------------------------
(* Remote: one task per stream.                                            *)

\* authenticate_session.
Authenticate(s) ==
    /\ pc[s] = "opened"
    /\ IF Current(scred[s]) THEN Goto(s, "authed") ELSE Finish(s)
    /\ UNCHANGED <<operatorVars, row, workerVars, inbox, busy, lock,
                   registry, draining, breaks>>

LockWorker(s) ==
    /\ pc[s] = "authed" /\ Unlocked
    /\ IF Current(scred[s])
       THEN Goto(s, "locked") /\ lock' = s
       ELSE Finish(s) /\ UNCHANGED lock
    /\ UNCHANGED <<operatorVars, row, workerVars, inbox, busy, registry, draining, breaks>>

\* Seeded fault: the transaction of the handshake is left open.
MarkSessionUncommitted(s) ==
    /\ pc[s] = "locked"
    /\ Goto(s, "marked")
    /\ UNCHANGED <<operatorVars, row, workerVars, inbox, busy, lock, registry, draining, breaks>>

MarkSession(s) ==
    /\ pc[s] = "locked"
    /\ Goto(s, "marked")
    /\ Unlock(s)
    /\ UNCHANGED <<operatorVars, row, workerVars, inbox, busy, registry, draining, breaks>>

\* The registration comes after the commit: two streams may be marked in one
\* order and registered in the other.
Register(s) ==
    /\ pc[s] = "marked"
    /\ Goto(s, "open")
    /\ registry' = s
    /\ UNCHANGED <<operatorVars, row, workerVars, inbox, busy, lock, draining, breaks>>

\* The stream is gone before it was served and its task is dropped.
DropHandshake(s) ==
    /\ pc[s] \in {"opened", "authed", "locked", "marked"} /\ wsess # s
    /\ Finish(s)
    /\ Unlock(s)
    /\ UNCHANGED <<operatorVars, row, workerVars, inbox, busy, registry, draining, breaks>>

\* Seeded fault: the credential is tested without FOR NO KEY UPDATE.
DispatchUnlocked(s) ==
    /\ pc[s] = "open" /\ busy[s] = "none" /\ inbox[s] # "none" /\ Unlocked
    /\ inbox' = [inbox EXCEPT ![s] = "none"]
    /\ IF Current(scred[s])
       THEN busy' = [busy EXCEPT ![s] = inbox[s]] /\ Goto(s, "open")
       ELSE Goto(s, IF inbox[s] = "heartbeat" THEN "ended" ELSE "open") /\ UNCHANGED busy
    /\ UNCHANGED <<operatorVars, row, workerVars, lock, registry, draining, breaks>>

\* Seeded fault: a Heartbeat under a dead credential is dropped like the rest.
DispatchLenient(s) ==
    /\ pc[s] = "open" /\ busy[s] = "none" /\ inbox[s] # "none" /\ Unlocked
    /\ inbox' = [inbox EXCEPT ![s] = "none"]
    /\ Goto(s, "open")
    /\ IF Current(scred[s])
       THEN busy' = [busy EXCEPT ![s] = inbox[s]] /\ lock' = s
       ELSE UNCHANGED <<busy, lock>>
    /\ UNCHANGED <<operatorVars, row, workerVars, registry, draining, breaks>>

\* dispatch_worker_message up to the row lock.  Under a credential that is
\* not current a Heartbeat ends the session; any other message is dropped.
Dispatch(s) ==
    /\ pc[s] = "open" /\ busy[s] = "none" /\ inbox[s] # "none" /\ Unlocked
    /\ inbox' = [inbox EXCEPT ![s] = "none"]
    /\ IF Current(scred[s])
       THEN /\ busy' = [busy EXCEPT ![s] = inbox[s]]
            /\ lock' = s
            /\ Goto(s, "open")
       ELSE /\ Goto(s, IF inbox[s] = "heartbeat" THEN "ended" ELSE "open")
            /\ UNCHANGED <<busy, lock>>
    /\ UNCHANGED <<operatorVars, row, workerVars, registry, draining, breaks>>

\* The handler's transaction commits or fails; neither ends the session.
FinishMessage(s) ==
    /\ busy[s] # "none"
    /\ busy' = [busy EXCEPT ![s] = "none"]
    /\ Unlock(s)
    /\ UNCHANGED <<operatorVars, row, workerVars, pc, scred, inbox,
                   registry, draining, breaks>>

\* run_inbound_pump leaves its loop at the end of the stream or for the
\* graceful shutdown, between two messages; what still waits is lost.
PumpEnds(s) ==
    /\ pc[s] = "open" /\ busy[s] = "none"
    /\ wsess # s \/ draining
    /\ Goto(s, "ended")
    /\ inbox' = [inbox EXCEPT ![s] = "none"]
    /\ UNCHANGED <<operatorVars, row, workerVars, busy, lock, registry, draining, breaks>>

\* Seeded fault: the guard removes whatever registration the Worker has.
EndSessionAny(s) ==
    /\ pc[s] = "ended" /\ Unlocked
    /\ Finish(s)
    /\ inbox' = [inbox EXCEPT ![s] = "none"]
    /\ registry' = Nobody
    /\ UNCHANGED <<operatorVars, row, workerVars, busy, lock, draining, breaks>>

\* Seeded fault: the guard is not held by the task.
EndSessionUnguarded(s) ==
    /\ pc[s] = "ended" /\ Unlocked
    /\ Finish(s)
    /\ inbox' = [inbox EXCEPT ![s] = "none"]
    /\ UNCHANGED <<operatorVars, row, workerVars, busy, lock, registry, draining, breaks>>

\* clear_session waits for the row; then SessionGuard is dropped.
EndSession(s) ==
    /\ pc[s] = "ended" /\ Unlocked
    /\ Finish(s)
    /\ inbox' = [inbox EXCEPT ![s] = "none"]
    /\ registry' = IF registry = s THEN Nobody ELSE registry
    /\ UNCHANGED <<operatorVars, row, workerVars, busy, lock, draining, breaks>>

Shutdown ==
    /\ ~draining /\ breaks < MaxBreaks
    /\ draining' = TRUE
    /\ breaks' = breaks + 1
    /\ UNCHANGED <<operatorVars, row, workerVars, taskVars, registry>>

\* Remote exits, drained or not, and starts again: ADR 0010, the registry is
\* not durable.
RestartRemote ==
    /\ draining \/ breaks < MaxBreaks
    /\ breaks' = IF draining THEN breaks ELSE breaks + 1
    /\ pc' = [s \in Sessions |-> "none"]
    /\ scred' = [s \in Sessions |-> Nobody]
    /\ inbox' = [s \in Sessions |-> "none"]
    /\ busy' = [s \in Sessions |-> "none"]
    /\ lock' = Nobody
    /\ registry' = Nobody
    /\ draining' = FALSE
    /\ enrol' = [e \in Enrolments |-> IF enrol[e] = "idle" THEN "idle" ELSE "done"]
    /\ command' = Nobody
    /\ UNCHANGED <<row, file, workerVars>>

-----------------------------------------------------------------------------
OperatorStep ==
    \/ \E e \in Enrolments :
          \/ EnrollCall(e) \/ EnrollCommit(e) \/ EnrollStore(e) \/ EnrollDropped(e)
    \/ EnrollAbandon \/ RevokeWorker \/ Uninstall

WorkerStep ==
    \/ StartWorker \/ StopWorker \/ ReceiveAck \/ NoticeEnd \/ BreakStream
    \/ \E s \in Sessions : Connect(s)
    \/ \E m \in {"heartbeat", "report"} : SendMessage(m)

HandshakeStep(s) == Authenticate(s) \/ LockWorker(s) \/ MarkSession(s) \/ Register(s)

TaskStep(s) ==
    \/ HandshakeStep(s) \/ DropHandshake(s)
    \/ Dispatch(s) \/ FinishMessage(s) \/ PumpEnds(s) \/ EndSession(s)

Next ==
    \/ OperatorStep \/ WorkerStep
    \/ \E s \in Sessions : TaskStep(s)
    \/ Shutdown \/ RestartRemote

Spec == Init /\ [][Next]_vars

\* The tasks of Remote run and the row lock is granted in turn, the Worker
\* goes on, its ticker sends heartbeats whatever else it sends, and a
\* graceful shutdown ends.  No fairness for the operator or for the end of a
\* process.  That Remote notices the end of a stream is used only for the
\* names of Sessions to come free again: it has as many as it likes.
Fairness ==
    /\ WF_vars(ReceiveAck \/ NoticeEnd \/ \E s \in Sessions : Connect(s))
    /\ SF_vars(SendMessage("heartbeat"))
    /\ WF_vars(draining /\ RestartRemote)
    /\ \A s \in Sessions : SF_vars(TaskStep(s))

FairSpec == Spec /\ Fairness

-----------------------------------------------------------------------------
(* Properties.                                                             *)

\* The types of the variables; a Worker that is up holds a credential, and
\* one with a stream is in its handshake or serves.
TypeOK ==
    /\ draining \in BOOLEAN /\ breaks \in 0..MaxBreaks
    /\ row \in [cred : Enrolments \cup {Nobody}, revoked : BOOLEAN]
    /\ enrol \in [Enrolments -> {"idle", "authed", "answered", "done"}]
    /\ command \in Enrolments \cup {Nobody}
    /\ file \in Enrolments \cup {Nobody}
    /\ wpc \in {"down", "apart", "handshake", "serving"}
    /\ wcred \in Enrolments \cup {Nobody}
    /\ wsess \in Sessions \cup {Nobody}
    /\ wsess # Nobody <=> wpc \in {"handshake", "serving"}
    /\ wpc # "down" => wcred # Nobody
    /\ pc \in [Sessions -> {"none", "opened", "authed", "locked", "marked", "open", "ended"}]
    /\ scred \in [Sessions -> Enrolments \cup {Nobody}]
    /\ inbox \in [Sessions -> {"none", "heartbeat", "report"}]
    /\ busy \in [Sessions -> {"none", "heartbeat", "report"}]
    /\ lock \in Sessions \cup {Nobody}
    /\ registry \in Sessions \cup {Nobody}

\* While a handler's transaction is open, the credential of its session is
\* the Worker's current one: neither a revocation nor a second enrolment can
\* come between the test in lock_current_worker_credential and the commit,
\* and no two handlers of the Worker are inside at once.
HandlersAuthorized ==
    \A s \in Sessions :
        (pc[s] = "locked" \/ busy[s] # "none") => lock = s /\ Current(scred[s])

\* A registered session has a task that will drop its guard: a message for
\* the Worker is never handed to a stream nobody serves any more.
RegisteredRuns ==
    registry # Nobody => pc[registry] \in {"open", "ended"}

\* The type invariant, with the relation between the registry and the tasks
\* that RegistrationGuard keeps.
SessionInv == TypeOK /\ RegisteredRuns

\* A Worker becomes unregistered only when the registered task itself ends:
\* the cleanup of a superseded session, however late, leaves the
\* registration of its successor alone.
RegistrationKept ==
    [][registry # Nobody /\ registry' = Nobody => pc'[registry] = "none"]_vars

\* A Worker that keeps its stream under a credential that was revoked or
\* replaced loses the stream: its heartbeats end the session.
CutOff ==
    \A s \in Sessions :
        (wsess = s /\ wpc = "serving" /\ ~Current(wcred)) ~> (wsess # s)

\* A Worker that runs with the current credential gets back to serving, over
\* every broken stream and restart of Remote, unless it is stopped or its
\* credential is taken away.
Reconnects ==
    (wpc # "down" /\ Current(wcred)) ~>
        (wpc \in {"serving", "down"} \/ ~Current(wcred))

\* A Worker that is served is registered: is_online tells "whether worker
\* currently holds a live control session".
OnlineWhileServing ==
    wpc = "serving" /\ pc[wsess] = "open" => registry # Nobody

=============================================================================
