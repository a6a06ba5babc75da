------------------------------- MODULE Watch -------------------------------
(***************************************************************************)
(* The events of one Generation (events.rs, db/events.rs) and the streams  *)
(* of WatchGeneration that follow it (native/generation.rs).               *)
(*                                                                         *)
(* A change of the row is committed first, its event is appended to the    *)
(* log in a transaction of its own, and only then broadcast to the         *)
(* subscribers; a watcher subscribes, reads the row, the end of the log,   *)
(* the outputs and what the log gained since, all in separate statements.  *)
(* A row is abstracted to the number of changes made to it, and an event   *)
(* to the number of the change it tells of.                                *)
(***************************************************************************)
EXTENDS Integers, Sequences

CONSTANTS Recorders,   \* tasks that change the row and record an event
          Watchers,    \* WatchGeneration calls
          NoTask,      \* the author of an event no task publishes
          Capacity,    \* CHANNEL_CAPACITY
          MaxRow       \* bound: changes of the row

ASSUME WatchAssumption ==
  /\ Capacity \in Nat \ {0} /\ MaxRow \in Nat /\ NoTask \notin Recorders

VARIABLES row,       \* changes committed to the Generation's row
          final,     \* its state is terminal
          outputs,   \* its output Artifacts are recorded
          log,       \* generation_events in the order of their sequence
          task,      \* [Recorders -> Task]
          live,      \* the Generation's entry of EventHub::channels
          watch      \* [Watchers -> Stream]

rowVars == <<row, final, outputs>>
vars == <<rowVars, log, task, live, watch>>
-----------------------------------------------------------------------------
Kind == {"state", "progress", "attempt", "output", "discontinuity"}
Event == [kind : Kind, ver : 0 .. MaxRow, by : Recorders \cup {NoTask}]

\* What a task is: a handler of the Worker session, its progress handler, the
\* acceptance of a result, or a sweep, which reads the row again.
TaskKind == {"handler", "progress", "result", "sweep"}
Task == [pc : {"idle", "refetch", "record", "publish", "output", "done"},
         kind : TaskKind, ver : 0 .. MaxRow]
NoWork == [pc |-> "idle", kind |-> "handler", ver |-> 0]
Ended == [NoWork EXCEPT !.pc = "done"]

\* The stream of one call: the position of its receiver, what the snapshot
\* was read from, what waits in the replay, and what the client was told.
Stream ==
  [pc : {"none", "subscribed", "row", "latest", "outputs", "stream", "live",
         "refresh", "refreshed"},
   pos : Nat, snap : 0 .. MaxRow, from : Nat, replay : Seq(Event),
   outs : BOOLEAN, seen : SUBSET Event, skipped : SUBSET Event, gap : BOOLEAN]
Closed == [pc |-> "none", pos |-> 0, snap |-> 0, from |-> 0, replay |-> <<>>,
           outs |-> FALSE, seen |-> {}, skipped |-> {}, gap |-> FALSE]
NoChannel == [open |-> FALSE, events |-> <<>>]

TypeOK ==
  /\ row \in 0 .. MaxRow /\ final \in BOOLEAN /\ outputs \in BOOLEAN
  /\ log \in Seq(Event)
  /\ task \in [Recorders -> Task]
  /\ live \in [open : BOOLEAN, events : Seq(Event)]
  /\ watch \in [Watchers -> Stream]

Init ==
  /\ row = 0 /\ final = FALSE /\ outputs = FALSE /\ log = <<>>
  /\ task = [r \in Recorders |-> NoWork]
  /\ live = NoChannel
  /\ watch = [w \in Watchers |-> Closed]
-----------------------------------------------------------------------------
(***************************************************************************)
(* EventHub                                                                *)
(***************************************************************************)
Receivers == {w \in Watchers : watch[w].pc # "none"}

\* publish: nothing without a channel; a channel without receivers is pruned.
Send(e) ==
  live' = IF live.open /\ Receivers # {}
          THEN [live EXCEPT !.events = Append(@, e)] ELSE NoChannel

\* The persisted kind of a task's event, and the event itself.
EventOf(r) ==
  [kind |-> IF task[r].kind = "progress" THEN "progress" ELSE "state",
   ver |-> task[r].ver, by |-> r]

\* Seeded fault: an event that cannot be appended is dropped without a word.
AppendFailsSilently(r) ==
  /\ task[r].pc = "record"
  /\ task' = [task EXCEPT ![r] = Ended]
  /\ UNCHANGED <<rowVars, log, live, watch>>

\* Seeded fault: the sweep broadcasts the state it reached without recording it.
SweepUnrecorded(r) ==
  /\ task[r].pc = "record"
  /\ log' = IF task[r].kind = "sweep" THEN log ELSE Append(log, EventOf(r))
  /\ task' = [task EXCEPT ![r].pc = "publish"]
  /\ UNCHANGED <<rowVars, live, watch>>

\* The handlers' transactions.  A result is accepted once, and after it, or
\* any other terminal state, the row does not change.
Transition(r, k) ==
  /\ task[r].pc = "idle" /\ row < MaxRow /\ ~final
  /\ row' = row + 1
  /\ outputs' = (k = "result")
  /\ final' \in IF k = "result" THEN {TRUE}
                ELSE IF k = "progress" THEN {FALSE} ELSE BOOLEAN
  /\ task' = [task EXCEPT ![r] = [pc |-> IF k = "sweep" THEN "refetch" ELSE "record",
                                  kind |-> k, ver |-> row + 1]]
  /\ UNCHANGED <<log, live, watch>>

\* publish_generation_state reads the row again.
Refetch(r) ==
  /\ task[r].pc = "refetch"
  /\ task' = [task EXCEPT ![r].pc = "record", ![r].ver = row]
  /\ UNCHANGED <<rowVars, log, live, watch>>

\* append: FOR UPDATE on the Generation's row makes the next sequence unique.
AppendEvent(r) ==
  /\ task[r].pc = "record"
  /\ log' = Append(log, EventOf(r))
  /\ task' = [task EXCEPT ![r].pc = "publish"]
  /\ UNCHANGED <<rowVars, live, watch>>

\* The append fails: a Discontinuity goes out and the handler returns its
\* error, the outputs of a result unannounced.
AppendFails(r) ==
  /\ task[r].pc = "record"
  /\ Send([kind |-> "discontinuity", ver |-> task[r].ver, by |-> r])
  /\ task' = [task EXCEPT ![r] = Ended]
  /\ UNCHANGED <<rowVars, log, watch>>

\* The rest of record.
Publish(r) ==
  /\ task[r].pc = "publish"
  /\ Send(EventOf(r))
  /\ task' = [task EXCEPT ![r] = IF task[r].kind = "result"
                                 THEN [task[r] EXCEPT !.pc = "output"] ELSE Ended]
  /\ UNCHANGED <<rowVars, log, watch>>

\* The outputs of an accepted result are announced live only.
PublishOutput(r) ==
  /\ task[r].pc = "output"
  /\ Send([kind |-> "output", ver |-> task[r].ver, by |-> r])
  /\ task' = [task EXCEPT ![r] = Ended]
  /\ UNCHANGED <<rowVars, log, watch>>

\* try_assign marks the Generation running and appends attempt_created in the
\* same transaction; nothing is broadcast.
Assign ==
  /\ row < MaxRow /\ ~final
  /\ row' = row + 1
  /\ log' = Append(log, [kind |-> "attempt", ver |-> row + 1, by |-> NoTask])
  /\ UNCHANGED <<final, outputs, task, live, watch>>

\* CancelGeneration: a queued Generation becomes cancelled, a running one
\* cancelling.  Neither is recorded.
Cancel ==
  /\ row < MaxRow /\ ~final
  /\ row' = row + 1
  /\ final' \in BOOLEAN
  /\ UNCHANGED <<outputs, log, task, live, watch>>
-----------------------------------------------------------------------------
(***************************************************************************)
(* watch_generation                                                        *)
(***************************************************************************)
Subscribe(w) ==
  /\ watch[w].pc = "none"
  /\ live' = [live EXCEPT !.open = TRUE]
  /\ watch' = [watch EXCEPT ![w] = [Closed EXCEPT !.pc = "subscribed",
                                                  !.pos = Len(live.events)]]
  /\ UNCHANGED <<rowVars, log, task>>

\* Two statements of one transaction, but each sees what is committed when it
\* runs.
ReadRow(w) ==
  /\ watch[w].pc = "subscribed"
  /\ watch' = [watch EXCEPT ![w].pc = "row", ![w].snap = row]
  /\ UNCHANGED <<rowVars, log, task, live>>

ReadLatest(w) ==
  /\ watch[w].pc = "row"
  /\ watch' = [watch EXCEPT ![w].pc = "latest", ![w].from = Len(log)]
  /\ UNCHANGED <<rowVars, log, task, live>>

\* generation_row_to_proto lists the outputs in a transaction of its own.
ReadOutputs(w) ==
  /\ watch[w].pc = "latest"
  /\ watch' = [watch EXCEPT ![w].pc = "outputs", ![w].outs = outputs]
  /\ UNCHANGED <<rowVars, log, task, live>>

LoadSince(w) ==
  /\ watch[w].pc = "outputs"
  /\ watch' = [watch EXCEPT ![w].pc = "stream", ![w].from = 0,
                            ![w].replay = SubSeq(log, watch[w].from + 1, Len(log))]
  /\ UNCHANGED <<rowVars, log, task, live>>

\* The events a replay decodes: attempt_created has no counterpart.
Decoded(s) == {e \in {s[i] : i \in DOMAIN s} : e.kind # "attempt"}

\* Seeded fault: the receiver is only created when the stream is.
SubscribedLast(w) ==
  /\ watch[w].pc = "stream"
  /\ watch' = [watch EXCEPT ![w].pc = "live", ![w].replay = <<>>,
                            ![w].seen = Decoded(watch[w].replay),
                            ![w].pos = Len(live.events)]
  /\ UNCHANGED <<rowVars, log, task, live>>

\* The snapshot, then the replay.
SendReplay(w) ==
  /\ watch[w].pc = "stream"
  /\ watch' = [watch EXCEPT ![w].pc = "live", ![w].replay = <<>>,
                            ![w].seen = Decoded(watch[w].replay)]
  /\ UNCHANGED <<rowVars, log, task, live>>

Lagged(w) == Len(live.events) - watch[w].pos > Capacity

\* The next live event; an Output is answered with a new snapshot.
Receive(w) ==
  /\ watch[w].pc = "live" /\ ~Lagged(w) /\ watch[w].pos < Len(live.events)
  /\ LET e == live.events[watch[w].pos + 1]
     IN  watch' = [watch EXCEPT
           ![w].pos = @ + 1,
           ![w].pc = IF e.kind = "output" THEN "refresh" ELSE @,
           ![w].gap = @ \/ e.kind = "discontinuity",
           ![w].seen = IF e.kind \in {"state", "progress"} THEN @ \cup {e} ELSE @]
  /\ UNCHANGED <<rowVars, log, task, live>>

\* Seeded fault: the receiver goes on with the newest events and says nothing.
LagUnreported(w) ==
  /\ watch[w].pc = "live" /\ Lagged(w)
  /\ watch' = [watch EXCEPT ![w].pos = Len(live.events) - Capacity]
  /\ UNCHANGED <<rowVars, log, task, live>>

\* A receiver that fell behind goes on with the oldest event that is kept,
\* and the client is told of the gap.
Lag(w) ==
  /\ watch[w].pc = "live" /\ Lagged(w)
  /\ LET next == Len(live.events) - Capacity
     IN  watch' = [watch EXCEPT
           ![w].pos = next, ![w].gap = TRUE,
           ![w].skipped = @ \cup {live.events[i] : i \in watch[w].pos + 1 .. next}]
  /\ UNCHANGED <<rowVars, log, task, live>>

\* Seeded fault: a refresh starts over instead of going on to the outputs.
RefreshRowAgain(w) ==
  /\ watch[w].pc = "refresh"
  /\ watch' = [watch EXCEPT ![w].snap = row]
  /\ UNCHANGED <<rowVars, log, task, live>>

\* refreshed_snapshot_event, again in two transactions.
RefreshRow(w) ==
  /\ watch[w].pc = "refresh"
  /\ watch' = [watch EXCEPT ![w].pc = "refreshed", ![w].snap = row]
  /\ UNCHANGED <<rowVars, log, task, live>>

RefreshOutputs(w) ==
  /\ watch[w].pc = "refreshed"
  /\ watch' = [watch EXCEPT ![w].pc = "live", ![w].outs = outputs]
  /\ UNCHANGED <<rowVars, log, task, live>>

\* The client leaves, or a read fails and the stream ends with its error.
Leave(w) ==
  /\ watch[w].pc # "none"
  /\ watch' = [watch EXCEPT ![w] = Closed]
  /\ UNCHANGED <<rowVars, log, task, live>>

\* Remote restarts: tasks die between their commits, streams break, and the
\* hub starts empty.
Restart ==
  /\ task' = [r \in Recorders |-> IF task[r].pc = "idle" THEN NoWork ELSE Ended]
  /\ watch' = [w \in Watchers |-> Closed]
  /\ live' = NoChannel
  /\ UNCHANGED <<rowVars, log>>
-----------------------------------------------------------------------------
RecordStep(r) == Refetch(r) \/ AppendEvent(r) \/ AppendFails(r) \/ Publish(r)
                   \/ PublishOutput(r)
OpenStep(w) == ReadRow(w) \/ ReadLatest(w) \/ ReadOutputs(w) \/ LoadSince(w)
                 \/ SendReplay(w)
FollowStep(w) == Receive(w) \/ Lag(w) \/ RefreshRow(w) \/ RefreshOutputs(w)

Next ==
  \/ \E r \in Recorders : RecordStep(r) \/ \E k \in TaskKind : Transition(r, k)
  \/ Assign \/ Cancel \/ Restart
  \/ \E w \in Watchers : Subscribe(w) \/ OpenStep(w) \/ FollowStep(w) \/ Leave(w)

Spec == Init /\ [][Next]_vars

\* A handler that committed goes on to record, and a stream is read by its
\* client until it leaves.
FairSpec ==
  /\ Spec
  /\ \A r \in Recorders : WF_vars(RecordStep(r))
  /\ \A w \in Watchers : WF_vars(OpenStep(w)) /\ WF_vars(FollowStep(w))
-----------------------------------------------------------------------------
Following(w) == watch[w].pc \in {"live", "refresh", "refreshed"}
Ahead(w) == {live.events[i] : i \in watch[w].pos + 1 .. Len(live.events)}

(***************************************************************************)
(* No event is lost between the snapshot, the replay and the live stream:  *)
(* an event in the log that is newer than the snapshot was sent to the     *)
(* client, or passed over with a Discontinuity, or is still in the         *)
(* channel ahead of the receiver, or about to be published.                *)
(***************************************************************************)
NoneMissed ==
  \A w \in Watchers : \A i \in DOMAIN log :
    Following(w) /\ log[i].kind # "attempt" /\ log[i].ver > watch[w].snap =>
      \/ log[i] \in watch[w].seen
      \/ log[i] \in watch[w].skipped /\ watch[w].gap
      \/ log[i] \in Ahead(w)
      \/ task[log[i].by].pc = "publish" /\ EventOf(log[i].by) = log[i]

(***************************************************************************)
(* Nothing is told before it can be replayed: a State or Progress event a  *)
(* client was sent is in the log, so a client that reconnects finds it     *)
(* there or in the snapshot.                                               *)
(***************************************************************************)
ToldIsDurable ==
  \A w \in Watchers : watch[w].seen \subseteq {log[i] : i \in DOMAIN log}

\* The type invariant of the log, the channel and the streams, with the
\* relation between them that EventHub::record keeps.
WatchInv == TypeOK /\ ToldIsDurable

(***************************************************************************)
(* The outputs of a Generation are not missed although their announcement  *)
(* is never stored: a client that follows a Generation with outputs has    *)
(* them in its snapshot, was told of a gap, or either is on its way.       *)
(***************************************************************************)
OutputsAnnounced ==
  outputs => \A w \in Watchers : Following(w) =>
    \/ watch[w].outs \/ watch[w].gap \/ watch[w].pc \in {"refresh", "refreshed"}
    \/ Lagged(w) \/ \E e \in Ahead(w) : e.kind \in {"output", "discontinuity"}
    \/ \E r \in Recorders : /\ task[r].kind = "result"
                            /\ task[r].pc \in {"record", "publish", "output"}

(***************************************************************************)
(* A client that stays learns of the outputs, or of a gap.                 *)
(***************************************************************************)
OutputsReach ==
  \A w \in Watchers :
    outputs /\ Following(w) ~> watch[w].outs \/ watch[w].gap \/ watch[w].pc = "none"

(***************************************************************************)
(* When everything recorded has been delivered without a gap, a client     *)
(* that follows an ended Generation knows it has ended: every caller that  *)
(* ends a Generation publishes its state.                                  *)
(***************************************************************************)
EndTold ==
  \A w \in Watchers :
    /\ final /\ watch[w].pc = "live" /\ ~watch[w].gap /\ Ahead(w) = {}
    /\ \A r \in Recorders : task[r].pc \in {"idle", "done"}
    => watch[w].snap = row \/ \E e \in watch[w].seen : e.ver = row
=============================================================================
