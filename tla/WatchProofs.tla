----------------------------- MODULE WatchProofs -----------------------------
(***************************************************************************)
(* Proofs of Watch's safety properties for every number of tasks and       *)
(* watchers, every channel capacity and every length of the log.           *)
(*                                                                         *)
(* A watcher subscribes before it reads the row, and an event is logged    *)
(* before it is sent: so what the log gained after the snapshot was sent   *)
(* to a channel the watcher was already listening to (Covered), and what a *)
(* channel or a replay holds is in the log (Durable).  Outputs are not in  *)
(* the log; a watcher that read none is told by the task that recorded     *)
(* them (Announced).                                                       *)
(***************************************************************************)
EXTENDS Watch, TLAPS

Logged == {log[i] : i \in DOMAIN log}

\* An entry of the log tells of a change that was committed; only
\* attempt_created has no task behind it.
LogInv ==
  \A i \in DOMAIN log :
    /\ log[i].ver <= row
    /\ log[i].kind \in {"state", "progress", "attempt"}
    /\ log[i].kind # "attempt" => log[i].by \in Recorders

\* A task records a change that was committed, and outputs end a Generation.
TaskInv ==
  /\ \A r \in Recorders : task[r].ver <= row
  /\ outputs => final

\* A receiver has a channel and is not beyond its end, and nothing was sent
\* to the client before the replay.
ReceiverInv ==
  \A w \in Watchers :
    /\ watch[w].pc # "none" => live.open /\ watch[w].pos <= Len(live.events)
    /\ ~Following(w) => watch[w].seen = {}

\* Whatever is about to be told is in the log.
Durable ==
  /\ \A i \in DOMAIN live.events :
       live.events[i].kind \in {"state", "progress"} => live.events[i] \in Logged
  /\ \A r \in Recorders : task[r].pc = "publish" => EventOf(r) \in Logged
  /\ \A w \in Watchers : \A i \in DOMAIN watch[w].replay : watch[w].replay[i] \in Logged

\* The entry e has reached the watcher w, or will.
Reaches(w, e) ==
  \/ e \in watch[w].seen
  \/ e \in watch[w].skipped /\ watch[w].gap
  \/ e \in Ahead(w)
  \/ task[e.by].pc = "publish" /\ EventOf(e.by) = e

\* NoneMissed, from the moment the row is read.
Covered ==
  \A w \in Watchers : watch[w].pc \notin {"none", "subscribed"} =>
    \A i \in DOMAIN log :
      log[i].kind # "attempt" /\ log[i].ver > watch[w].snap => Reaches(w, log[i])

\* The watcher w has the outputs, or will hear of them or of a gap.
Announces(w) ==
  \/ watch[w].outs \/ watch[w].gap \/ watch[w].pc \in {"refresh", "refreshed"}
  \/ Lagged(w) \/ \E e \in Ahead(w) : e.kind \in {"output", "discontinuity"}
  \/ \E r \in Recorders : /\ task[r].kind = "result"
                          /\ task[r].pc \in {"record", "publish", "output"}

\* OutputsAnnounced, from the moment the outputs are read.
Announced ==
  outputs => \A w \in Watchers :
    watch[w].pc \in {"outputs", "stream"} \/ Following(w) => Announces(w)

IInv == /\ TypeOK /\ LogInv /\ TaskInv /\ ReceiverInv
        /\ Durable /\ ToldIsDurable /\ Covered /\ Announced
-----------------------------------------------------------------------------
(***************************************************************************)
(* Types                                                                   *)
(***************************************************************************)
Channel == [open : BOOLEAN, events : Seq(Event)]

\* The facts every step uses.
LEMMA Types ==
  ASSUME TypeOK
  PROVE  /\ row \in Nat /\ MaxRow \in Nat /\ row <= MaxRow
         /\ log \in Seq(Event) /\ Len(log) \in Nat /\ DOMAIN log = 1 .. Len(log)
         /\ \A i \in DOMAIN log : log[i] \in Event
         /\ \A r \in Recorders : task[r] \in Task
         /\ live \in Channel /\ live.events \in Seq(Event) /\ Len(live.events) \in Nat
         /\ DOMAIN live.events = 1 .. Len(live.events)
         /\ \A i \in DOMAIN live.events : live.events[i] \in Event
         /\ \A w \in Watchers : watch[w] \in Stream /\ watch[w].pos \in Nat
  BY WatchAssumption DEF TypeOK, Channel, Stream

\* What a task records is an event.
LEMMA EventOfType ==
  ASSUME TypeOK, NEW r \in Recorders
  PROVE  /\ EventOf(r) \in Event
         /\ EventOf(r).kind \in {"state", "progress"}
         /\ EventOf(r).ver = task[r].ver /\ EventOf(r).by = r
<1>1. task[r] \in Task
  BY Types
<1> QED
  BY <1>1 DEF EventOf, Event, Kind, Task

\* The event a task sends without recording it.
LEMMA MarkType ==
  ASSUME TypeOK, NEW r \in Recorders, NEW k \in {"output", "discontinuity"}
  PROVE  LET e == [kind |-> k, ver |-> task[r].ver, by |-> r]
         IN  e \in Event /\ e.kind = k
<1>1. task[r] \in Task
  BY Types
<1> QED
  BY <1>1 DEF Event, Kind, Task

\* A task that has ended.
LEMMA EndedType == Ended \in Task /\ Ended.pc = "done" /\ Ended.ver = 0 /\ NoWork \in Task
                     /\ NoWork.pc = "idle" /\ NoWork.ver = 0
<1>1. 0 \in 0 .. MaxRow
  BY WatchAssumption
<1>2. NoWork \in Task /\ NoWork.pc = "idle" /\ NoWork.ver = 0
  BY <1>1 DEF NoWork, Task, TaskKind
<1>3. Ended = [pc |-> "done", kind |-> "handler", ver |-> 0]
  BY DEF Ended, NoWork
<1> QED
  BY <1>1, <1>2, <1>3 DEF Task, TaskKind

\* A stream that is not there.
LEMMA ClosedType ==
  /\ Closed \in Stream /\ Closed.pc = "none" /\ Closed.seen = {} /\ Closed.replay = <<>>
  /\ Closed.pos = 0
<1>1. FALSE \in BOOLEAN
  BY Zenon
<1>2. 0 \in 0 .. MaxRow /\ 0 \in Nat
  BY WatchAssumption
<1>3. <<>> \in Seq(Event)
  OBVIOUS
<1>4. {} \in SUBSET Event
  BY Zenon
<1> QED
  BY <1>1, <1>2, <1>3, <1>4 DEF Closed, Stream

\* A channel that is not there.
LEMMA NoChannelType == NoChannel \in Channel /\ NoChannel.events = <<>>
<1>1. FALSE \in BOOLEAN
  BY Zenon
<1>2. <<>> \in Seq(Event)
  OBVIOUS
<1> QED
  BY <1>1, <1>2 DEF NoChannel, Channel

\* What publish does to the channel, when someone listens and when nobody does.
LEMMA SendFact ==
  ASSUME TypeOK, ReceiverInv, NEW e \in Event, Send(e)
  PROVE  /\ live' \in Channel
         /\ Receivers # {} => /\ live'.open /\ live'.events = Append(live.events, e)
                              /\ Len(live'.events) = Len(live.events) + 1
                              /\ live'.events[Len(live.events) + 1] = e
                              /\ \A i \in DOMAIN live.events : live'.events[i] = live.events[i]
         /\ Receivers = {} => live'.events = <<>>
<1> USE Types
<1>1. CASE Receivers = {}
  BY <1>1, NoChannelType DEF Send
<1>2. CASE Receivers # {}
  <2>1. live.open
    BY <1>2 DEF ReceiverInv, Receivers
  <2>2. live' = [live EXCEPT !.events = Append(live.events, e)]
    BY <1>2, <2>1 DEF Send
  <2>3. Append(live.events, e) \in Seq(Event)
    OBVIOUS
  <2>4. live' \in Channel /\ live'.open /\ live'.events = Append(live.events, e)
    BY <2>1, <2>2, <2>3 DEF Channel
  <2> QED
    BY <1>2, <2>4
<1> QED
  BY <1>1, <1>2
-----------------------------------------------------------------------------
(***************************************************************************)
(* The three kinds of step                                                 *)
(***************************************************************************)
\* The channel gains e, or nobody listens: what a watcher has ahead of it
\* stays ahead, and e is ahead of it too.
LEMMA SentAhead ==
  ASSUME IInv, NEW e \in Event, Send(e), UNCHANGED watch
  PROVE  \A w \in Watchers : watch[w].pc # "none" =>
           /\ Ahead(w) \subseteq Ahead(w)' /\ e \in Ahead(w)'
           /\ Lagged(w) => Lagged(w)'
           /\ live'.open /\ watch[w].pos <= Len(live'.events)
<1> SUFFICES ASSUME NEW w \in Watchers, watch[w].pc # "none"
             PROVE  /\ Ahead(w) \subseteq Ahead(w)' /\ e \in Ahead(w)'
                    /\ Lagged(w) => Lagged(w)'
                    /\ live'.open /\ watch[w].pos <= Len(live'.events)
  OBVIOUS
<1> USE Types DEF IInv
<1>1. Receivers # {}
  BY DEF Receivers
<1>2. /\ live'.open /\ Len(live'.events) = Len(live.events) + 1
      /\ live'.events[Len(live.events) + 1] = e
      /\ \A i \in DOMAIN live.events : live'.events[i] = live.events[i]
  BY <1>1, SendFact
<1>3. watch[w].pos \in Nat /\ watch[w].pos <= Len(live.events)
  BY DEF ReceiverInv
<1>4. Ahead(w) \subseteq Ahead(w)'
  <2> SUFFICES ASSUME NEW i \in watch[w].pos + 1 .. Len(live.events)
               PROVE  live.events[i] \in Ahead(w)'
    BY DEF Ahead
  <2>1. i \in DOMAIN live.events /\ i \in watch[w].pos + 1 .. Len(live'.events)
    BY <1>2, <1>3
  <2> QED
    BY <1>2, <2>1 DEF Ahead
<1>5. e \in Ahead(w)'
  <2>1. Len(live.events) + 1 \in watch[w].pos + 1 .. Len(live'.events)
    BY <1>2, <1>3
  <2> QED
    BY <1>2, <2>1 DEF Ahead
<1>6. Lagged(w) => Lagged(w)'
  BY <1>2, <1>3, WatchAssumption DEF Lagged
<1> QED
  BY <1>2, <1>3, <1>4, <1>5, <1>6

\* The task r has the outputs of a result still to announce.
Announcing(r) == task[r].kind = "result" /\ task[r].pc \in {"record", "publish", "output"}

\* A task broadcasts e and moves on to x.
LEMMA SendStep ==
  ASSUME IInv, NEW r \in Recorders, NEW e \in Event, NEW x \in Task,
         Send(e), task' = [task EXCEPT ![r] = x], UNCHANGED <<rowVars, log, watch>>,
         x.ver <= row, x.pc # "publish",
         task[r].pc = "publish" => e = EventOf(r),
         e.kind \in {"state", "progress"} => e \in Logged,
         Announcing(r) => \/ x.kind = "result" /\ x.pc = "output"
                          \/ e.kind \in {"output", "discontinuity"}
  PROVE  IInv'
<1> USE Types DEF IInv
<1>1. /\ live' \in Channel
      /\ Receivers # {} => /\ Len(live'.events) = Len(live.events) + 1
                           /\ live'.events[Len(live.events) + 1] = e
                           /\ \A i \in DOMAIN live.events : live'.events[i] = live.events[i]
      /\ Receivers = {} => live'.events = <<>>
  BY SendFact
<1>2. \A w \in Watchers : watch[w].pc # "none" =>
        /\ Ahead(w) \subseteq Ahead(w)' /\ e \in Ahead(w)'
        /\ Lagged(w) => Lagged(w)'
        /\ live'.open /\ watch[w].pos <= Len(live'.events)
  BY SentAhead
<1>3. task' \in [Recorders -> Task] /\ task'[r] = x
        /\ \A s \in Recorders : s # r => task'[s] = task[s] /\ EventOf(s)' = EventOf(s)
  BY DEF TypeOK, EventOf
<1>4. TypeOK'
  BY <1>1, <1>3 DEF TypeOK, Channel, rowVars
<1>5. LogInv' /\ TaskInv' /\ ToldIsDurable'
  BY <1>3 DEF LogInv, TaskInv, ToldIsDurable, rowVars
<1>6. ReceiverInv'
  BY <1>2 DEF ReceiverInv, Following
<1>7. Durable'
  <2>1. \A i \in DOMAIN live'.events :
          live'.events[i].kind \in {"state", "progress"} => live'.events[i] \in Logged'
    <3> SUFFICES ASSUME NEW i \in DOMAIN live'.events,
                        live'.events[i].kind \in {"state", "progress"}
                 PROVE  live'.events[i] \in Logged
      BY DEF Logged
    <3>1. Receivers # {} /\ (i \in DOMAIN live.events \/ i = Len(live.events) + 1)
      BY <1>1 DEF Channel
    <3> QED
      BY <1>1, <3>1 DEF Durable
  <2>2. \A s \in Recorders : task'[s].pc = "publish" => EventOf(s)' \in Logged'
    BY <1>3 DEF Durable, Logged
  <2> QED
    BY <2>1, <2>2 DEF Durable, Logged
<1>8. Covered'
  <2> SUFFICES ASSUME NEW w \in Watchers, watch[w].pc \notin {"none", "subscribed"},
                      NEW i \in DOMAIN log, log[i].kind # "attempt",
                      log[i].ver > watch[w].snap
               PROVE  Reaches(w, log[i])'
    BY DEF Covered
  <2>1. Reaches(w, log[i]) /\ log[i].by \in Recorders
    BY DEF Covered, LogInv
  <2>2. CASE task[log[i].by].pc = "publish" /\ EventOf(log[i].by) = log[i]
    <3>1. CASE log[i].by = r
      BY <1>2, <2>2, <3>1 DEF Reaches
    <3>2. CASE log[i].by # r
      BY <1>3, <2>1, <2>2, <3>2 DEF Reaches
    <3> QED
      BY <3>1, <3>2
  <2>3. CASE log[i] \in watch[w].seen \/ (log[i] \in watch[w].skipped /\ watch[w].gap)
    BY <2>3 DEF Reaches
  <2>4. CASE log[i] \in Ahead(w)
    BY <1>2, <2>4 DEF Reaches
  <2> QED
    BY <2>1, <2>2, <2>3, <2>4 DEF Reaches
<1>9. Announced'
  <2> SUFFICES ASSUME outputs, NEW w \in Watchers,
                      watch[w].pc \in {"outputs", "stream"} \/ Following(w)
               PROVE  Announces(w)'
    BY DEF Announced, rowVars, Following
  <2>1. Announces(w) /\ watch[w].pc # "none"
    BY DEF Announced, Following
  <2>2. CASE \E s \in Recorders : Announcing(s)
    <3>1. PICK s \in Recorders : Announcing(s)
      BY <2>2
    <3>2. CASE s # r
      BY <1>3, <3>1, <3>2 DEF Announcing, Announces
    <3>3. CASE s = r
      BY <1>2, <1>3, <2>1, <3>1, <3>3 DEF Announces
    <3> QED
      BY <3>2, <3>3
  <2>3. CASE ~\E s \in Recorders : Announcing(s)
    <3>1. \/ watch[w].outs \/ watch[w].gap \/ watch[w].pc \in {"refresh", "refreshed"}
          \/ Lagged(w) \/ \E f \in Ahead(w) : f.kind \in {"output", "discontinuity"}
      BY <2>1, <2>3 DEF Announces, Announcing
    <3> QED
      BY <1>2, <2>1, <3>1 DEF Announces
  <2> QED
    BY <2>2, <2>3
<1> QED
  BY <1>4, <1>5, <1>6, <1>7, <1>8, <1>9

\* The log after an append.
LEMMA LogGrows ==
  ASSUME TypeOK, NEW e \in Event, log' = Append(log, e)
  PROVE  /\ log' \in Seq(Event) /\ Len(log') = Len(log) + 1 /\ log'[Len(log) + 1] = e
         /\ \A i \in DOMAIN log : i \in DOMAIN log' /\ log'[i] = log[i]
         /\ \A i \in DOMAIN log' : i \in DOMAIN log \/ i = Len(log) + 1
         /\ Logged \subseteq Logged' /\ e \in Logged'
<1> USE Types
<1>1. /\ log' \in Seq(Event) /\ Len(log') = Len(log) + 1 /\ log'[Len(log) + 1] = e
      /\ DOMAIN log' = 1 .. Len(log) + 1
      /\ \A i \in DOMAIN log : log'[i] = log[i]
  OBVIOUS
<1>2. \A i \in DOMAIN log : i \in DOMAIN log' /\ log'[i] = log[i]
  BY <1>1
<1>3. Len(log) + 1 \in DOMAIN log'
  BY <1>1
<1> QED
  BY <1>1, <1>2, <1>3 DEF Logged

\* The entry e may be appended: it tells of a change that was committed, and
\* its task, if there is one, is about to publish it.
Appendable(e) ==
  /\ e.ver <= row'
  /\ \/ e.kind = "attempt"
     \/ /\ e.kind \in {"state", "progress"} /\ e.by \in Recorders
        /\ task'[e.by].pc = "publish" /\ EventOf(e.by)' = e

\* A task, or the Scheduler, commits or records; nobody is told yet.
LEMMA CommitStep ==
  ASSUME IInv, UNCHANGED <<live, watch>>,
         row' \in 0 .. MaxRow, row <= row', final' \in BOOLEAN, outputs' \in BOOLEAN,
         outputs' => final',
         \/ log' = log
         \/ \E e \in Event : log' = Append(log, e) /\ Appendable(e),
         task' \in [Recorders -> Task],
         \A r \in Recorders : task'[r].ver <= row',
         \A r \in Recorders : task[r].pc = "publish" => task'[r] = task[r],
         \A r \in Recorders : task'[r].pc = "publish" =>
           task[r].pc = "publish" \/ EventOf(r)' \in Logged',
         outputs' => \/ outputs /\ \A r \in Recorders : Announcing(r) => Announcing(r)'
                     \/ \E r \in Recorders : Announcing(r)'
  PROVE  IInv'
<1> USE Types DEF IInv
<1>1. /\ log' \in Seq(Event)
      /\ \A i \in DOMAIN log' : \/ i \in DOMAIN log /\ log'[i] = log[i]
                                \/ \E e \in Event : log'[i] = e /\ Appendable(e)
      /\ Logged \subseteq Logged'
  <2>1. CASE log' = log
    BY <2>1 DEF Logged
  <2>2. ASSUME NEW e \in Event, log' = Append(log, e), Appendable(e)
        PROVE  /\ log' \in Seq(Event)
               /\ \A i \in DOMAIN log' : \/ i \in DOMAIN log /\ log'[i] = log[i]
                                         \/ \E f \in Event : log'[i] = f /\ Appendable(f)
               /\ Logged \subseteq Logged'
    BY <2>2, LogGrows
  <2> QED
    BY <2>1, <2>2
<1>2. TypeOK'
  BY <1>1 DEF TypeOK
<1>3. LogInv'
  <2> SUFFICES ASSUME NEW i \in DOMAIN log'
               PROVE  /\ log'[i].ver <= row'
                      /\ log'[i].kind \in {"state", "progress", "attempt"}
                      /\ log'[i].kind # "attempt" => log'[i].by \in Recorders
    BY DEF LogInv
  <2>1. CASE \E e \in Event : log'[i] = e /\ Appendable(e)
    BY <2>1 DEF Appendable
  <2>2. CASE i \in DOMAIN log /\ log'[i] = log[i]
    <3>1. log[i].ver \in Nat /\ log[i].ver <= row
      BY <2>2, WatchAssumption DEF LogInv, Event
    <3>2. log'[i].ver <= row'
      BY <2>2, <3>1
    <3> QED
      BY <2>2, <3>2 DEF LogInv
  <2> QED
    BY <1>1, <2>1, <2>2
<1>4. TaskInv'
  BY DEF TaskInv
<1>5. ReceiverInv'
  BY DEF ReceiverInv, Following
<1>6. Durable'
  <2>1. \A r \in Recorders : task'[r].pc = "publish" => EventOf(r)' \in Logged'
    BY <1>1 DEF Durable, EventOf
  <2> QED
    BY <1>1, <2>1 DEF Durable
<1>7. ToldIsDurable'
  BY <1>1 DEF ToldIsDurable, Logged
<1>8. Covered'
  <2> SUFFICES ASSUME NEW w \in Watchers, watch[w].pc \notin {"none", "subscribed"},
                      NEW i \in DOMAIN log', log'[i].kind # "attempt",
                      log'[i].ver > watch[w].snap
               PROVE  Reaches(w, log[i])'
    BY DEF Covered
  <2>1. ASSUME NEW e \in Event, log'[i] = e, Appendable(e) PROVE Reaches(w, log[i])'
    <3>1. e.by \in Recorders /\ task'[e.by].pc = "publish" /\ EventOf(e.by)' = e
      BY <2>1 DEF Appendable
    <3> QED
      BY <2>1, <3>1 DEF Reaches, EventOf
  <2>2. CASE i \in DOMAIN log /\ log'[i] = log[i]
    <3>1. Reaches(w, log[i]) /\ log[i].by \in Recorders
      BY <2>2 DEF Covered, LogInv
    <3>2. Ahead(w)' = Ahead(w)
      BY DEF Ahead
    <3>3. task[log[i].by].pc = "publish" => task'[log[i].by] = task[log[i].by]
      BY <3>1
    <3> QED
      BY <2>2, <3>1, <3>2, <3>3 DEF Reaches, EventOf
  <2> QED
    BY <1>1, <2>1, <2>2
<1>9. Announced'
  <2> SUFFICES ASSUME outputs', NEW w \in Watchers,
                      watch[w].pc \in {"outputs", "stream"} \/ Following(w)
               PROVE  Announces(w)'
    BY DEF Announced, Following
  <2>1. CASE \E r \in Recorders : Announcing(r)'
    BY <2>1 DEF Announcing, Announces
  <2>2. CASE outputs /\ \A r \in Recorders : Announcing(r) => Announcing(r)'
    <3>1. Announces(w)
      BY <2>2 DEF Announced
    <3>2. Ahead(w)' = Ahead(w) /\ Lagged(w)' = Lagged(w)
      BY DEF Ahead, Lagged
    <3> QED
      BY <2>2, <3>1, <3>2 DEF Announcing, Announces
  <2> QED
    BY <2>1, <2>2
<1> QED
  BY <1>2, <1>3, <1>4, <1>5, <1>6, <1>7, <1>8, <1>9

\* The stream of w becomes s.
LEMMA StreamStep ==
  ASSUME IInv, NEW w \in Watchers, NEW s \in Stream,
         watch' = [watch EXCEPT ![w] = s], UNCHANGED <<rowVars, log, task>>,
         live' \in Channel, live'.events = live.events, live.open => live'.open,
         s.pc # "none" => live'.open /\ s.pos <= Len(live.events),
         \A i \in DOMAIN s.replay : s.replay[i] \in Logged,
         s.seen \subseteq Logged,
         ~Following(w)' => s.seen = {},
         s.pc \notin {"none", "subscribed"} =>
           \A i \in DOMAIN log :
             log[i].kind # "attempt" /\ log[i].ver > s.snap => Reaches(w, log[i])',
         outputs /\ (s.pc \in {"outputs", "stream"} \/ Following(w)') => Announces(w)'
  PROVE  IInv'
<1> USE Types DEF IInv
<1>1. /\ watch' \in [Watchers -> Stream] /\ watch'[w] = s
      /\ \A v \in Watchers : v # w => watch'[v] = watch[v]
  BY DEF TypeOK
<1>2. TypeOK'
  BY <1>1 DEF TypeOK, Channel, rowVars
<1>3. LogInv' /\ TaskInv'
  BY DEF LogInv, TaskInv, rowVars
<1>4. ReceiverInv'
  BY <1>1 DEF ReceiverInv, Following
<1>5. Durable' /\ ToldIsDurable'
  <2>1. Logged' = Logged /\ \A r \in Recorders : EventOf(r)' = EventOf(r)
    BY DEF Logged, EventOf
  <2>2. \A v \in Watchers : \A i \in DOMAIN watch'[v].replay : watch'[v].replay[i] \in Logged
    BY <1>1 DEF Durable
  <2>3. \A v \in Watchers : watch'[v].seen \subseteq Logged
    BY <1>1 DEF ToldIsDurable, Logged
  <2> QED
    BY <2>1, <2>2, <2>3 DEF Durable, ToldIsDurable, Logged
<1>6. \A v \in Watchers : v # w => /\ Ahead(v)' = Ahead(v) /\ Lagged(v)' = Lagged(v)
                                   /\ Following(v)' = Following(v)
  BY <1>1 DEF Ahead, Lagged, Following
<1>7. Covered'
  <2> SUFFICES ASSUME NEW v \in Watchers, v # w, watch[v].pc \notin {"none", "subscribed"},
                      NEW i \in DOMAIN log, log[i].kind # "attempt",
                      log[i].ver > watch[v].snap
               PROVE  Reaches(v, log[i])'
    BY <1>1 DEF Covered
  <2>1. Reaches(v, log[i])
    BY DEF Covered
  <2> QED
    BY <1>1, <1>6, <2>1 DEF Reaches, EventOf
<1>8. Announced'
  <2> SUFFICES ASSUME outputs, NEW v \in Watchers, v # w,
                      watch[v].pc \in {"outputs", "stream"} \/ Following(v)
               PROVE  Announces(v)'
    BY <1>1, <1>6 DEF Announced, rowVars
  <2>1. Announces(v)
    BY DEF Announced
  <2> QED
    BY <1>1, <1>6, <2>1 DEF Announces
<1> QED
  BY <1>2, <1>3, <1>4, <1>5, <1>7, <1>8
-----------------------------------------------------------------------------
(***************************************************************************)
(* The tasks                                                               *)
(***************************************************************************)
\* A task knows of no change that was not made.
LEMMA TaskVersion ==
  ASSUME IInv
  PROVE  \A r \in Recorders : task[r].ver \in Nat /\ task[r].ver <= row
<1> SUFFICES ASSUME NEW r \in Recorders PROVE task[r].ver \in Nat /\ task[r].ver <= row
  OBVIOUS
<1>1. task[r] \in Task
  BY Types DEF IInv
<1> QED
  BY <1>1, WatchAssumption DEF IInv, TaskInv, Task

\* One task changes.
LEMMA TaskChange ==
  ASSUME IInv, NEW r \in Recorders, NEW x \in Task, task' = [task EXCEPT ![r] = x]
  PROVE  /\ task' \in [Recorders -> Task] /\ task'[r] = x
         /\ \A s \in Recorders : s # r => task'[s] = task[s]
  BY DEF IInv, TypeOK

\* A handler's transaction.
LEMMA TransitionStep ==
  ASSUME IInv, NEW r \in Recorders, NEW k \in TaskKind, Transition(r, k)
  PROVE  IInv'
<1> USE Types DEF IInv
<1> DEFINE x == [pc |-> IF k = "sweep" THEN "refetch" ELSE "record",
                 kind |-> k, ver |-> row + 1]
<1>1. row' = row + 1 /\ row + 1 \in 0 .. MaxRow /\ row <= row'
  BY DEF Transition
<1>2. x \in Task /\ x.kind = k /\ x.ver = row + 1 /\ x.pc \in {"refetch", "record"}
        /\ (k = "result" => x.pc = "record")
  BY <1>1 DEF Task
<1>3. task' = [task EXCEPT ![r] = x] /\ UNCHANGED <<log, live, watch>> /\ task[r].pc = "idle"
  BY DEF Transition
<1> HIDE DEF x
<1>4. /\ task' \in [Recorders -> Task] /\ task'[r] = x
      /\ \A s \in Recorders : s # r => task'[s] = task[s]
  BY <1>2, <1>3, TaskChange
<1>5. final' \in BOOLEAN
  <2>1. final' \in IF k = "result" THEN {TRUE}
                   ELSE IF k = "progress" THEN {FALSE} ELSE BOOLEAN
    BY DEF Transition
  <2>2. final' = TRUE \/ final' = FALSE
    BY <2>1
  <2> QED
    BY <2>2
<1>6. outputs' \in BOOLEAN /\ (outputs' => k = "result" /\ final')
  BY DEF Transition
<1>7. \A s \in Recorders : task'[s].ver <= row'
  <2>1. \A s \in Recorders : task[s].ver \in Nat /\ task[s].ver <= row
    BY TaskVersion
  <2> QED
    BY <1>1, <1>2, <1>4, <2>1
<1>8. \A s \in Recorders : task[s].pc = "publish" => task'[s] = task[s]
  BY <1>3, <1>4
<1>9. \A s \in Recorders : task'[s].pc = "publish" => task[s].pc = "publish"
  BY <1>2, <1>4
<1>10. outputs' => \E s \in Recorders : Announcing(s)'
  BY <1>2, <1>4, <1>6 DEF Announcing
<1> QED
  BY <1>1, <1>3, <1>4, <1>5, <1>6, <1>7, <1>8, <1>9, <1>10, CommitStep

\* The steps of a task after its transaction.
LEMMA TaskStep ==
  ASSUME IInv, NEW r \in Recorders, RecordStep(r)
  PROVE  IInv'
<1> USE Types DEF IInv
<1>1. task[r] \in Task /\ task[r].ver \in Nat /\ task[r].ver <= row
  BY WatchAssumption DEF TaskInv, Task
<1>2. CASE Refetch(r)
  <2> DEFINE x == [task[r] EXCEPT !.pc = "record", !.ver = row]
  <2>1. x \in Task /\ x.pc = "record" /\ x.ver = row /\ x.kind = task[r].kind
    BY <1>1 DEF Task, TypeOK
  <2>2. task' = [task EXCEPT ![r] = x]
    BY <1>2 DEF Refetch
  <2> HIDE DEF x
  <2>3. /\ task' \in [Recorders -> Task] /\ task'[r] = x
        /\ \A s \in Recorders : s # r => task'[s] = task[s]
    BY <2>1, <2>2, TaskChange
  <2>4. task[r].pc = "refetch" /\ UNCHANGED <<rowVars, log, live, watch>>
    BY <1>2 DEF Refetch
  <2>5. row' \in 0 .. MaxRow /\ row <= row' /\ final' \in BOOLEAN /\ outputs' \in BOOLEAN
    BY <2>4 DEF TypeOK, rowVars
  <2>6. \A s \in Recorders : task'[s].ver <= row'
    BY <2>1, <2>3, <2>4 DEF TaskInv, rowVars
  <2>7. \A s \in Recorders : Announcing(s) => Announcing(s)'
    BY <2>1, <2>3, <2>4 DEF Announcing
  <2>8. (outputs' => final') /\ (outputs' => outputs)
    BY <2>4 DEF TaskInv, rowVars
  <2>9. \A s \in Recorders : /\ task[s].pc = "publish" => task'[s] = task[s]
                             /\ task'[s].pc = "publish" => task[s].pc = "publish"
    BY <2>1, <2>3, <2>4
  <2> QED
    BY <2>3, <2>4, <2>5, <2>6, <2>7, <2>8, <2>9, CommitStep
<1>3. CASE AppendEvent(r)
  <2> DEFINE x == [task[r] EXCEPT !.pc = "publish"]
  <2>1. x \in Task /\ x.pc = "publish" /\ x.ver = task[r].ver /\ x.kind = task[r].kind
    BY <1>1 DEF Task
  <2>2. task' = [task EXCEPT ![r] = x]
    BY <1>3 DEF AppendEvent
  <2> HIDE DEF x
  <2>3. /\ task' \in [Recorders -> Task] /\ task'[r] = x
        /\ \A s \in Recorders : s # r => task'[s] = task[s]
    BY <2>1, <2>2, TaskChange
  <2>4. task[r].pc = "record" /\ UNCHANGED <<rowVars, live, watch>>
          /\ log' = Append(log, EventOf(r))
    BY <1>3 DEF AppendEvent
  <2>5. row' \in 0 .. MaxRow /\ row <= row' /\ final' \in BOOLEAN /\ outputs' \in BOOLEAN
    BY <2>4 DEF TypeOK, rowVars
  <2>6. \A s \in Recorders : task'[s].ver <= row'
    BY <2>1, <2>3, <2>4 DEF TaskInv, rowVars
  <2>7. \A s \in Recorders : Announcing(s) => Announcing(s)'
    BY <2>1, <2>3, <2>4 DEF Announcing
  <2>8. (outputs' => final') /\ (outputs' => outputs)
    BY <2>4 DEF TaskInv, rowVars
  <2>9. EventOf(r)' = EventOf(r)
    BY <2>1, <2>3 DEF EventOf
  <2>10. EventOf(r) \in Event /\ EventOf(r)' \in Logged'
    BY <2>4, <2>9, EventOfType, LogGrows
  <2>11. \E e \in Event : log' = Append(log, e) /\ Appendable(e)
    <3>1. PICK e \in Event : e = EventOf(r)
      BY <2>10
    <3>2. e.by = r /\ e.kind \in {"state", "progress"} /\ e.ver <= row'
      BY <1>1, <2>4, <3>1, EventOfType DEF rowVars
    <3>3. EventOf(e.by)' = e
      BY <2>9, <3>1, <3>2
    <3>4. Appendable(e)
      BY <2>1, <2>3, <3>2, <3>3 DEF Appendable
    <3> QED
      BY <2>4, <3>1, <3>4
  <2>12. \A s \in Recorders :
           /\ task[s].pc = "publish" => task'[s] = task[s]
           /\ task'[s].pc = "publish" => task[s].pc = "publish" \/ EventOf(s)' \in Logged'
    BY <2>3, <2>4, <2>10
  <2> QED
    BY <2>3, <2>4, <2>5, <2>6, <2>7, <2>8, <2>10, <2>11, <2>12, CommitStep
<1>4. CASE AppendFails(r)
  <2>1. PICK e \in Event : e.kind = "discontinuity" /\ Send(e)
    BY <1>4, MarkType DEF AppendFails
  <2>2. Ended.ver <= row
    BY EndedType
  <2> QED
    BY <1>4, <2>1, <2>2, EndedType, SendStep DEF AppendFails
<1>5. CASE Publish(r)
  <2>1. EventOf(r) \in Event /\ EventOf(r) \in Logged
    BY <1>5, EventOfType DEF Publish, Durable
  <2>2. CASE task[r].kind = "result"
    <3> DEFINE x == [task[r] EXCEPT !.pc = "output"]
    <3>1. x \in Task /\ x.pc = "output" /\ x.ver = task[r].ver /\ x.kind = "result"
      BY <1>1, <2>2 DEF Task
    <3>2. task' = [task EXCEPT ![r] = x]
      BY <1>5, <2>2 DEF Publish
    <3> HIDE DEF x
    <3> QED
      BY <1>1, <1>5, <2>1, <3>1, <3>2, SendStep DEF Publish
  <2>3. CASE task[r].kind # "result"
    <3>1. Ended.ver <= row
      BY EndedType
    <3>2. task' = [task EXCEPT ![r] = Ended] /\ ~Announcing(r)
      BY <1>5, <2>3 DEF Publish, Announcing
    <3> QED
      BY <1>5, <2>1, <3>1, <3>2, EndedType, SendStep DEF Publish
  <2> QED
    BY <2>2, <2>3
<1>6. CASE PublishOutput(r)
  <2>1. PICK e \in Event : e.kind = "output" /\ Send(e)
    BY <1>6, MarkType DEF PublishOutput
  <2>2. Ended.ver <= row
    BY EndedType
  <2> QED
    BY <1>6, <2>1, <2>2, EndedType, SendStep DEF PublishOutput
<1> QED
  BY <1>2, <1>3, <1>4, <1>5, <1>6 DEF RecordStep

\* The Scheduler's transaction.
LEMMA AssignStep ==
  ASSUME IInv, Assign
  PROVE  IInv'
<1> USE Types DEF IInv
<1>1. row' = row + 1 /\ row' \in 0 .. MaxRow /\ row <= row'
  BY DEF Assign
<1>2. PICK e \in Event : /\ log' = Append(log, e) /\ Appendable(e)
  <2> DEFINE f == [kind |-> "attempt", ver |-> row + 1, by |-> NoTask]
  <2>1. f \in Event /\ f.kind = "attempt" /\ f.ver = row'
    BY <1>1 DEF Event, Kind
  <2>2. log' = Append(log, f)
    BY DEF Assign
  <2> HIDE DEF f
  <2> QED
    BY <1>1, <2>1, <2>2 DEF Appendable
<1>3. /\ UNCHANGED <<final, outputs, task, live, watch>>
      /\ final' \in BOOLEAN /\ outputs' \in BOOLEAN /\ task' \in [Recorders -> Task]
      /\ outputs' => final'
  BY DEF Assign, TypeOK, TaskInv
<1>4. \A r \in Recorders : task'[r].ver <= row'
  <2>1. \A r \in Recorders : task[r].ver \in Nat /\ task[r].ver <= row
    BY TaskVersion
  <2> QED
    BY <1>1, <1>3, <2>1
<1>5. \A r \in Recorders : Announcing(r) => Announcing(r)'
  BY <1>3 DEF Announcing
<1> QED
  BY <1>1, <1>2, <1>3, <1>4, <1>5, CommitStep

\* CancelGeneration.
LEMMA CancelStep ==
  ASSUME IInv, Cancel
  PROVE  IInv'
<1> USE Types DEF IInv
<1>1. row' = row + 1 /\ row' \in 0 .. MaxRow /\ row <= row'
  BY DEF Cancel
<1>2. UNCHANGED <<outputs, log, task, live, watch>> /\ final' \in BOOLEAN
  BY DEF Cancel
<1>3. outputs' \in BOOLEAN /\ task' \in [Recorders -> Task] /\ ~outputs'
  BY <1>2 DEF Cancel, TypeOK, TaskInv
<1>4. \A r \in Recorders : task'[r].ver <= row'
  <2>1. \A r \in Recorders : task[r].ver \in Nat /\ task[r].ver <= row
    BY TaskVersion
  <2> QED
    BY <1>1, <1>2, <2>1
<1> QED
  BY <1>1, <1>2, <1>3, <1>4, CommitStep

\* Remote restarts.
LEMMA RestartStep ==
  ASSUME IInv, Restart
  PROVE  IInv'
<1> USE Types DEF IInv
<1>1. \A w \in Watchers : watch'[w] = Closed
  BY DEF Restart
<1>2. \A r \in Recorders : task'[r] \in {NoWork, Ended}
  BY DEF Restart
<1>3. UNCHANGED <<rowVars, log>> /\ live' = NoChannel
  BY DEF Restart
<1>4. TypeOK'
  <2>1. watch' \in [Watchers -> Stream]
    BY ClosedType DEF Restart
  <2>2. task' \in [Recorders -> Task]
    BY EndedType DEF Restart
  <2> QED
    BY <1>3, <2>1, <2>2, NoChannelType DEF TypeOK, Channel, rowVars
<1>5. LogInv' /\ TaskInv'
  BY <1>2, <1>3, EndedType DEF LogInv, TaskInv, rowVars
<1>6. ReceiverInv' /\ ToldIsDurable' /\ Covered' /\ Announced'
  BY <1>1, ClosedType DEF ReceiverInv, ToldIsDurable, Covered, Announced, Following
<1>7. Durable'
  BY <1>1, <1>2, <1>3, ClosedType, EndedType, NoChannelType DEF Durable
<1> QED
  BY <1>4, <1>5, <1>6, <1>7
-----------------------------------------------------------------------------
(***************************************************************************)
(* The watchers                                                            *)
(***************************************************************************)
\* The fields of a stream.
LEMMA StreamFields ==
  ASSUME NEW s \in Stream
  PROVE  /\ s.pos \in Nat /\ s.snap \in Nat /\ s.snap \in 0 .. MaxRow /\ s.from \in Nat
         /\ s.replay \in Seq(Event) /\ s.seen \in SUBSET Event /\ s.skipped \in SUBSET Event
  BY WatchAssumption DEF Stream

\* A stream that keeps its place and what it was told misses nothing new.
LEMMA KeepsPlace ==
  ASSUME IInv, NEW w \in Watchers, NEW s \in Stream,
         watch' = [watch EXCEPT ![w] = s], UNCHANGED <<rowVars, log, task, live>>,
         watch[w].pc \notin {"none", "subscribed"},
         s.pos = watch[w].pos, s.skipped = watch[w].skipped, s.gap = watch[w].gap,
         watch[w].seen \subseteq s.seen, watch[w].snap <= s.snap
  PROVE  \A i \in DOMAIN log :
           log[i].kind # "attempt" /\ log[i].ver > s.snap => Reaches(w, log[i])'
<1> USE Types DEF IInv
<1> SUFFICES ASSUME NEW i \in DOMAIN log, log[i].kind # "attempt", log[i].ver > s.snap
             PROVE  Reaches(w, log[i])'
  OBVIOUS
<1>1. watch'[w] = s
  BY DEF TypeOK
<1>2. log[i].ver \in Nat /\ watch[w].snap \in Nat /\ s.snap \in Nat
  BY WatchAssumption, StreamFields DEF Event
<1>3. log[i].ver > watch[w].snap
  BY <1>2
<1>4. Reaches(w, log[i])
  BY <1>3 DEF Covered
<1>5. Ahead(w)' = Ahead(w)
  BY <1>1 DEF Ahead
<1> QED
  BY <1>1, <1>4, <1>5 DEF Reaches, EventOf

\* So with the outputs.
LEMMA KeepsAnnounced ==
  ASSUME IInv, NEW w \in Watchers, NEW s \in Stream,
         watch' = [watch EXCEPT ![w] = s], UNCHANGED <<rowVars, log, task, live>>,
         watch[w].pc \in {"outputs", "stream"} \/ Following(w), outputs,
         s.pos = watch[w].pos, s.outs = watch[w].outs, s.gap = watch[w].gap,
         watch[w].pc \in {"refresh", "refreshed"} => s.pc \in {"refresh", "refreshed"}
  PROVE  Announces(w)'
<1> USE Types DEF IInv
<1>1. watch'[w] = s
  BY DEF TypeOK
<1>2. Announces(w)
  BY DEF Announced
<1>3. Ahead(w)' = Ahead(w) /\ Lagged(w)' = Lagged(w)
  BY <1>1 DEF Ahead, Lagged
<1> QED
  BY <1>1, <1>2, <1>3 DEF Announces

\* A stream opens.
LEMMA SubscribeStep ==
  ASSUME IInv, NEW w \in Watchers, Subscribe(w)
  PROVE  IInv'
<1> USE Types DEF IInv
<1> DEFINE s == [Closed EXCEPT !.pc = "subscribed", !.pos = Len(live.events)]
<1>1. s \in Stream /\ s.pc = "subscribed" /\ s.pos = Len(live.events) /\ s.seen = {}
        /\ s.replay = <<>>
  BY ClosedType DEF Stream
<1>2. watch' = [watch EXCEPT ![w] = s] /\ UNCHANGED <<rowVars, log, task>>
  BY DEF Subscribe
<1> HIDE DEF s
<1>3. live' \in Channel /\ live'.events = live.events /\ live'.open
  BY DEF Subscribe, Channel
<1>4. watch'[w] = s
  BY <1>2 DEF TypeOK
<1>5. \A i \in DOMAIN s.replay : s.replay[i] \in Logged
  BY <1>1
<1>6. s.pos <= Len(live.events) /\ s.seen \subseteq Logged /\ ~Following(w)'
  BY <1>1, <1>4 DEF Following
<1> QED
  BY <1>1, <1>2, <1>3, <1>5, <1>6, StreamStep

\* What StreamStep needs of a stream that was open and keeps its place.
LEMMA OpenBefore ==
  ASSUME IInv, NEW w \in Watchers, watch[w].pc # "none"
  PROVE  /\ live \in Channel /\ live.open /\ watch[w].pos <= Len(live.events)
         /\ \A i \in DOMAIN watch[w].replay : watch[w].replay[i] \in Logged
         /\ watch[w].seen \subseteq Logged
         /\ ~Following(w) => watch[w].seen = {}
  BY Types DEF IInv, ReceiverInv, Durable, ToldIsDurable, Logged

\* The end of a sequence holds nothing else.
LEMMA SuffixFact ==
  ASSUME NEW S, NEW q \in Seq(S), NEW n \in Nat
  PROVE  LET t == SubSeq(q, n + 1, Len(q))
         IN  t \in Seq(S) /\ \A i \in DOMAIN t : t[i] \in {q[j] : j \in DOMAIN q}
<1> DEFINE t == SubSeq(q, n + 1, Len(q))
<1>1. t \in Seq(S) /\ DOMAIN t = 1 .. Len(t)
  OBVIOUS
<1>2. ASSUME NEW i \in DOMAIN t PROVE t[i] \in {q[j] : j \in DOMAIN q}
  <2>1. Len(q) \in Nat /\ i \in Nat /\ 1 <= i /\ n + i <= Len(q)
    BY <1>1, <1>2
  <2>2. t[i] = q[n + i]
    BY <2>1
  <2> QED
    BY <2>1, <2>2
<1> QED
  BY <1>1, <1>2

\* The reads of a stream that is being opened.
LEMMA OpeningStep ==
  ASSUME IInv, NEW w \in Watchers, OpenStep(w)
  PROVE  IInv'
<1> USE Types DEF IInv
<1>0. watch[w] \in Stream /\ watch[w].snap <= watch[w].snap /\ watch[w].from \in Nat
        /\ watch[w].replay \in Seq(Event)
  BY StreamFields
<1>1. CASE ReadRow(w)
  <2> DEFINE s == [watch[w] EXCEPT !.pc = "row", !.snap = row]
  <2>1. /\ s \in Stream /\ s.pc = "row" /\ s.snap = row /\ s.pos = watch[w].pos
        /\ s.replay = watch[w].replay /\ s.seen = watch[w].seen
    BY <1>0 DEF Stream, TypeOK
  <2>2. watch' = [watch EXCEPT ![w] = s] /\ UNCHANGED <<rowVars, log, task, live>>
          /\ watch[w].pc = "subscribed"
    BY <1>1 DEF ReadRow
  <2> HIDE DEF s
  <2>3. watch'[w] = s /\ ~Following(w)' /\ ~Following(w)
    BY <2>1, <2>2 DEF TypeOK, Following
  <2>4. \A i \in DOMAIN log : ~(log[i].ver > s.snap)
    BY <2>1, WatchAssumption DEF LogInv, Event
  <2> QED
    BY <2>1, <2>2, <2>3, <2>4, OpenBefore, StreamStep
<1>2. CASE ReadLatest(w)
  <2> DEFINE s == [watch[w] EXCEPT !.pc = "latest", !.from = Len(log)]
  <2>1. /\ s \in Stream /\ s.pc = "latest" /\ s.snap = watch[w].snap /\ s.pos = watch[w].pos
        /\ s.replay = watch[w].replay /\ s.seen = watch[w].seen
        /\ s.skipped = watch[w].skipped /\ s.gap = watch[w].gap
    BY <1>0 DEF Stream
  <2>2. watch' = [watch EXCEPT ![w] = s] /\ UNCHANGED <<rowVars, log, task, live>>
          /\ watch[w].pc = "row"
    BY <1>2 DEF ReadLatest
  <2> HIDE DEF s
  <2>3. watch'[w] = s /\ ~Following(w)' /\ ~Following(w)
    BY <2>1, <2>2 DEF TypeOK, Following
  <2>4. \A i \in DOMAIN log :
          log[i].kind # "attempt" /\ log[i].ver > s.snap => Reaches(w, log[i])'
    BY <2>1, <2>2, <1>0, KeepsPlace
  <2> QED
    BY <2>1, <2>2, <2>3, <2>4, OpenBefore, StreamStep
<1>3. CASE ReadOutputs(w)
  <2> DEFINE s == [watch[w] EXCEPT !.pc = "outputs", !.outs = outputs]
  <2>1. /\ s \in Stream /\ s.pc = "outputs" /\ s.snap = watch[w].snap /\ s.pos = watch[w].pos
        /\ s.replay = watch[w].replay /\ s.seen = watch[w].seen
        /\ s.skipped = watch[w].skipped /\ s.gap = watch[w].gap /\ s.outs = outputs
    BY <1>0 DEF Stream, TypeOK
  <2>2. watch' = [watch EXCEPT ![w] = s] /\ UNCHANGED <<rowVars, log, task, live>>
          /\ watch[w].pc = "latest"
    BY <1>3 DEF ReadOutputs
  <2> HIDE DEF s
  <2>3. watch'[w] = s /\ ~Following(w)' /\ ~Following(w)
    BY <2>1, <2>2 DEF TypeOK, Following
  <2>4. \A i \in DOMAIN log :
          log[i].kind # "attempt" /\ log[i].ver > s.snap => Reaches(w, log[i])'
    BY <2>1, <2>2, <1>0, KeepsPlace
  <2>5. outputs => Announces(w)'
    BY <2>1, <2>3 DEF Announces
  <2> QED
    BY <2>1, <2>2, <2>3, <2>4, <2>5, OpenBefore, StreamStep
<1>4. CASE LoadSince(w)
  <2> DEFINE since == SubSeq(log, watch[w].from + 1, Len(log))
             s == [watch[w] EXCEPT !.pc = "stream", !.from = 0, !.replay = since]
  <2>1. since \in Seq(Event) /\ \A i \in DOMAIN since : since[i] \in Logged
    BY <1>0, SuffixFact DEF Logged
  <2> HIDE DEF since
  <2>2. /\ s \in Stream /\ s.pc = "stream" /\ s.snap = watch[w].snap /\ s.pos = watch[w].pos
        /\ s.replay = since /\ s.seen = watch[w].seen
        /\ s.skipped = watch[w].skipped /\ s.gap = watch[w].gap /\ s.outs = watch[w].outs
    BY <1>0, <2>1 DEF Stream
  <2>3. watch' = [watch EXCEPT ![w] = s] /\ UNCHANGED <<rowVars, log, task, live>>
          /\ watch[w].pc = "outputs"
    BY <1>4 DEF LoadSince, since
  <2> HIDE DEF s
  <2>4. watch'[w] = s /\ ~Following(w)' /\ ~Following(w)
    BY <2>2, <2>3 DEF TypeOK, Following
  <2>5. \A i \in DOMAIN log :
          log[i].kind # "attempt" /\ log[i].ver > s.snap => Reaches(w, log[i])'
    BY <2>2, <2>3, <1>0, KeepsPlace
  <2>6. outputs => Announces(w)'
    BY <2>2, <2>3, KeepsAnnounced
  <2> QED
    BY <2>1, <2>2, <2>3, <2>4, <2>5, <2>6, OpenBefore, StreamStep
<1>5. CASE SendReplay(w)
  <2> DEFINE told == Decoded(watch[w].replay)
             s == [watch[w] EXCEPT !.pc = "live", !.replay = <<>>, !.seen = told]
  <2>1. told \in SUBSET Event /\ told \subseteq Logged /\ watch[w].seen = {}
    BY <1>0, <1>5, OpenBefore DEF Decoded, SendReplay, Following
  <2> HIDE DEF told
  <2>2. /\ s \in Stream /\ s.pc = "live" /\ s.snap = watch[w].snap /\ s.pos = watch[w].pos
        /\ s.replay = <<>> /\ s.seen = told
        /\ s.skipped = watch[w].skipped /\ s.gap = watch[w].gap /\ s.outs = watch[w].outs
    <3>1. <<>> \in Seq(Event)
      OBVIOUS
    <3> QED
      BY <1>0, <2>1, <3>1 DEF Stream
  <2>3. watch' = [watch EXCEPT ![w] = s] /\ UNCHANGED <<rowVars, log, task, live>>
          /\ watch[w].pc = "stream"
    BY <1>5 DEF SendReplay, told
  <2> HIDE DEF s
  <2>4. watch'[w] = s /\ Following(w)'
    BY <2>2, <2>3 DEF TypeOK, Following
  <2>5. \A i \in DOMAIN log :
          log[i].kind # "attempt" /\ log[i].ver > s.snap => Reaches(w, log[i])'
    BY <2>1, <2>2, <2>3, <1>0, KeepsPlace
  <2>6. outputs => Announces(w)'
    BY <2>2, <2>3, KeepsAnnounced
  <2>7. \A i \in DOMAIN s.replay : s.replay[i] \in Logged
    BY <2>2
  <2> QED
    BY <2>1, <2>2, <2>3, <2>4, <2>5, <2>6, <2>7, OpenBefore, StreamStep
<1> QED
  BY <1>1, <1>2, <1>3, <1>4, <1>5 DEF OpenStep

\* The next live event.
LEMMA ReceiveStep ==
  ASSUME IInv, NEW w \in Watchers, Receive(w)
  PROVE  IInv'
<1> USE Types DEF IInv
<1>0. /\ watch[w] \in Stream /\ watch[w].pc = "live" /\ Following(w) /\ ~Lagged(w)
      /\ watch[w].pos \in Nat /\ watch[w].pos < Len(live.events)
      /\ UNCHANGED <<rowVars, log, task, live>>
  BY DEF Receive, Following
<1>1. PICK e \in Event : e = live.events[watch[w].pos + 1]
  BY <1>0
<1>2. watch[w].pos + 1 \in DOMAIN live.events
  BY <1>0
<1>3. PICK told \in SUBSET Event :
        told = IF e.kind \in {"state", "progress"} THEN watch[w].seen \cup {e} ELSE watch[w].seen
  BY <1>0, StreamFields
<1>4. PICK gap \in BOOLEAN : gap = (watch[w].gap \/ e.kind = "discontinuity")
  OBVIOUS
<1>5. PICK at \in {"refresh", "live"} : at = IF e.kind = "output" THEN "refresh" ELSE "live"
  OBVIOUS
<1> DEFINE s == [watch[w] EXCEPT !.pos = watch[w].pos + 1, !.pc = at, !.gap = gap,
                                 !.seen = told]
<1>6. watch' = [watch EXCEPT ![w] = s]
  BY <1>0, <1>1, <1>3, <1>4, <1>5 DEF Receive
<1>7. /\ s \in Stream /\ s.pc = at /\ s.snap = watch[w].snap /\ s.pos = watch[w].pos + 1
      /\ s.replay = watch[w].replay /\ s.seen = told
      /\ s.skipped = watch[w].skipped /\ s.gap = gap /\ s.outs = watch[w].outs
  <2>1. watch[w].pos + 1 \in Nat
    BY <1>0
  <2> QED
    BY <1>0, <2>1 DEF Stream
<1> HIDE DEF s
<1>8. watch'[w] = s /\ Following(w)'
  BY <1>5, <1>6, <1>7 DEF TypeOK, Following
<1>9. \A f \in Ahead(w) : f = e \/ f \in Ahead(w)'
  <2> SUFFICES ASSUME NEW i \in watch[w].pos + 1 .. Len(live.events), live.events[i] # e
               PROVE  live.events[i] \in Ahead(w)'
    BY DEF Ahead
  <2>1. i \in s.pos + 1 .. Len(live'.events)
    BY <1>0, <1>1, <1>7
  <2> QED
    BY <1>0, <1>8, <2>1 DEF Ahead
<1>10. ASSUME NEW i \in DOMAIN log, log[i].kind # "attempt", log[i].ver > s.snap
       PROVE  Reaches(w, log[i])'
  <2>1. Reaches(w, log[i]) /\ log[i].kind \in {"state", "progress"}
    BY <1>0, <1>7, <1>10 DEF Covered, LogInv
  <2>2. CASE log[i] = e
    BY <1>0, <1>3, <1>7, <1>8, <2>1, <2>2 DEF Reaches
  <2>3. CASE log[i] # e
    BY <1>0, <1>3, <1>4, <1>7, <1>8, <1>9, <2>1, <2>3 DEF Reaches, EventOf
  <2> QED
    BY <2>2, <2>3
<1>11. ASSUME outputs PROVE Announces(w)'
  <2>1. Announces(w) /\ ~Lagged(w) /\ watch[w].pc = "live"
    BY <1>0, <1>11 DEF Announced
  <2>2. CASE e.kind \in {"output", "discontinuity"}
    BY <1>4, <1>5, <1>7, <1>8, <2>2 DEF Announces
  <2>3. CASE e.kind \notin {"output", "discontinuity"}
    <3>1. (\E f \in Ahead(w) : f.kind \in {"output", "discontinuity"}) =>
            \E f \in Ahead(w)' : f.kind \in {"output", "discontinuity"}
      BY <1>9, <2>3
    <3> QED
      BY <1>0, <1>4, <1>7, <1>8, <2>1, <3>1 DEF Announces
  <2> QED
    BY <2>2, <2>3
<1>12. s.pos <= Len(live.events)
  BY <1>0, <1>7
<1>13. /\ live' \in Channel /\ live'.events = live.events /\ live'.open
       /\ \A i \in DOMAIN s.replay : s.replay[i] \in Logged
  BY <1>0, <1>7, OpenBefore
<1>14. s.seen \subseteq Logged
  BY <1>0, <1>1, <1>2, <1>3, <1>7, OpenBefore DEF Durable
<1> QED
  BY <1>0, <1>6, <1>7, <1>8, <1>10, <1>11, <1>12, <1>13, <1>14, StreamStep

\* A receiver that fell behind.
LEMMA LagStep ==
  ASSUME IInv, NEW w \in Watchers, Lag(w)
  PROVE  IInv'
<1> USE Types DEF IInv
<1> DEFINE next == Len(live.events) - Capacity
           passed == {live.events[i] : i \in watch[w].pos + 1 .. next}
           s == [watch[w] EXCEPT !.pos = next, !.gap = TRUE,
                                 !.skipped = watch[w].skipped \cup passed]
<1>0. /\ watch[w] \in Stream /\ watch[w].pc = "live" /\ Following(w)
      /\ watch[w].pos \in Nat /\ UNCHANGED <<rowVars, log, task, live>>
  BY DEF Lag, Following
<1>1. next \in Nat /\ watch[w].pos < next /\ next <= Len(live.events)
  BY <1>0, WatchAssumption DEF Lag, Lagged
<1>2. passed \in SUBSET Event
  BY <1>0, <1>1
<1>3. TRUE \in BOOLEAN
  BY Zenon
<1>4. watch' = [watch EXCEPT ![w] = s]
  BY <1>0 DEF Lag
<1>5. \A f \in Ahead(w) : f \in passed \/ \E i \in next + 1 .. Len(live.events) : f = live.events[i]
  <2> SUFFICES ASSUME NEW i \in watch[w].pos + 1 .. Len(live.events)
               PROVE  i \in watch[w].pos + 1 .. next \/ i \in next + 1 .. Len(live.events)
    BY DEF Ahead
  <2> QED
    BY <1>0, <1>1
<1> HIDE DEF next, passed
<1>6. watch[w].skipped \cup passed \in SUBSET Event
  BY <1>0, <1>2, StreamFields
<1>7. /\ s \in Stream /\ s.pc = watch[w].pc /\ s.snap = watch[w].snap /\ s.pos = next
      /\ s.replay = watch[w].replay /\ s.seen = watch[w].seen
      /\ s.skipped = watch[w].skipped \cup passed /\ s.gap
  BY <1>0, <1>1, <1>3, <1>6 DEF Stream
<1> HIDE DEF s
<1>8. watch'[w] = s /\ Following(w)'
  BY <1>0, <1>4, <1>7 DEF TypeOK, Following
<1>9. \A f \in Ahead(w) : f \in passed \/ f \in Ahead(w)'
  BY <1>0, <1>5, <1>7, <1>8 DEF Ahead
<1>10. ASSUME NEW i \in DOMAIN log, log[i].kind # "attempt", log[i].ver > s.snap
       PROVE  Reaches(w, log[i])'
  <2>1. Reaches(w, log[i])
    BY <1>0, <1>7, <1>10 DEF Covered
  <2> QED
    BY <1>0, <1>7, <1>8, <1>9, <2>1 DEF Reaches, EventOf
<1>11. Announces(w)'
  BY <1>7, <1>8 DEF Announces
<1>12. /\ live' \in Channel /\ live'.events = live.events /\ live'.open
       /\ \A i \in DOMAIN s.replay : s.replay[i] \in Logged
       /\ s.seen \subseteq Logged /\ s.pos <= Len(live.events)
  BY <1>0, <1>1, <1>7, OpenBefore
<1> QED
  BY <1>0, <1>4, <1>7, <1>8, <1>10, <1>11, <1>12, StreamStep

\* The new snapshot, and the end of a stream.
LEMMA RefreshStep ==
  ASSUME IInv, NEW w \in Watchers, RefreshRow(w) \/ RefreshOutputs(w) \/ Leave(w)
  PROVE  IInv'
<1> USE Types DEF IInv
<1>0. watch[w] \in Stream /\ watch[w].snap \in Nat /\ watch[w].snap <= watch[w].snap
  BY StreamFields
<1>1. CASE RefreshRow(w)
  <2> DEFINE s == [watch[w] EXCEPT !.pc = "refreshed", !.snap = row]
  <2>1. /\ s \in Stream /\ s.pc = "refreshed" /\ s.snap = row /\ s.pos = watch[w].pos
        /\ s.replay = watch[w].replay /\ s.seen = watch[w].seen
    BY <1>0 DEF Stream, TypeOK
  <2>2. watch' = [watch EXCEPT ![w] = s] /\ UNCHANGED <<rowVars, log, task, live>>
          /\ watch[w].pc = "refresh"
    BY <1>1 DEF RefreshRow
  <2> HIDE DEF s
  <2>3. watch'[w] = s /\ Following(w)'
    BY <2>1, <2>2 DEF TypeOK, Following
  <2>4. \A i \in DOMAIN log : ~(log[i].ver > s.snap)
    BY <2>1, WatchAssumption DEF LogInv, Event
  <2>5. Announces(w)'
    BY <2>1, <2>3 DEF Announces
  <2> QED
    BY <2>1, <2>2, <2>3, <2>4, <2>5, OpenBefore, StreamStep
<1>2. CASE RefreshOutputs(w)
  <2> DEFINE s == [watch[w] EXCEPT !.pc = "live", !.outs = outputs]
  <2>1. /\ s \in Stream /\ s.pc = "live" /\ s.snap = watch[w].snap /\ s.pos = watch[w].pos
        /\ s.replay = watch[w].replay /\ s.seen = watch[w].seen
        /\ s.skipped = watch[w].skipped /\ s.gap = watch[w].gap /\ s.outs = outputs
    BY <1>0 DEF Stream, TypeOK
  <2>2. watch' = [watch EXCEPT ![w] = s] /\ UNCHANGED <<rowVars, log, task, live>>
          /\ watch[w].pc = "refreshed"
    BY <1>2 DEF RefreshOutputs
  <2> HIDE DEF s
  <2>3. watch'[w] = s /\ Following(w)'
    BY <2>1, <2>2 DEF TypeOK, Following
  <2>4. \A i \in DOMAIN log :
          log[i].kind # "attempt" /\ log[i].ver > s.snap => Reaches(w, log[i])'
    BY <1>0, <2>1, <2>2, KeepsPlace
  <2>5. outputs => Announces(w)'
    BY <2>1, <2>3 DEF Announces
  <2> QED
    BY <2>1, <2>2, <2>3, <2>4, <2>5, OpenBefore, StreamStep
<1>3. CASE Leave(w)
  <2>1. watch' = [watch EXCEPT ![w] = Closed] /\ UNCHANGED <<rowVars, log, task, live>>
          /\ watch[w].pc # "none"
    BY <1>3 DEF Leave
  <2>2. ~Following(w)'
    BY <2>1, ClosedType DEF TypeOK, Following
  <2>3. \A i \in DOMAIN Closed.replay : Closed.replay[i] \in Logged
    BY ClosedType
  <2> QED
    BY <2>1, <2>2, <2>3, ClosedType, OpenBefore, StreamStep
<1> QED
  BY <1>1, <1>2, <1>3
-----------------------------------------------------------------------------
(***************************************************************************)
(* The theorems                                                            *)
(***************************************************************************)
\* Nothing is recorded and nobody watches at first.
LEMMA InitIInv == Init => IInv
<1> SUFFICES ASSUME Init PROVE IInv
  OBVIOUS
<1>1. \A w \in Watchers : watch[w] = Closed
  BY DEF Init
<1>2. \A r \in Recorders : task[r] = NoWork
  BY DEF Init
<1>3. TypeOK
  <2>1. watch \in [Watchers -> Stream] /\ task \in [Recorders -> Task]
    BY ClosedType, EndedType DEF Init
  <2>2. final \in BOOLEAN /\ outputs \in BOOLEAN
    BY Zenon DEF Init
  <2>3. row \in 0 .. MaxRow /\ log \in Seq(Event)
    BY WatchAssumption DEF Init
  <2>4. live \in [open : BOOLEAN, events : Seq(Event)]
    BY NoChannelType DEF Init, Channel
  <2> QED
    BY <2>1, <2>2, <2>3, <2>4 DEF TypeOK
<1>4. LogInv /\ TaskInv
  BY <1>2, EndedType DEF Init, LogInv, TaskInv
<1>5. ReceiverInv /\ ToldIsDurable /\ Covered /\ Announced
  BY <1>1, ClosedType DEF ReceiverInv, ToldIsDurable, Covered, Announced, Following
<1>6. Durable
  BY <1>1, <1>2, ClosedType, EndedType, NoChannelType DEF Init, Durable
<1> QED
  BY <1>3, <1>4, <1>5, <1>6 DEF IInv

\* IInv is inductive.
LEMMA NextIInv == IInv /\ [Next]_vars => IInv'
<1> SUFFICES ASSUME IInv, [Next]_vars PROVE IInv'
  OBVIOUS
<1>1. CASE UNCHANGED vars
  BY <1>1 DEF vars, rowVars, IInv, TypeOK, LogInv, TaskInv, ReceiverInv, Durable, Logged,
              EventOf, ToldIsDurable, Covered, Reaches, Ahead, Announced, Announces,
              Following, Lagged
<1>2. ASSUME NEW r \in Recorders, RecordStep(r) \/ \E k \in TaskKind : Transition(r, k)
      PROVE  IInv'
  BY <1>2, TaskStep, TransitionStep
<1>3. ASSUME NEW w \in Watchers, Subscribe(w) \/ OpenStep(w) \/ FollowStep(w) \/ Leave(w)
      PROVE  IInv'
  BY <1>3, SubscribeStep, OpeningStep, ReceiveStep, LagStep, RefreshStep DEF FollowStep
<1> QED
  BY <1>1, <1>2, <1>3, AssignStep, CancelStep, RestartStep DEF Next

(***************************************************************************)
(* What a client was told is in the log (EventHub::record), and the log,   *)
(* the channel and the streams stay well-formed.                           *)
(***************************************************************************)
THEOREM WatchCorrect == Spec => []WatchInv
<1>1. IInv => WatchInv
  BY DEF IInv, WatchInv
<1> QED
  BY <1>1, InitIInv, NextIInv, PTL DEF Spec

(***************************************************************************)
(* No event is lost between the snapshot, the replay and the live stream   *)
(* of watch_generation, for any number of watchers and recorders and any   *)
(* capacity of the channel.                                                *)
(***************************************************************************)
THEOREM NoneMissedCorrect == Spec => []NoneMissed
<1>1. IInv => NoneMissed
  BY DEF IInv, Covered, Reaches, NoneMissed, Following
<1> QED
  BY <1>1, InitIInv, NextIInv, PTL DEF Spec

(***************************************************************************)
(* A client that follows a Generation with outputs has them, was told of a *)
(* gap, or either is on its way, although their announcement is never      *)
(* stored (refreshed_snapshot_event).                                      *)
(***************************************************************************)
THEOREM OutputsCorrect == Spec => []OutputsAnnounced
<1>1. IInv => OutputsAnnounced
  BY DEF IInv, Announced, Announces, OutputsAnnounced
<1> QED
  BY <1>1, InitIInv, NextIInv, PTL DEF Spec
=============================================================================
