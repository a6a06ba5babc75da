------------------------------ MODULE Delivery ------------------------------
(***************************************************************************)
(* One output Artifact, from the Worker's store to the client that         *)
(* downloads it (gpq-worker artifacts.rs and session.rs, gpq-remote        *)
(* artifacts.rs, transfer.rs and db/artifacts.rs).                         *)
(*                                                                         *)
(* A download takes the row, and a task of Remote then asks the Worker,    *)
(* over the control stream, to send the bytes by an RPC of its own.  The   *)
(* RPC handler pushes chunks into the channel the task has subscribed, and *)
(* the task relays them to the client, holding back the last one until it  *)
(* has checked the digest.  A step goes from one await to the next.        *)
(*                                                                         *)
(* Content is size chunks.  The channels between handler, task and client  *)
(* are unbounded here: they hold four chunks, and a full one only delays   *)
(* its sender.  The Worker is the repository's own, so manifest, token and *)
(* chunk sizes match what it declared and a call from the start carries    *)
(* what it verified: Remote has nothing to reject (DeliveryChunk::Rejected *)
(* never occurs).                                                          *)
(***************************************************************************)
EXTENDS Naturals, Sequences

CONSTANTS Clients, NoClient,
          Sizes,       \* sizes an Artifact may have, in chunks
          MaxResume,   \* MAX_RESUME_ATTEMPTS
          Placements   \* the output placements the Generation may ask for

ASSUME DeliveryAssumption ==
  /\ NoClient \notin Clients
  /\ Sizes \subseteq Nat
  /\ MaxResume \in Nat \ {0}
  /\ Placements \subseteq {"worker_local", "object_store"}

VARIABLES
  \* the row of the artifacts table
  state, placement, size, committed,
  due,        \* expires_at has passed on the database's clock
  \* the Worker
  store,      \* its directory: "none", "part", "data" or "published"
  rotten,     \* the chunk of the stored data that went bad, or 0
  stale,      \* completed_at + ttl has passed on the Worker's clock
  result,     \* its AttemptResult
  \* between Remote and the Worker
  online,     \* the Worker's control session is registered
  control,    \* DeliverRequest and DiscardOutput not yet handled
  rpc,        \* the DeliverArtifact call each DeliverRequest led to
  \* Remote's memory
  subscriber, \* whose task the deliveries map points to
  channel,    \* the chunks pushed to that task
  dl,         \* each client's download
  \* history
  severed     \* a delivery lost its task, or a transaction of it failed

rowVars == <<state, placement, size, committed, due>>
storeVars == <<store, rotten, stale, result>>
vars == <<state, placement, size, committed, due, store, rotten, stale, result,
          online, control, rpc, subscriber, channel, dl, severed>>

Terminal == {"consumed", "expired", "lost"}
\* can_transition_to; an output has no pending state
ArtifactEdge ==
  ({"available"} \X {"delivering", "expired", "lost"})
    \cup ({"delivering"} \X Terminal)
Requests == 0 .. MaxResume - 1   \* numbered by the resume attempts before
Chunk == [n : 0 .. size, ok : BOOLEAN]   \* n = 0 is the empty chunk
NoChunk == [n |-> 0, ok |-> FALSE]
DeliveryChunk ==
  [kind : {"data", "complete", "failed"}, chunk : Chunk]
DeliverRequest(k, from) == [kind |-> "deliver", k |-> k, from |-> from]
DiscardOutput == [kind |-> "discard", k |-> 0, from |-> 0]
ControlMessage == [kind : {"deliver", "discard"}, k : Requests, from : 0 .. size]

(***************************************************************************)
(* How far a download has got.  From "subscribe" on it is the spawned task *)
(* stream_worker_local; "lost", "expire" and "consume" wait for the        *)
(* transaction that ends the delivery.                                     *)
(***************************************************************************)
Streaming == {"subscribe", "request", "drain", "persist", "persist_last",
              "lost", "expire", "consume"}
Download ==
  [pc : {"idle", "acquire", "redirect", "done"} \cup Streaming,
   offset : 0 .. size, tries : 0 .. MaxResume,
   clean : BOOLEAN,            \* the hash so far is that of the content
   held : Chunk,               \* pending
   open : BOOLEAN,             \* the client still holds the response
   body : Seq(Chunk),          \* what the response has carried
   end : {"none", "error", "redirected", "gone"}]
NoDownload == [pc |-> "idle", offset |-> 0, tries |-> 0, clean |-> TRUE,
               held |-> NoChunk, open |-> TRUE, body |-> <<>>, end |-> "none"]
Call == [phase : {"none", "start", "stream", "received", "broken", "ended"},
         from : 0 .. size, pos : 0 .. size, rot : 0 .. size]
NoCall == [phase |-> "none", from |-> 0, pos |-> 0, rot |-> 0]

TypeOK ==
  /\ state \in {"absent", "available", "delivering"} \cup Terminal
  /\ placement \in Placements /\ size \in Sizes
  /\ committed \in 0 .. size
  /\ due \in BOOLEAN /\ stale \in BOOLEAN
  /\ store \in {"none", "part", "data", "published"}
  /\ rotten \in 0 .. size
  /\ result \in {"none", "sent", "handled"}
  /\ online \in BOOLEAN
  /\ control \subseteq ControlMessage
  /\ rpc \in [Requests -> Call]
  /\ subscriber \in Clients \cup {NoClient}
  /\ channel \in Seq(DeliveryChunk)
  /\ dl \in [Clients -> Download]
  /\ severed \in BOOLEAN

Init ==
  /\ state = "absent" /\ placement \in Placements /\ size \in Sizes
  /\ committed = 0 /\ due = FALSE
  /\ store = "none" /\ rotten = 0 /\ stale = FALSE /\ result = "none"
  /\ online = TRUE /\ control = {} /\ rpc = [k \in Requests |-> NoCall]
  /\ subscriber = NoClient /\ channel = <<>>
  /\ dl = [c \in Clients |-> NoDownload] /\ severed = FALSE
-----------------------------------------------------------------------------
(* The Worker's store and the result it reports.                           *)

\* publish: the copy, the rename, the manifest.  A crash may come between.
Publish ==
  /\ placement = "worker_local" /\ result = "none"
  /\ \/ store = "none" /\ store' = "part"
     \/ store = "part" /\ store' = "data"
     \/ store = "data" /\ store' = "published"
  /\ UNCHANGED <<rowVars, rotten, stale, result, online, control, rpc,
                 subscriber, channel, dl, severed>>

\* Seeded fault: the result goes out before the manifest is written.
ReportOutputEarly ==
  /\ result = "none"
  /\ placement = "worker_local" => store \in {"data", "published"}
  /\ result' = "sent"
  /\ UNCHANGED <<rowVars, store, rotten, stale, online, control, rpc,
                 subscriber, channel, dl, severed>>

\* publish_output returns, and the AttemptResult goes out.
ReportOutput ==
  /\ result = "none"
  /\ placement = "worker_local" => store = "published"
  /\ result' = "sent"
  /\ UNCHANGED <<rowVars, store, rotten, stale, online, control, rpc,
                 subscriber, channel, dl, severed>>

\* try_handle_attempt_result: record_output for an accepted result, else
\* DiscardOutput for what is stored at the Worker.
RecordOutput ==
  /\ result = "sent"
  /\ result' = "handled" /\ state' = "available"
  /\ UNCHANGED <<placement, size, committed, due, store, rotten, stale, online,
                 control, rpc, subscriber, channel, dl, severed>>

DiscardWorkerOutputs ==
  /\ result = "sent"
  /\ result' = "handled"
  /\ control' = IF placement = "worker_local" THEN control \cup {DiscardOutput}
                                              ELSE control
  /\ UNCHANGED <<rowVars, store, rotten, stale, online, rpc, subscriber,
                 channel, dl, severed>>

\* The maintenance tick deletes what the Worker's own clock calls expired,
\* whatever state the row is in.
WorkerExpire ==
  /\ stale /\ store = "published"
  /\ store' = "none"
  /\ UNCHANGED <<rowVars, rotten, stale, result, online, control, rpc,
                 subscriber, channel, dl, severed>>

\* reconcile_on_startup keeps only what has its manifest.
ReconcileOnStartup == IF store = "published" THEN store ELSE "none"

\* The Worker process dies and starts again: its handlers and calls die too,
\* and an unpublished output is produced by no one.
WorkerRestart ==
  /\ store' = ReconcileOnStartup
  /\ result' = IF result = "none" THEN "handled" ELSE result
  /\ online' = FALSE /\ control' = {}
  /\ rpc' = [k \in Requests |->
               IF rpc[k].phase \in {"start", "stream"}
               THEN [rpc[k] EXCEPT !.phase = "broken"] ELSE rpc[k]]
  /\ UNCHANGED <<rowVars, rotten, stale, subscriber, channel, dl, severed>>

\* The stored data goes bad.
Rot ==
  /\ store = "published" /\ rotten = 0
  /\ rotten' \in 1 .. size
  /\ UNCHANGED <<rowVars, store, stale, result, online, control, rpc,
                 subscriber, channel, dl, severed>>

\* One hour passes, on either clock.
Elapse ==
  /\ \/ ~due /\ state # "absent" /\ due' = TRUE /\ UNCHANGED stale
     \/ ~stale /\ store = "published" /\ stale' = TRUE /\ UNCHANGED due
  /\ UNCHANGED <<state, placement, size, committed, store, rotten, result,
                 online, control, rpc, subscriber, channel, dl, severed>>

\* Seeded fault: the sweep takes delivering rows too.
ExpireDueDelivering ==
  /\ due /\ state \in {"available", "delivering"}
  /\ state' = "expired"
  /\ UNCHANGED <<placement, size, committed, due, storeVars, online, control,
                 rpc, subscriber, channel, dl, severed>>

\* expire_due leaves a delivering row alone.
ExpireDue ==
  /\ due /\ state = "available"
  /\ state' = "expired"
  /\ UNCHANGED <<placement, size, committed, due, storeVars, online, control,
                 rpc, subscriber, channel, dl, severed>>
-----------------------------------------------------------------------------
(* The control session.                                                    *)

\* What was queued may be lost; a handler already spawned survives.
SessionDrop ==
  /\ online
  /\ online' = FALSE
  /\ control' \in SUBSET control
  /\ UNCHANGED <<rowVars, storeVars, rpc, subscriber, channel, dl, severed>>

SessionRegister ==
  /\ ~online
  /\ online' = TRUE
  /\ UNCHANGED <<rowVars, storeVars, control, rpc, subscriber, channel, dl,
                 severed>>

\* discard_output, spawned for its message.
WorkerDiscards ==
  /\ DiscardOutput \in control
  /\ control' = control \ {DiscardOutput}
  /\ store' = "none"
  /\ UNCHANGED <<rowVars, rotten, stale, result, online, rpc, subscriber,
                 channel, dl, severed>>

\* deliver_artifact of the Worker reads everything before it calls Remote.
\* A read from the start checks the digest; a resumed one cannot.
Readable(from) == store = "published" /\ (from = 0 => rotten = 0)

WorkerDelivers(m) ==
  /\ m.kind = "deliver"
  /\ control' = control \ {m}
  /\ rpc' = [rpc EXCEPT ![m.k] =
               IF Readable(m.from)
               THEN [phase |-> "start", from |-> m.from, pos |-> m.from,
                     rot |-> rotten]
               ELSE [NoCall EXCEPT !.phase = "ended"]]
  /\ UNCHANGED <<rowVars, storeVars, online, subscriber, channel, dl, severed>>
-----------------------------------------------------------------------------
(* The DeliverArtifact RPC at Remote.                                      *)

Push(kind, chunk) ==
  channel' = IF subscriber = NoClient THEN channel
             ELSE Append(channel, [kind |-> kind, chunk |-> chunk])

\* validate_delivery_start
RpcStart(k) ==
  /\ rpc[k].phase = "start"
  /\ rpc' = [rpc EXCEPT ![k].phase =
               IF state = "delivering" /\ committed = rpc[k].from
               THEN "stream" ELSE "ended"]
  /\ UNCHANGED <<rowVars, storeVars, online, control, subscriber, channel, dl,
                 severed>>

\* One round of receive_delivery_chunks.  Without a downloader it returns.
NextChunk(r) == IF r.pos = size THEN [n |-> 0, ok |-> TRUE]
                ELSE [n |-> r.pos + 1, ok |-> r.pos + 1 # r.rot]
Following(r) == IF r.pos = size THEN size ELSE r.pos + 1

RpcChunk(k) ==
  /\ rpc[k].phase = "stream"
  /\ Push("data", NextChunk(rpc[k]))
  /\ rpc' = [rpc EXCEPT ![k].pos = Following(rpc[k]),
                        ![k].phase = IF subscriber = NoClient THEN "ended"
                                     ELSE IF Following(rpc[k]) = size
                                     THEN "received" ELSE "stream"]
  /\ UNCHANGED <<rowVars, storeVars, online, control, subscriber, dl, severed>>

\* validate_delivery_receipt accepts what this Worker sends.
RpcComplete(k) ==
  /\ rpc[k].phase = "received"
  /\ Push("complete", NoChunk)
  /\ rpc' = [rpc EXCEPT ![k].phase = "ended"]
  /\ UNCHANGED <<rowVars, storeVars, online, control, subscriber, dl, severed>>

\* The stream breaks.  If the transport reports an error the handler returns
\* at the "?"; if it shows the end of the stream, the handler pushes Failed.
RpcError(k) ==
  /\ rpc[k].phase \in {"start", "stream", "broken"}
  /\ rpc' = [rpc EXCEPT ![k].phase = "ended"]
  /\ UNCHANGED <<rowVars, storeVars, online, control, subscriber, channel, dl,
                 severed>>

RpcEnd(k) ==
  /\ rpc[k].phase \in {"stream", "broken"}
  /\ Push("failed", NoChunk)
  /\ rpc' = [rpc EXCEPT ![k].phase = "ended"]
  /\ UNCHANGED <<rowVars, storeVars, online, control, subscriber, dl, severed>>
-----------------------------------------------------------------------------
(* The download request, up to the spawned task.                           *)

\* classify_download on the row read.  The answers that leave the client to
\* ask again (404, 409, 503) change nothing.
Lookup(c) ==
  /\ dl[c].pc = "idle"
  /\ \/ /\ state = "available"
        /\ \/ placement = "object_store"
           \/ placement = "worker_local" /\ online
        /\ dl' = [dl EXCEPT ![c].offset = committed,
                            ![c].pc = IF placement = "object_store"
                                      THEN "redirect" ELSE "acquire"]
     \/ /\ state \in Terminal
        /\ dl' = [dl EXCEPT ![c].pc = "done", ![c].end = "gone"]
  /\ UNCHANGED <<rowVars, storeVars, online, control, rpc, subscriber, channel,
                 severed>>

\* Seeded fault: only the expiry is compared.
CanBeginUnchecked == state \notin Terminal /\ ~due

\* begin_delivery: the row is taken if it is still available and not due.
CanBegin == state = "available" /\ ~due

\* Taken by another, or due, or an error that rolls the transaction back.
BeginFails(c) ==
  /\ dl[c].pc \in {"acquire", "redirect"}
  /\ dl' = [dl EXCEPT ![c].pc = "idle"]
  /\ UNCHANGED <<rowVars, storeVars, online, control, rpc, subscriber, channel,
                 severed>>

\* redirect_to_object_store consumes the row in the transaction that took it.
Redirect(c) ==
  /\ dl[c].pc = "redirect" /\ CanBegin
  /\ state' = "consumed"
  /\ dl' = [dl EXCEPT ![c].pc = "done", ![c].end = "redirected"]
  /\ UNCHANGED <<placement, size, committed, due, storeVars, online, control,
                 rpc, subscriber, channel, severed>>

\* deliver_worker_local
BeginDelivery(c) ==
  /\ dl[c].pc = "acquire" /\ CanBegin
  /\ state' = "delivering"
  /\ dl' = [dl EXCEPT ![c].pc = "subscribe"]
  /\ UNCHANGED <<placement, size, committed, due, storeVars, online, control,
                 rpc, subscriber, channel, severed>>

\* The client disconnects while the commit is awaited: the handler is dropped
\* before it spawns the task, and the commit goes through.
BeginAbandoned(c) ==
  /\ dl[c].pc = "acquire" /\ CanBegin
  /\ state' = "delivering"
  /\ dl' = [dl EXCEPT ![c].pc = "done", ![c].open = FALSE]
  /\ severed' = TRUE
  /\ UNCHANGED <<placement, size, committed, due, storeVars, online, control,
                 rpc, subscriber, channel>>

ClientLeaves(c) ==
  /\ dl[c].pc \in Streaming /\ dl[c].open
  /\ dl' = [dl EXCEPT ![c].open = FALSE]
  /\ UNCHANGED <<rowVars, storeVars, online, control, rpc, subscriber, channel,
                 severed>>
-----------------------------------------------------------------------------
(* The task stream_worker_local.                                           *)

\* Seeded fault: off by one.
ExhaustedLate(n) == n > MaxResume

Exhausted(n) == n >= MaxResume

\* end_delivery, then the transaction at pc.
EndDelivery(c, d, pc) ==
  /\ subscriber' = NoClient
  /\ dl' = [dl EXCEPT ![c] = [d EXCEPT !.pc = pc]]

\* discard_and_expire up to its transaction.  The send is best effort.
DiscardAndExpire(c, d) ==
  /\ EndDelivery(c, d, "expire")
  /\ \/ UNCHANGED control
     \/ online /\ control' = control \cup {DiscardOutput}

Subscribe(c) ==
  /\ dl[c].pc = "subscribe"
  /\ subscriber' = c /\ channel' = <<>>
  /\ dl' = [dl EXCEPT ![c].pc = "request"]
  /\ UNCHANGED <<rowVars, storeVars, online, control, rpc, severed>>

\* request_worker_delivery: Delivered, Offline or Backpressured.
RequestDelivery(c) ==
  /\ dl[c].pc = "request" /\ online
  /\ control' = control \cup {DeliverRequest(dl[c].tries, dl[c].offset)}
  /\ dl' = [dl EXCEPT ![c].pc = "drain"]
  /\ UNCHANGED <<rowVars, storeVars, online, rpc, subscriber, channel, severed>>

RequestOffline(c) ==
  /\ dl[c].pc = "request" /\ ~online
  /\ EndDelivery(c, dl[c], "lost")
  /\ UNCHANGED <<rowVars, storeVars, online, control, rpc, channel, severed>>

RequestBackpressured(c) ==
  /\ dl[c].pc = "request" /\ online
  /\ LET d == [dl[c] EXCEPT !.tries = @ + 1]
     IN  IF Exhausted(d.tries) THEN DiscardAndExpire(c, d)
         ELSE dl' = [dl EXCEPT ![c] = d] /\ UNCHANGED <<subscriber, control>>
  /\ UNCHANGED <<rowVars, storeVars, online, rpc, channel, severed>>
-----------------------------------------------------------------------------
(* drain_worker_chunks                                                     *)

\* Seeded fault: no timeout.
DrainTimeoutNever(c) == dl[c].pc = "drain" /\ FALSE /\ UNCHANGED vars

\* Nothing came for DELIVERY_CHUNK_TIMEOUT.
DrainTimeout(c) ==
  /\ dl[c].pc = "drain" /\ channel = <<>>
  /\ EndDelivery(c, dl[c], "lost")
  /\ UNCHANGED <<rowVars, storeVars, online, control, rpc, channel, severed>>

Take(c, kind) ==
  /\ dl[c].pc = "drain" /\ channel # <<>> /\ Head(channel).kind = kind
  /\ channel' = Tail(channel)

\* Seeded fault: nothing is held back.
HeldBackNever(d) == d.offset > size

\* The last chunk is held back; any other goes to the client.
HeldBack(d) == d.offset = size
Relay(d, chunk) == [d EXCEPT !.body = Append(@, chunk)]
Hash(d, chunk) ==
  [d EXCEPT !.offset = @ + 1,
            !.clean = @ /\ chunk = [n |-> d.offset + 1, ok |-> TRUE]]

DrainData(c) ==
  /\ Take(c, "data")
  /\ LET chunk == Head(channel).chunk
         d == Hash(dl[c], chunk)
     IN  IF chunk.n = 0 THEN UNCHANGED <<dl, subscriber, control>>
         ELSE IF dl[c].offset = size
              THEN EndDelivery(c, dl[c], "lost") /\ UNCHANGED control
         ELSE IF HeldBack(d)
              THEN /\ dl' = [dl EXCEPT ![c] = [d EXCEPT !.held = chunk]]
                   /\ UNCHANGED <<subscriber, control>>
         ELSE IF d.open
              THEN /\ dl' = [dl EXCEPT ![c] = [Relay(d, chunk) EXCEPT !.pc = "persist"]]
                   /\ UNCHANGED <<subscriber, control>>
         ELSE DiscardAndExpire(c, d)
  /\ UNCHANGED <<rowVars, storeVars, online, rpc, severed>>

\* The whole stream is checked, and the held chunk released.
DrainComplete(c) ==
  /\ Take(c, "complete")
  /\ LET d == dl[c]
     IN  IF d.offset # size \/ ~d.clean
         THEN EndDelivery(c, d, "lost") /\ UNCHANGED control
         ELSE IF ~d.open THEN DiscardAndExpire(c, d)
         ELSE IF size = 0
         THEN EndDelivery(c, d, "consume") /\ UNCHANGED control
         ELSE /\ dl' = [dl EXCEPT ![c] = [Relay(d, d.held) EXCEPT
                                            !.held = NoChunk, !.pc = "persist_last"]]
              /\ UNCHANGED <<subscriber, control>>
  /\ UNCHANGED <<rowVars, storeVars, online, rpc, severed>>

DrainFailed(c) ==
  /\ Take(c, "failed")
  /\ LET d == [dl[c] EXCEPT !.tries = @ + 1]
     IN  EndDelivery(c, d, IF Exhausted(d.tries) THEN "lost" ELSE "subscribe")
  /\ UNCHANGED <<rowVars, storeVars, online, control, rpc, severed>>

\* persist_delivery_offset, with commit_offset.
Persist(c) ==
  /\ dl[c].pc \in {"persist", "persist_last"}
  /\ committed' = IF state = "delivering" /\ committed < dl[c].offset
                  THEN dl[c].offset ELSE committed
  /\ IF dl[c].pc = "persist"
     THEN dl' = [dl EXCEPT ![c].pc = "drain"] /\ UNCHANGED subscriber
     ELSE EndDelivery(c, dl[c], "consume")
  /\ UNCHANGED <<state, placement, size, due, storeVars, online, control, rpc,
                 channel, severed>>

\* The transaction that ends the delivery, by set_state, and what the client
\* is told: mark_consumed, mark_delivery_lost, discard_and_expire.
FinalState(pc) == CASE pc = "consume" -> "consumed"
                    [] pc = "lost" -> "lost"
                    [] pc = "expire" -> "expired"
Finished(d) ==
  [d EXCEPT !.pc = "done",
            !.end = IF d.pc # "consume" /\ d.open THEN "error" ELSE @]

Finish(c) ==
  /\ dl[c].pc \in {"consume", "lost", "expire"}
  /\ state' = IF <<state, FinalState(dl[c].pc)>> \in ArtifactEdge
              THEN FinalState(dl[c].pc) ELSE state
  /\ dl' = [dl EXCEPT ![c] = Finished(@)]
  /\ UNCHANGED <<placement, size, committed, due, storeVars, online, control,
                 rpc, subscriber, channel, severed>>

\* A transaction of the task fails.  Persisting ends in fail_delivery, and a
\* failed final transaction is only logged.
TransactionFails(c) ==
  /\ \/ /\ dl[c].pc \in {"persist", "persist_last"}
        /\ EndDelivery(c, dl[c], "lost")
     \/ /\ dl[c].pc \in {"consume", "lost", "expire"}
        /\ dl' = [dl EXCEPT ![c] = Finished(@)] /\ UNCHANGED subscriber
  /\ severed' = TRUE
  /\ UNCHANGED <<rowVars, storeVars, online, control, rpc, channel>>

\* Remote restarts: only the database is left, and what the Worker has read
\* from the control stream.
RemoteRestart ==
  /\ \E c \in Clients : dl[c].pc \in Streaming
  /\ online' = FALSE /\ control' \in SUBSET control
  /\ rpc' = [k \in Requests |-> [rpc[k] EXCEPT !.phase =
               IF @ = "none" THEN @ ELSE "ended"]]
  /\ subscriber' = NoClient /\ channel' = <<>>
  /\ dl' = [c \in Clients |->
              IF dl[c].pc \in Streaming
              THEN [dl[c] EXCEPT !.pc = "done", !.open = FALSE]
              ELSE IF dl[c].pc = "done" THEN dl[c] ELSE NoDownload]
  /\ severed' = TRUE
  /\ UNCHANGED <<rowVars, storeVars>>
-----------------------------------------------------------------------------
TaskStep(c) ==
  \/ Subscribe(c) \/ RequestDelivery(c) \/ RequestOffline(c)
  \/ RequestBackpressured(c) \/ DrainTimeout(c) \/ DrainData(c)
  \/ DrainComplete(c) \/ DrainFailed(c) \/ Persist(c) \/ Finish(c)
  \/ TransactionFails(c)

WorkerStep ==
  \/ Publish \/ ReportOutput \/ WorkerExpire \/ WorkerRestart \/ WorkerDiscards
  \/ Rot \/ \E m \in control : WorkerDelivers(m)

RpcStep(k) == RpcStart(k) \/ RpcChunk(k) \/ RpcComplete(k) \/ RpcError(k)
                \/ RpcEnd(k)

RequestStep(c) == Lookup(c) \/ BeginFails(c) \/ Redirect(c) \/ BeginDelivery(c)
                    \/ BeginAbandoned(c) \/ ClientLeaves(c)

Next ==
  \/ WorkerStep \/ RecordOutput \/ DiscardWorkerOutputs \/ Elapse \/ ExpireDue
  \/ SessionDrop \/ SessionRegister \/ RemoteRestart
  \/ \E k \in Requests : RpcStep(k)
  \/ \E c \in Clients : RequestStep(c) \/ TaskStep(c)

Spec == Init /\ [][Next]_vars

(***************************************************************************)
(* A spawned task is polled until it returns, and a sleep ends.  Nothing   *)
(* is assumed of the Worker, of its session or of the transport.  The task *)
(* waits for a client that neither reads nor leaves; here one does.        *)
(***************************************************************************)
FairSpec == Spec /\ \A c \in Clients : WF_vars(TaskStep(c))
-----------------------------------------------------------------------------
(* Properties                                                              *)

(***************************************************************************)
(* One delivery: the bytes or the presigned URL are handed to at most one  *)
(* client, whatever downloads race for the row (begin_delivery's           *)
(* compare-and-swap; ADR 0008, "delivered once").                          *)
(***************************************************************************)
Served(c) == dl[c].body # <<>> \/ dl[c].end = "redirected"
             \/ dl[c].pc \in Streaming
OneShot == \A c, d \in Clients : Served(c) /\ Served(d) => c = d

(***************************************************************************)
(* A response carries the chunks in order, none twice and none left out,   *)
(* across resumptions; and if it carries them all, they are the content    *)
(* the manifest declares, even if the Worker's file went bad between two   *)
(* calls (drain_worker_chunks holds the last chunk back).                  *)
(***************************************************************************)
BodyExact ==
  \A c \in Clients :
    LET b == dl[c].body
    IN  /\ \A i \in DOMAIN b : b[i].n = i
        /\ (b # <<>> /\ Len(b) = size) => \A i \in DOMAIN b : b[i].ok

(***************************************************************************)
(* A DeliverRequest asks for the offset the row under delivery has         *)
(* recorded, so that the call it leads to passes validate_delivery_start;  *)
(* and no call is still pushing chunks when the task resumes.              *)
(***************************************************************************)
ResumeAgrees ==
  \A c \in Clients :
    dl[c].pc \in {"subscribe", "request"} /\ state = "delivering" =>
    /\ dl[c].offset = committed
    /\ dl[c].held = NoChunk
    /\ \A k \in Requests : rpc[k].phase \in {"none", "ended"}

(***************************************************************************)
(* The body of a download is exact across any number of broken calls: what *)
(* was sent is a verified prefix, and the resumed call goes on where that  *)
(* prefix ends.                                                            *)
(***************************************************************************)
StreamExact == BodyExact /\ ResumeAgrees

(***************************************************************************)
(* A client that was sent every byte finds the Artifact consumed, and one  *)
(* that was told of an error was not sent every byte, unless a transaction *)
(* failed: no sweep takes a row under delivery away (expire_due).          *)
(***************************************************************************)
Complete(c) == size > 0 /\ Len(dl[c].body) = size
DeliveredIsConsumed ==
  ~severed => \A c \in Clients :
    Complete(c) => /\ dl[c].end # "error"
                   /\ dl[c].pc = "done" => state = "consumed"

(***************************************************************************)
(* What is offered is there: until its hour is over on the Worker's clock, *)
(* the bytes of an available row are in the Worker's store, whatever the   *)
(* moment at which the Worker was restarted (publish,                      *)
(* reconcile_on_startup).                                                  *)
(***************************************************************************)
AvailableBacked ==
  state = "available" /\ placement = "worker_local" /\ ~stale
    => store = "published"

(***************************************************************************)
(* A delivery ends in a terminal state, whatever becomes of the Worker,    *)
(* its session, the call and the client, if Remote and its database stay   *)
(* up and the handler is not dropped (stream_worker_local).                *)
(***************************************************************************)
DeliveryEnds == (state = "delivering") ~> (state \in Terminal \/ severed)

(***************************************************************************)
(* "No delivering row is stranded forever": the same without the           *)
(* exceptions (expire_due's comment).                                      *)
(***************************************************************************)
NoneStranded == (state = "delivering") ~> (state \in Terminal)
=============================================================================
