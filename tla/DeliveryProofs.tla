--------------------------- MODULE DeliveryProofs ---------------------------
(***************************************************************************)
(* Proofs about Delivery, for every set of clients, every size and every   *)
(* resume budget.                                                          *)
(***************************************************************************)
EXTENDS Delivery, SequenceTheorems, TLAPS

USE DeliveryAssumption

(***************************************************************************)
(* A task that is not at its final transaction has resume attempts left,   *)
(* so its next DeliverRequest has a number.                                *)
(***************************************************************************)
BudgetLeft == \A c \in Clients :
  dl[c].pc \notin {"lost", "expire", "consume", "done"} => dl[c].tries < MaxResume
TypeInv == TypeOK /\ BudgetLeft

LEMMA TypeInit == Init => TypeInv
<1> SUFFICES ASSUME Init PROVE TypeInv
  OBVIOUS
<1>1. size \in Nat /\ 0 \in 0 .. size
  BY DEF Init
<1>2. NoChunk \in Chunk
  BY <1>1 DEF NoChunk, Chunk
<1>3. NoDownload \in Download
  BY <1>1, <1>2 DEF NoDownload, Download
<1>4. NoCall \in Call
  BY <1>1 DEF NoCall, Call
<1>5. BudgetLeft
  BY DEF Init, BudgetLeft, NoDownload
<1>6. /\ rpc \in [Requests -> Call] /\ dl \in [Clients -> Download]
      /\ channel \in Seq(DeliveryChunk)
  BY <1>3, <1>4 DEF Init
<1> QED
  BY <1>1, <1>5, <1>6 DEF Init, TypeInv, TypeOK

LEMMA SizeFixed == [Next]_vars => size' = size /\ placement' = placement
  BY DEF Next, vars, rowVars, WorkerStep, Publish, ReportOutput, WorkerExpire,
  WorkerRestart, WorkerDiscards, Rot, WorkerDelivers, RecordOutput,
  DiscardWorkerOutputs, Elapse, ExpireDue, SessionDrop, SessionRegister,
  RemoteRestart, RpcStep, RpcStart, RpcChunk, RpcComplete, RpcError, RpcEnd,
  RequestStep, Lookup, BeginFails, Redirect, BeginDelivery, BeginAbandoned,
  ClientLeaves, TaskStep, Subscribe, RequestDelivery, RequestOffline,
  RequestBackpressured, DrainTimeout, DrainData, DrainComplete, DrainFailed,
  Persist, Finish, TransactionFails

LEMMA SetsFixed ==
  ASSUME size' = size
  PROVE  /\ Chunk' = Chunk /\ DeliveryChunk' = DeliveryChunk
         /\ Download' = Download /\ ControlMessage' = ControlMessage
         /\ Call' = Call
  BY DEF Chunk, DeliveryChunk, Download, ControlMessage, Call

LEMMA DownloadAt ==
  ASSUME NEW d \in Download,
         NEW p \in {"idle", "acquire", "redirect", "done"} \cup Streaming
  PROVE  /\ [d EXCEPT !.pc = p] \in Download
         /\ [d EXCEPT !.pc = p].pc = p /\ [d EXCEPT !.pc = p].tries = d.tries
  BY DEF Download

LEMMA HashType ==
  ASSUME size \in Nat, NEW d \in Download, NEW x, d.offset # size
  PROVE  /\ Hash(d, x) \in Download
         /\ Hash(d, x).pc = d.pc /\ Hash(d, x).tries = d.tries
<1>1. d.offset + 1 \in 0 .. size
  BY DEF Download
<1> QED
  BY <1>1 DEF Download, Hash

LEMMA RelayType ==
  ASSUME NEW d \in Download, NEW x \in Chunk
  PROVE  /\ Relay(d, x) \in Download
         /\ Relay(d, x).pc = d.pc /\ Relay(d, x).tries = d.tries
<1>1. Append(d.body, x) \in Seq(Chunk)
  BY DEF Download
<1> QED
  BY <1>1 DEF Download, Relay

LEMMA FinishedType ==
  ASSUME NEW d \in Download
  PROVE  Finished(d) \in Download /\ Finished(d).pc = "done"
  BY DEF Download, Finished

LEMMA HeadType ==
  ASSUME channel \in Seq(DeliveryChunk), channel # <<>>
  PROVE  Head(channel).chunk \in Chunk /\ Tail(channel) \in Seq(DeliveryChunk)
<1>1. Head(channel) \in DeliveryChunk /\ Tail(channel) \in Seq(DeliveryChunk)
  OBVIOUS
<1> QED
  BY <1>1 DEF DeliveryChunk

LeftAt(d) == [d EXCEPT !.pc = "done", !.open = FALSE]
EndedAt(d, e) == [d EXCEPT !.pc = "done", !.end = e]
LEMMA LeftType ==
  ASSUME NEW d \in Download, NEW e \in {"gone", "redirected"}
  PROVE  /\ LeftAt(d) \in Download /\ LeftAt(d).pc = "done"
         /\ EndedAt(d, e) \in Download /\ EndedAt(d, e).pc = "done"
  BY DEF Download, LeftAt, EndedAt

LEMMA DownloadNext == TypeInv /\ [Next]_vars =>
                        dl' \in [Clients -> Download'] /\ BudgetLeft'
<1> SUFFICES ASSUME TypeInv, [Next]_vars
             PROVE  dl' \in [Clients -> Download'] /\ BudgetLeft'
  OBVIOUS
<1>1. /\ dl \in [Clients -> Download] /\ BudgetLeft /\ Download' = Download
      /\ size' = size /\ size \in Nat /\ committed \in 0 .. size
  BY SizeFixed, SetsFixed DEF TypeInv, TypeOK
<1>2. CASE UNCHANGED dl
  BY <1>1, <1>2 DEF BudgetLeft
<1>3. ASSUME NEW c \in Clients, NEW d \in Download,
             d.pc \in {"lost", "expire", "consume", "done"} \/ d.tries < MaxResume,
             dl' = [dl EXCEPT ![c] = d]
      PROVE  dl' \in [Clients -> Download'] /\ BudgetLeft'
  BY <1>1, <1>3 DEF BudgetLeft
<1>0. ASSUME NEW c \in Clients, NEW d \in Download,
             NEW p \in {"idle", "acquire", "redirect", "done"} \cup Streaming,
             p \in {"lost", "expire", "consume", "done"} \/ d.tries < MaxResume,
             dl' = [dl EXCEPT ![c] = [d EXCEPT !.pc = p]]
      PROVE  dl' \in [Clients -> Download'] /\ BudgetLeft'
  <2> DEFINE e == [d EXCEPT !.pc = p]
  <2>1. e \in Download /\ e.pc = p /\ e.tries = d.tries
    BY DownloadAt, Zenon
  <2>2. dl' = [dl EXCEPT ![c] = e]
    BY <1>0
  <2>3. e.pc \in {"lost", "expire", "consume", "done"} \/ e.tries < MaxResume
    BY <1>0, <2>1
  <2> HIDE DEF e
  <2> QED
    BY <1>3, <2>1, <2>2, <2>3
<1>4. CASE RemoteRestart
  <2>1. NoDownload \in Download /\ NoDownload.tries = 0
    BY <1>1 DEF NoDownload, Download, NoChunk, Chunk
  <2>2. ASSUME NEW c \in Clients
        PROVE  LeftAt(dl[c]) \in Download /\ LeftAt(dl[c]).pc = "done"
    BY <1>1, LeftType
  <2>3. \A c \in Clients : /\ dl'[c] \in Download
                           /\ dl'[c].pc = "done" \/ dl'[c] = NoDownload
    BY <1>1, <1>4, <2>1, <2>2 DEF RemoteRestart, LeftAt
  <2>4. dl' \in [Clients -> Download']
    <3>1. dl' = [c \in Clients |-> dl'[c]]
      BY <1>4 DEF RemoteRestart
    <3>2. \A c \in Clients : dl'[c] \in Download'
      BY <1>1, <2>3
    <3> QED
      BY <3>1, <3>2, Zenon
  <2>5. BudgetLeft'
    BY <2>1, <2>3 DEF BudgetLeft
  <2> QED
    BY <2>4, <2>5
<1>5. ASSUME NEW c \in Clients, RequestStep(c)
      PROVE  dl' \in [Clients -> Download'] /\ BudgetLeft'
  <2> DEFINE d == dl[c]
  <2>1. d \in Download /\ (d.pc \notin {"lost", "expire", "consume", "done"}
                             => d.tries < MaxResume)
    BY <1>1 DEF BudgetLeft
  <2>2. CASE Lookup(c)
    <3>1. CASE state = "available"
      <4> DEFINE p == IF placement = "object_store" THEN "redirect" ELSE "acquire"
                 e == [d EXCEPT !.offset = committed, !.pc = p]
      <4>1. dl' = [dl EXCEPT ![c] = e] /\ d.pc = "idle"
        BY <1>1, <2>2, <3>1 DEF Lookup, Terminal
      <4>2. e \in Download /\ e.tries = d.tries
        BY <1>1, <2>1 DEF Download
      <4> HIDE DEF e
      <4> QED
        BY <1>3, <2>1, <4>1, <4>2
    <3>2. CASE state \in Terminal
      <4>1. dl' = [dl EXCEPT ![c] = EndedAt(d, "gone")]
        BY <1>1, <2>2, <3>2 DEF Lookup, Terminal, EndedAt
      <4> QED
        BY <1>3, <2>1, <4>1, LeftType
    <3> QED
      BY <2>2, <3>1, <3>2 DEF Lookup
  <2>3. CASE BeginFails(c)
    <3>1. dl' = [dl EXCEPT ![c] = [d EXCEPT !.pc = "idle"]]
      BY <1>1, <2>3 DEF BeginFails
    <3>2. d.tries < MaxResume
      BY <2>1, <2>3 DEF BeginFails
    <3> HIDE DEF d
    <3> QED
      BY <1>0, <2>1, <3>1, <3>2 DEF Streaming
  <2>4. CASE Redirect(c)
    <3>1. dl' = [dl EXCEPT ![c] = EndedAt(d, "redirected")]
      BY <1>1, <2>4 DEF Redirect, EndedAt
    <3> QED
      BY <1>3, <2>1, <3>1, LeftType
  <2>5. CASE BeginDelivery(c)
    <3>1. dl' = [dl EXCEPT ![c] = [d EXCEPT !.pc = "subscribe"]]
      BY <1>1, <2>5 DEF BeginDelivery
    <3>2. d.tries < MaxResume
      BY <2>1, <2>5 DEF BeginDelivery
    <3> HIDE DEF d
    <3> QED
      BY <1>0, <2>1, <3>1, <3>2 DEF Streaming
  <2>6. CASE BeginAbandoned(c)
    <3>1. dl' = [dl EXCEPT ![c] = LeftAt(d)]
      BY <1>1, <2>6 DEF BeginAbandoned, LeftAt
    <3> QED
      BY <1>3, <2>1, <3>1, LeftType
  <2>7. CASE ClientLeaves(c)
    <3> DEFINE e == [d EXCEPT !.open = FALSE]
    <3>1. dl' = [dl EXCEPT ![c] = e]
      BY <1>1, <2>7 DEF ClientLeaves
    <3>2. e \in Download /\ e.pc = d.pc /\ e.tries = d.tries
      BY <2>1 DEF Download
    <3>3. e.pc \in {"lost", "expire", "consume", "done"} \/ e.tries < MaxResume
      BY <2>1, <3>2
    <3> HIDE DEF e
    <3> QED
      BY <1>3, <3>1, <3>2, <3>3
  <2> QED
    BY <1>5, <2>2, <2>3, <2>4, <2>5, <2>6, <2>7 DEF RequestStep
<1>6. ASSUME NEW c \in Clients, TaskStep(c)
      PROVE  dl' \in [Clients -> Download'] /\ BudgetLeft'
  <2> DEFINE d == dl[c]
  <2>1. d \in Download /\ (d.pc \notin {"lost", "expire", "consume", "done"}
                             => d.tries < MaxResume)
    BY <1>1 DEF BudgetLeft
  <2>2. ASSUME NEW e \in Download, NEW p \in {"lost", "expire", "consume"},
               EndDelivery(c, e, p)
        PROVE  dl' \in [Clients -> Download'] /\ BudgetLeft'
    BY <1>0, <2>2 DEF EndDelivery, Streaming
  <2>3. ASSUME NEW e \in Download, DiscardAndExpire(c, e)
        PROVE  dl' \in [Clients -> Download'] /\ BudgetLeft'
    BY <2>2, <2>3 DEF DiscardAndExpire
  <2>4. ASSUME NEW e \in Download, e.tries = d.tries + 1, d.tries < MaxResume,
               NEW p \in {"subscribe", "request"}, ~Exhausted(e.tries),
               dl' = [dl EXCEPT ![c] = [e EXCEPT !.pc = p]]
        PROVE  dl' \in [Clients -> Download'] /\ BudgetLeft'
    <3>1. e.tries \in 0 .. MaxResume /\ e.tries < MaxResume
      BY <2>4 DEF Download, Exhausted
    <3> QED
      BY <1>3, <2>4, <3>1, DownloadAt DEF Streaming
  <2>5. CASE Subscribe(c)
    <3>1. dl' = [dl EXCEPT ![c] = [d EXCEPT !.pc = "request"]]
      BY <1>1, <2>5 DEF Subscribe
    <3>2. d.tries < MaxResume
      BY <2>1, <2>5 DEF Subscribe
    <3> HIDE DEF d
    <3> QED
      BY <1>0, <2>1, <3>1, <3>2 DEF Streaming
  <2>6. CASE RequestDelivery(c)
    <3>1. dl' = [dl EXCEPT ![c] = [d EXCEPT !.pc = "drain"]]
      BY <1>1, <2>6 DEF RequestDelivery
    <3>2. d.tries < MaxResume
      BY <2>1, <2>6 DEF RequestDelivery
    <3> HIDE DEF d
    <3> QED
      BY <1>0, <2>1, <3>1, <3>2 DEF Streaming
  <2>7. CASE RequestOffline(c)
    BY <2>1, <2>2, <2>7 DEF RequestOffline
  <2>8. CASE RequestBackpressured(c)
    <3> DEFINE e == [d EXCEPT !.tries = @ + 1]
    <3>1. /\ d.tries < MaxResume /\ d.pc = "request"
      BY <2>1, <2>8 DEF RequestBackpressured
    <3>2. /\ e \in Download /\ e.tries = d.tries + 1
      BY <2>1, <3>1 DEF Download
    <3>3. CASE Exhausted(e.tries)
      BY <2>3, <2>8, <3>2, <3>3 DEF RequestBackpressured
    <3>4. CASE ~Exhausted(e.tries)
      <4>1. dl' = [dl EXCEPT ![c] = e]
        BY <2>8, <3>4 DEF RequestBackpressured
      <4>2. e.tries < MaxResume
        BY <3>2, <3>4 DEF Download, Exhausted
      <4> HIDE DEF e
      <4> QED
        BY <1>3, <3>2, <4>1, <4>2
    <3> QED
      BY <3>3, <3>4
  <2>9. CASE DrainTimeout(c)
    BY <2>1, <2>2, <2>9 DEF DrainTimeout
  <2>10. CASE DrainData(c)
    <3> DEFINE x == Head(channel).chunk
               e == Hash(d, x)
    <3>1. x \in Chunk /\ d.pc = "drain" /\ d.tries < MaxResume
      BY <2>1, <2>10, HeadType DEF DrainData, Take, TypeInv, TypeOK
    <3>2. CASE x.n = 0
      BY <1>2, <2>10, <3>2 DEF DrainData
    <3>3. CASE x.n # 0 /\ d.offset = size
      BY <2>1, <2>2, <2>10, <3>3 DEF DrainData
    <3>4. CASE x.n # 0 /\ d.offset # size
      <4>1. e \in Download /\ e.pc = "drain" /\ e.tries < MaxResume
        BY <1>1, <2>1, <3>1, <3>4, HashType
      <4>2. CASE HeldBack(e)
        <5> DEFINE f == [e EXCEPT !.held = x]
        <5>1. f \in Download /\ f.tries = e.tries
          BY <3>1, <4>1 DEF Download
        <5>2. dl' = [dl EXCEPT ![c] = f]
          BY <2>10, <3>4, <4>2 DEF DrainData
        <5> HIDE DEF e, f
        <5> QED
          BY <1>3, <4>1, <5>1, <5>2
      <4>3. CASE ~HeldBack(e) /\ e.open
        <5>1. Relay(e, x) \in Download /\ Relay(e, x).tries < MaxResume
          BY <3>1, <4>1, RelayType
        <5>2. dl' = [dl EXCEPT ![c] = [Relay(e, x) EXCEPT !.pc = "persist"]]
          BY <2>10, <3>4, <4>3 DEF DrainData
        <5> HIDE DEF e
        <5> QED
          BY <1>0, <5>1, <5>2 DEF Streaming
      <4>4. CASE ~HeldBack(e) /\ ~e.open
        BY <2>3, <2>10, <3>4, <4>1, <4>4 DEF DrainData
      <4> QED
        BY <4>2, <4>3, <4>4
    <3> QED
      BY <3>2, <3>3, <3>4
  <2>11. CASE DrainComplete(c)
    <3>1. d.held \in Chunk /\ d.pc = "drain" /\ d.tries < MaxResume /\ NoChunk \in Chunk
      BY <1>1, <2>1, <2>11 DEF DrainComplete, Take, Download, Chunk, NoChunk
    <3>2. CASE d.offset # size \/ ~d.clean
      BY <2>1, <2>2, <2>11, <3>2 DEF DrainComplete
    <3>3. CASE ~(d.offset # size \/ ~d.clean) /\ ~d.open
      BY <2>1, <2>3, <2>11, <3>3 DEF DrainComplete
    <3>4. CASE ~(d.offset # size \/ ~d.clean) /\ d.open /\ size = 0
      BY <2>1, <2>2, <2>11, <3>4 DEF DrainComplete
    <3>5. CASE ~(d.offset # size \/ ~d.clean) /\ d.open /\ size # 0
      <4> DEFINE e == [Relay(d, d.held) EXCEPT !.held = NoChunk, !.pc = "persist_last"]
      <4>1. Relay(d, d.held) \in Download /\ Relay(d, d.held).tries = d.tries
        BY <2>1, <3>1, RelayType
      <4>2. e \in Download /\ e.tries = d.tries
        BY <3>1, <4>1 DEF Download, Streaming
      <4> QED
        BY <1>3, <2>11, <3>1, <3>5, <4>2 DEF DrainComplete
    <3> QED
      BY <3>2, <3>3, <3>4, <3>5
  <2>12. CASE DrainFailed(c)
    <3> DEFINE e == [d EXCEPT !.tries = @ + 1]
    <3>1. d.tries < MaxResume
      BY <2>1, <2>12 DEF DrainFailed, Take
    <3>2. e \in Download /\ e.tries = d.tries + 1
      BY <2>1, <3>1 DEF Download
    <3>3. CASE Exhausted(e.tries)
      BY <2>2, <2>12, <3>2, <3>3 DEF DrainFailed
    <3>4. CASE ~Exhausted(e.tries)
      BY <2>4, <2>12, <3>1, <3>2, <3>4 DEF DrainFailed, EndDelivery
    <3> QED
      BY <3>3, <3>4
  <2>13. CASE Persist(c)
    <3>1. CASE d.pc = "persist"
      <4>1. dl' = [dl EXCEPT ![c] = [d EXCEPT !.pc = "drain"]]
        BY <1>1, <2>13, <3>1 DEF Persist
      <4>2. d.tries < MaxResume
        BY <2>1, <3>1
      <4>3. [d EXCEPT !.pc = "drain"] \in Download
            /\ [d EXCEPT !.pc = "drain"].tries < MaxResume
        BY <2>1, <4>2, DownloadAt DEF Streaming
      <4> QED
        BY <1>3, <4>1, <4>3
    <3>2. CASE d.pc # "persist"
      BY <2>1, <2>2, <2>13, <3>2 DEF Persist
    <3> QED
      BY <3>1, <3>2
  <2>14. CASE Finish(c)
    BY <1>3, <2>1, <2>14, FinishedType DEF Finish
  <2>15. CASE TransactionFails(c)
    BY <1>3, <2>1, <2>2, <2>15, FinishedType DEF TransactionFails
  <2> QED
    BY <1>6, <2>5, <2>6, <2>7, <2>8, <2>9, <2>10, <2>11, <2>12, <2>13, <2>14,
       <2>15 DEF TaskStep
<1> QED
  BY <1>2, <1>4, <1>5, <1>6
  DEF Next, vars, WorkerStep, Publish, ReportOutput, WorkerExpire, WorkerRestart,
  WorkerDiscards, Rot, WorkerDelivers, RecordOutput, DiscardWorkerOutputs, Elapse,
  ExpireDue, SessionDrop, SessionRegister, RpcStep, RpcStart, RpcChunk,
  RpcComplete, RpcError, RpcEnd

LEMMA ChannelNext == TypeInv /\ [Next]_vars => channel' \in Seq(DeliveryChunk')
<1> SUFFICES ASSUME TypeInv, [Next]_vars PROVE channel' \in Seq(DeliveryChunk')
  OBVIOUS
<1>1. /\ channel \in Seq(DeliveryChunk) /\ DeliveryChunk' = DeliveryChunk
      /\ size \in Nat /\ rpc \in [Requests -> Call]
  BY SizeFixed, SetsFixed DEF TypeInv, TypeOK
<1>0. CASE channel' = <<>>
  <2>1. <<>> \in Seq(DeliveryChunk)
    OBVIOUS
  <2> QED
    BY <1>0, <1>1, <2>1, Zenon
<1>2. ASSUME NEW kind \in {"data", "complete", "failed"}, NEW x \in Chunk, Push(kind, x)
      PROVE  channel' \in Seq(DeliveryChunk')
  <2>1. [kind |-> kind, chunk |-> x] \in DeliveryChunk
    BY <1>2 DEF DeliveryChunk
  <2> QED
    BY <1>1, <1>2, <2>1 DEF Push
<1>3. NoChunk \in Chunk
  BY <1>1 DEF NoChunk, Chunk
<1>4. ASSUME NEW k \in Requests, RpcStep(k) PROVE channel' \in Seq(DeliveryChunk')
  <2>1. NextChunk(rpc[k]) \in Chunk
    BY <1>1 DEF NextChunk, Chunk, Call
  <2> QED
    BY <1>1, <1>2, <1>3, <1>4, <2>1
    DEF RpcStep, RpcStart, RpcChunk, RpcComplete, RpcError, RpcEnd
<1>5. ASSUME NEW c \in Clients, NEW kind, Take(c, kind)
      PROVE  channel' \in Seq(DeliveryChunk')
  <2>1. channel # <<>> /\ channel' = Tail(channel)
    BY <1>5 DEF Take
  <2> QED
    BY <1>1, <2>1, HeadType
<1>6. ASSUME NEW c \in Clients, TaskStep(c) PROVE channel' \in Seq(DeliveryChunk')
  <2>1. \/ UNCHANGED channel \/ channel' = <<>>
        \/ Take(c, "data") \/ Take(c, "complete") \/ Take(c, "failed")
    BY <1>6
    DEF TaskStep, Subscribe, RequestDelivery, RequestOffline, RequestBackpressured,
    DrainTimeout, DrainData, DrainComplete, DrainFailed, Persist, Finish,
    TransactionFails
  <2> QED
    BY <1>0, <1>1, <1>5, <2>1
<1>7. CASE RemoteRestart
  BY <1>0, <1>7 DEF RemoteRestart
<1>8. CASE UNCHANGED channel
  BY <1>1, <1>8
<1> QED
  BY <1>4, <1>6, <1>7, <1>8
  DEF Next, vars, WorkerStep, Publish, ReportOutput, WorkerExpire, WorkerRestart,
  WorkerDiscards, Rot, WorkerDelivers, RecordOutput, DiscardWorkerOutputs, Elapse,
  ExpireDue, SessionDrop, SessionRegister, RequestStep, Lookup, BeginFails,
  Redirect, BeginDelivery, BeginAbandoned, ClientLeaves

LEMMA CallNext == TypeInv /\ [Next]_vars => rpc' \in [Requests -> Call']
<1> SUFFICES ASSUME TypeInv, [Next]_vars PROVE rpc' \in [Requests -> Call']
  OBVIOUS
<1>1. /\ rpc \in [Requests -> Call] /\ Call' = Call /\ size \in Nat
      /\ rotten \in 0 .. size /\ control \subseteq ControlMessage
  BY SizeFixed, SetsFixed DEF TypeInv, TypeOK
<1>2. ASSUME NEW k \in Requests, NEW r \in Call, rpc' = [rpc EXCEPT ![k] = r]
      PROVE  rpc' \in [Requests -> Call']
  BY <1>1, <1>2
<1>3. ASSUME NEW r \in Call, NEW p \in {"none", "stream", "received", "broken", "ended"}
      PROVE  [r EXCEPT !.phase = p] \in Call
  BY DEF Call
<1>4. ASSUME NEW k \in Requests, RpcStep(k) PROVE rpc' \in [Requests -> Call']
  <2>1. ASSUME NEW p \in {"stream", "ended"}, rpc' = [rpc EXCEPT ![k].phase = p]
        PROVE  rpc' \in [Requests -> Call']
    <3>1. rpc' = [rpc EXCEPT ![k] = [rpc[k] EXCEPT !.phase = p]]
      BY <2>1
    <3> QED
      BY <1>1, <1>2, <1>3, <3>1
  <2>2. CASE RpcChunk(k)
    <3> DEFINE p == IF subscriber = NoClient THEN "ended"
                    ELSE IF Following(rpc[k]) = size THEN "received" ELSE "stream"
               r == [rpc[k] EXCEPT !.pos = Following(rpc[k]), !.phase = p]
    <3>1. rpc' = [rpc EXCEPT ![k] = r]
      BY <1>1, <2>2 DEF RpcChunk
    <3>2. p \in {"ended", "received", "stream"}
      OBVIOUS
    <3>3. rpc[k] \in Call /\ Following(rpc[k]) \in 0 .. size
      BY <1>1 DEF Call, Following
    <3> HIDE DEF p
    <3>4. r \in Call
      BY <3>2, <3>3 DEF Call
    <3> QED
      BY <1>2, <3>1, <3>4
  <2> QED
    BY <1>4, <2>1, <2>2 DEF RpcStep, RpcStart, RpcComplete, RpcError, RpcEnd
<1>5. ASSUME NEW m \in control, WorkerDelivers(m) PROVE rpc' \in [Requests -> Call']
  <2>1. m.k \in Requests /\ m.from \in 0 .. size
    BY <1>1 DEF ControlMessage
  <2>2. /\ [phase |-> "start", from |-> m.from, pos |-> m.from, rot |-> rotten] \in Call
        /\ [NoCall EXCEPT !.phase = "ended"] \in Call
    BY <1>1, <2>1 DEF Call, NoCall
  <2> QED
    BY <1>2, <1>5, <2>1, <2>2 DEF WorkerDelivers
<1>6. CASE WorkerRestart
  <2>1. \A k \in Requests : [rpc[k] EXCEPT !.phase = "broken"] \in Call
    BY <1>1, <1>3
  <2> QED
    BY <1>1, <1>6, <2>1 DEF WorkerRestart
<1>7. CASE RemoteRestart
  <2>1. \A k \in Requests : [rpc[k] EXCEPT !.phase = IF @ = "none" THEN @ ELSE "ended"] \in Call
    BY <1>1, <1>3
  <2> QED
    BY <1>1, <1>7, <2>1 DEF RemoteRestart
<1>8. CASE UNCHANGED rpc
  BY <1>1, <1>8
<1> QED
  BY <1>4, <1>5, <1>6, <1>7, <1>8
  DEF Next, vars, WorkerStep, Publish, ReportOutput, WorkerExpire,
  WorkerDiscards, Rot, RecordOutput, DiscardWorkerOutputs, Elapse,
  ExpireDue, SessionDrop, SessionRegister, RequestStep, Lookup, BeginFails,
  Redirect, BeginDelivery, BeginAbandoned, ClientLeaves, TaskStep, Subscribe,
  RequestDelivery, RequestOffline, RequestBackpressured, DrainTimeout, DrainData,
  DrainComplete, DrainFailed, Persist, Finish, TransactionFails

LEMMA ControlNext == TypeInv /\ [Next]_vars => control' \subseteq ControlMessage'
<1> SUFFICES ASSUME TypeInv, [Next]_vars PROVE control' \subseteq ControlMessage'
  OBVIOUS
<1>1. /\ control \subseteq ControlMessage /\ ControlMessage' = ControlMessage
      /\ size \in Nat /\ dl \in [Clients -> Download]
  BY SizeFixed, SetsFixed DEF TypeInv, TypeOK
<1>2. DiscardOutput \in ControlMessage
  BY <1>1 DEF DiscardOutput, ControlMessage, Requests
<1>3. ASSUME NEW c \in Clients, RequestDelivery(c)
      PROVE  control' \subseteq ControlMessage'
  <2>1. dl[c].tries \in Requests /\ dl[c].offset \in 0 .. size
    <3>1. dl[c] \in Download /\ dl[c].tries < MaxResume
      BY <1>1, <1>3 DEF RequestDelivery, TypeInv, BudgetLeft
    <3> QED
      BY <3>1 DEF Download, Requests
  <2>2. DeliverRequest(dl[c].tries, dl[c].offset) \in ControlMessage
    BY <2>1 DEF DeliverRequest, ControlMessage
  <2> QED
    BY <1>1, <1>3, <2>2 DEF RequestDelivery
<1>4. CASE control' \subseteq control \cup {DiscardOutput}
  BY <1>1, <1>2, <1>4
<1>5. ASSUME NEW c \in Clients, TaskStep(c)
      PROVE  RequestDelivery(c) \/ control' \subseteq control \cup {DiscardOutput}
  BY <1>5
  DEF TaskStep, Subscribe, RequestOffline, RequestBackpressured, DrainTimeout,
  DrainData, DrainComplete, DrainFailed, Persist, Finish, TransactionFails,
  DiscardAndExpire
<1>6. \/ \E c \in Clients : TaskStep(c)
      \/ control' \subseteq control \cup {DiscardOutput}
  BY DEF Next, vars, WorkerStep, Publish, ReportOutput, WorkerExpire,
  WorkerRestart, WorkerDiscards, Rot, WorkerDelivers, RecordOutput,
  DiscardWorkerOutputs, Elapse, ExpireDue, SessionDrop, SessionRegister,
  RemoteRestart, RpcStep, RpcStart, RpcChunk, RpcComplete, RpcError, RpcEnd,
  RequestStep, Lookup, BeginFails, Redirect, BeginDelivery, BeginAbandoned,
  ClientLeaves
<1> QED
  BY <1>3, <1>4, <1>5, <1>6

LEMMA RowNext == TypeInv /\ [Next]_vars =>
                   /\ state' \in {"absent", "available", "delivering"} \cup Terminal
                   /\ committed' \in 0 .. size' /\ due' \in BOOLEAN
<1> SUFFICES ASSUME TypeInv, [Next]_vars
             PROVE  /\ state' \in {"absent", "available", "delivering"} \cup Terminal
                    /\ committed' \in 0 .. size' /\ due' \in BOOLEAN
  OBVIOUS
<1>1. /\ state \in {"absent", "available", "delivering"} \cup Terminal
      /\ committed \in 0 .. size /\ due \in BOOLEAN /\ size' = size
      /\ dl \in [Clients -> Download]
  BY SizeFixed DEF TypeInv, TypeOK
<1>2. ASSUME NEW c \in Clients, TaskStep(c)
      PROVE  /\ state' \in {"absent", "available", "delivering"} \cup Terminal
             /\ committed' \in 0 .. size' /\ due' \in BOOLEAN
  <2>1. dl[c].offset \in 0 .. size
    BY <1>1 DEF Download
  <2>2. CASE Persist(c)
    BY <1>1, <2>1, <2>2 DEF Persist
  <2>3. CASE Finish(c)
    <3>1. FinalState(dl[c].pc) \in Terminal
      BY <2>3 DEF Finish, FinalState, Terminal
    <3> QED
      BY <1>1, <2>3, <3>1 DEF Finish
  <2> QED
    BY <1>1, <1>2, <2>2, <2>3
    DEF TaskStep, Subscribe, RequestDelivery, RequestOffline, RequestBackpressured,
    DrainTimeout, DrainData, DrainComplete, DrainFailed, TransactionFails, rowVars
<1>3. ASSUME NEW c \in Clients, RequestStep(c)
      PROVE  /\ state' \in {"absent", "available", "delivering"} \cup Terminal
             /\ committed' \in 0 .. size' /\ due' \in BOOLEAN
  <2>1. UNCHANGED state \/ state' = "delivering" \/ state' \in Terminal
    BY <1>3 DEF RequestStep, Lookup, BeginFails, Redirect, BeginDelivery,
    BeginAbandoned, ClientLeaves, rowVars, Terminal
  <2>2. UNCHANGED <<committed, due>>
    BY <1>3 DEF RequestStep, Lookup, BeginFails, Redirect, BeginDelivery,
    BeginAbandoned, ClientLeaves, rowVars
  <2> QED
    BY <1>1, <2>1, <2>2
<1>4. ASSUME NEW k \in Requests, RpcStep(k)
      PROVE  UNCHANGED <<state, committed, due>>
  BY <1>4 DEF RpcStep, RpcStart, RpcChunk, RpcComplete, RpcError, RpcEnd, rowVars
<1>5. ASSUME WorkerStep
      PROVE  /\ state' \in {"absent", "available", "delivering"} \cup Terminal
             /\ committed' \in 0 .. size' /\ due' \in BOOLEAN
  BY <1>1, <1>5 DEF WorkerStep, Publish, ReportOutput, WorkerExpire,
  WorkerRestart, WorkerDiscards, Rot, WorkerDelivers, rowVars
<1> QED
  BY <1>1, <1>2, <1>3, <1>4, <1>5
  DEF Next, vars, rowVars, RecordOutput, DiscardWorkerOutputs, Elapse,
  ExpireDue, SessionDrop, SessionRegister, RemoteRestart, Terminal

LEMMA WorkerNext == TypeInv /\ [Next]_vars =>
                      /\ store' \in {"none", "part", "data", "published"}
                      /\ rotten' \in 0 .. size' /\ stale' \in BOOLEAN
                      /\ result' \in {"none", "sent", "handled"}
                      /\ online' \in BOOLEAN /\ severed' \in BOOLEAN
                      /\ subscriber' \in Clients \cup {NoClient}
<1> SUFFICES ASSUME TypeInv, [Next]_vars
             PROVE  /\ store' \in {"none", "part", "data", "published"}
                    /\ rotten' \in 0 .. size' /\ stale' \in BOOLEAN
                    /\ result' \in {"none", "sent", "handled"}
                    /\ online' \in BOOLEAN /\ severed' \in BOOLEAN
                    /\ subscriber' \in Clients \cup {NoClient}
  OBVIOUS
<1>1. /\ store \in {"none", "part", "data", "published"}
      /\ rotten \in 0 .. size /\ stale \in BOOLEAN
      /\ result \in {"none", "sent", "handled"}
      /\ online \in BOOLEAN /\ severed \in BOOLEAN
      /\ subscriber \in Clients \cup {NoClient} /\ size' = size
  BY SizeFixed DEF TypeInv, TypeOK
<1>2. ASSUME NEW c \in Clients, TaskStep(c)
      PROVE  /\ UNCHANGED <<storeVars, online>>
             /\ severed' \in BOOLEAN /\ subscriber' \in Clients \cup {NoClient}
  BY <1>1, <1>2
  DEF TaskStep, Subscribe, RequestDelivery, RequestOffline, RequestBackpressured,
  DrainTimeout, DrainData, DrainComplete, DrainFailed, Persist, Finish,
  TransactionFails, EndDelivery, DiscardAndExpire
<1>3. CASE Rot
  <2>1. rotten' \in 0 .. size
    BY <1>3 DEF Rot
  <2> QED
    BY <1>1, <1>3, <2>1 DEF Rot
<1>4. CASE WorkerStep
  BY <1>1, <1>3, <1>4
  DEF WorkerStep, Publish, ReportOutput, WorkerExpire, WorkerRestart,
  ReconcileOnStartup, WorkerDiscards, WorkerDelivers, storeVars
<1>5. CASE RemoteRestart \/ SessionDrop \/ SessionRegister \/ Elapse
  BY <1>1, <1>5 DEF RemoteRestart, SessionDrop, SessionRegister, Elapse, storeVars
<1>6. CASE RecordOutput \/ DiscardWorkerOutputs \/ ExpireDue \/ UNCHANGED vars
  BY <1>1, <1>6 DEF RecordOutput, DiscardWorkerOutputs, ExpireDue, storeVars, vars
<1>7. ASSUME NEW k \in Requests, RpcStep(k)
      PROVE  UNCHANGED <<storeVars, online, severed, subscriber>>
  BY <1>7 DEF RpcStep, RpcStart, RpcChunk, RpcComplete, RpcError, RpcEnd
<1>8. ASSUME NEW c \in Clients, RequestStep(c)
      PROVE  /\ UNCHANGED <<storeVars, online, subscriber>> /\ severed' \in BOOLEAN
  BY <1>1, <1>8 DEF RequestStep, Lookup, BeginFails, Redirect, BeginDelivery,
  BeginAbandoned, ClientLeaves
<1> QED
  BY <1>1, <1>2, <1>4, <1>5, <1>6, <1>7, <1>8 DEF Next, storeVars

LEMMA TypeNext == TypeInv /\ [Next]_vars => TypeInv'
<1> SUFFICES ASSUME TypeInv, [Next]_vars PROVE TypeInv'
  OBVIOUS
<1>1. placement' \in Placements /\ size' \in Sizes
  BY SizeFixed DEF TypeInv, TypeOK
<1>2. /\ state' \in {"absent", "available", "delivering"} \cup Terminal
      /\ committed' \in 0 .. size' /\ due' \in BOOLEAN
  BY RowNext
<1>3. /\ store' \in {"none", "part", "data", "published"}
      /\ rotten' \in 0 .. size' /\ stale' \in BOOLEAN
      /\ result' \in {"none", "sent", "handled"}
      /\ online' \in BOOLEAN /\ severed' \in BOOLEAN
      /\ subscriber' \in Clients \cup {NoClient}
  BY WorkerNext
<1>4. /\ dl' \in [Clients -> Download'] /\ BudgetLeft'
      /\ channel' \in Seq(DeliveryChunk') /\ rpc' \in [Requests -> Call']
      /\ control' \subseteq ControlMessage'
  BY DownloadNext, ChannelNext, CallNext, ControlNext
<1> QED
  BY <1>1, <1>2, <1>3, <1>4, Zenon DEF TypeInv, TypeOK, Terminal

(***************************************************************************)
(* The states of Delivery are well typed: no DeliverRequest is numbered    *)
(* past the budget and no offset passes the declared size                  *)
(* (resume_attempts_exhausted, drain_worker_chunks).                       *)
(***************************************************************************)
THEOREM DeliveryTypeCorrect == Spec => []TypeOK
<1>1. TypeInv => TypeOK
  BY DEF TypeInv
<1> QED
  BY <1>1, TypeInit, TypeNext, PTL DEF Spec
-----------------------------------------------------------------------------
(***************************************************************************)
(* One delivery.  OneShot is not inductive: that no other client is served *)
(* when a download takes the row follows from the row being available, if  *)
(* whoever is served has taken it away from available for good, and that   *)
(* in turn needs the output to be recorded once.                           *)
(***************************************************************************)
RecordedOnce == result # "handled" => state = "absent"
TakenAway == \A c \in Clients : Served(c) => state \notin {"absent", "available"}
OneShotInv == RecordedOnce /\ TakenAway /\ OneShot

LEMMA OneShotInit == Init => OneShotInv
  BY DEF Init, OneShotInv, RecordedOnce, TakenAway, OneShot, Served, NoDownload,
  Streaming

LEMMA RecordedOnceNext == RecordedOnce /\ [Next]_vars => RecordedOnce'
<1> SUFFICES ASSUME RecordedOnce, [Next]_vars PROVE RecordedOnce'
  OBVIOUS
<1> USE DEF RecordedOnce
<1>1. ASSUME NEW c \in Clients, TaskStep(c)
      PROVE  result' = result /\ (state = "absent" => state' = "absent")
  BY <1>1
  DEF TaskStep, Subscribe, RequestDelivery, RequestOffline, RequestBackpressured,
  DrainTimeout, DrainData, DrainComplete, DrainFailed, Persist, Finish,
  ArtifactEdge, Terminal, TransactionFails, storeVars, rowVars
<1>2. ASSUME NEW c \in Clients, RequestStep(c)
      PROVE  result' = result /\ (state = "absent" => state' = "absent")
  BY <1>2
  DEF RequestStep, Lookup, BeginFails, Redirect, BeginDelivery, BeginAbandoned,
  ClientLeaves, CanBegin, storeVars, rowVars
<1>3. ASSUME NEW k \in Requests, RpcStep(k) PROVE UNCHANGED <<result, state>>
  BY <1>3 DEF RpcStep, RpcStart, RpcChunk, RpcComplete, RpcError, RpcEnd, storeVars,
  rowVars
<1>4. CASE WorkerStep
  BY <1>4 DEF WorkerStep, Publish, ReportOutput, WorkerExpire, WorkerRestart,
  WorkerDiscards, WorkerDelivers, Rot, storeVars, rowVars
<1> QED
  BY <1>1, <1>2, <1>3, <1>4
  DEF Next, vars, RecordOutput, DiscardWorkerOutputs, Elapse, ExpireDue,
  SessionDrop, SessionRegister, RemoteRestart, storeVars, rowVars

LEMMA OneShotNext == TypeInv /\ OneShotInv /\ [Next]_vars => OneShotInv'
<1> SUFFICES ASSUME TypeInv, OneShotInv, [Next]_vars PROVE (TakenAway /\ OneShot)'
  BY RecordedOnceNext DEF OneShotInv
<1>1. dl \in [Clients -> Download]
  BY DEF TypeInv, TypeOK
<1>2. ASSUME \A c \in Clients : Served(c)' => Served(c),
             state \notin {"absent", "available"} => state' \notin {"absent", "available"}
      PROVE  (TakenAway /\ OneShot)'
  BY <1>2 DEF OneShotInv, TakenAway, OneShot
<1>3. ASSUME NEW c \in Clients, state = "available",
             state' \notin {"absent", "available"},
             \A b \in Clients : Served(b)' => b = c \/ Served(b)
      PROVE  (TakenAway /\ OneShot)'
  BY <1>3 DEF OneShotInv, TakenAway, OneShot
<1>4. ASSUME UNCHANGED dl PROVE \A c \in Clients : Served(c)' <=> Served(c)
  BY <1>4 DEF Served
<1>5. ASSUME NEW c \in Clients, TaskStep(c) PROVE (TakenAway /\ OneShot)'
  <2>1. dl[c].pc \in Streaming
    BY <1>5
    DEF TaskStep, Subscribe, RequestDelivery, RequestOffline, RequestBackpressured,
    DrainTimeout, DrainData, DrainComplete, DrainFailed, Take, Persist, Finish,
    TransactionFails, Streaming
  <2>2. \/ UNCHANGED dl \/ \E d : dl' = [dl EXCEPT ![c] = d]
    <3>1. \/ UNCHANGED dl \/ \E d : dl' = [dl EXCEPT ![c] = d]
          \/ \E p : dl' = [dl EXCEPT ![c].pc = p]
      BY <1>5
      DEF TaskStep, Subscribe, RequestDelivery, RequestOffline,
      RequestBackpressured, DrainTimeout, DrainData, DrainComplete, DrainFailed,
      Persist, Finish, TransactionFails, EndDelivery, DiscardAndExpire
    <3> QED
      BY <1>1, <3>1
  <2>3. state \notin {"absent", "available"} => state' \notin {"absent", "available"}
    BY <1>5
    DEF TaskStep, Subscribe, RequestDelivery, RequestOffline, RequestBackpressured,
    DrainTimeout, DrainData, DrainComplete, DrainFailed, Persist, Finish,
    FinalState, TransactionFails, rowVars
  <2>4. \A b \in Clients : Served(b)' => Served(b)
    BY <1>1, <2>1, <2>2 DEF Served
  <2> QED
    BY <1>2, <2>3, <2>4
<1>6. ASSUME NEW c \in Clients, RequestStep(c) PROVE (TakenAway /\ OneShot)'
  <2>1. dl[c] \in Download
    BY <1>1
  <2>2. CASE Lookup(c)
    <3>1. Served(c)' => Served(c)
      BY <1>1, <2>1, <2>2 DEF Lookup, Served, Streaming, Download, Terminal
    <3>2. \A b \in Clients \ {c} : Served(b)' => Served(b)
      BY <1>1, <2>2 DEF Lookup, Served
    <3> QED
      BY <1>2, <2>2, <3>1, <3>2 DEF Lookup, rowVars
  <2>3. CASE BeginFails(c) \/ ClientLeaves(c)
    <3>1. Served(c)' => Served(c)
      BY <1>1, <2>1, <2>3 DEF BeginFails, ClientLeaves, Served, Streaming, Download
    <3>2. \A b \in Clients \ {c} : Served(b)' => Served(b)
      BY <1>1, <2>3 DEF BeginFails, ClientLeaves, Served
    <3> QED
      BY <1>2, <2>3, <3>1, <3>2 DEF BeginFails, ClientLeaves, rowVars
  <2>4. CASE Redirect(c) \/ BeginDelivery(c) \/ BeginAbandoned(c)
    <3>1. \A b \in Clients : Served(b)' => b = c \/ Served(b)
      BY <1>1, <2>4 DEF Redirect, BeginDelivery, BeginAbandoned, Served
    <3> QED
      BY <1>3, <2>4, <3>1 DEF Redirect, BeginDelivery, BeginAbandoned, CanBegin
  <2> QED
    BY <1>6, <2>2, <2>3, <2>4 DEF RequestStep
<1>7. CASE RemoteRestart
  <2>1. ASSUME NEW c \in Clients, Served(c)' PROVE Served(c)
    <3>1. CASE dl[c].pc \in Streaming
      BY <3>1 DEF Served
    <3>2. CASE dl[c].pc = "done"
      BY <1>7, <2>1, <3>2 DEF RemoteRestart, Served, Streaming
    <3>3. CASE dl[c].pc \notin Streaming \cup {"done"}
      BY <1>7, <2>1, <3>3 DEF RemoteRestart, Served, NoDownload, Streaming
    <3> QED
      BY <3>1, <3>2, <3>3
  <2> QED
    BY <1>2, <1>7, <2>1 DEF RemoteRestart, rowVars
<1>8. CASE RecordOutput
  BY <1>4, <1>8 DEF RecordOutput, OneShotInv, RecordedOnce, TakenAway, OneShot
<1>9. CASE ExpireDue
  BY <1>2, <1>4, <1>9 DEF ExpireDue
<1>10. CASE UNCHANGED <<state, dl>>
  BY <1>2, <1>4, <1>10
<1> QED
  BY <1>5, <1>6, <1>7, <1>8, <1>9, <1>10
  DEF Next, vars, rowVars, WorkerStep, Publish, ReportOutput, WorkerExpire,
  WorkerRestart, WorkerDiscards, Rot, WorkerDelivers, DiscardWorkerOutputs,
  Elapse, SessionDrop, SessionRegister, RpcStep, RpcStart, RpcChunk, RpcComplete,
  RpcError, RpcEnd

(***************************************************************************)
(* The bytes or the URL of an Artifact go to at most one client, for any   *)
(* number of clients racing for the row, across restarts of both           *)
(* processes, failed transactions and dropped handlers (begin_delivery).   *)
(***************************************************************************)
THEOREM OneShotCorrect == Spec => []OneShot
<1>1. OneShotInv => OneShot
  BY DEF OneShotInv
<1> QED
  BY <1>1, TypeInit, TypeNext, OneShotInit, OneShotNext, PTL DEF Spec
-----------------------------------------------------------------------------
(***************************************************************************)
(* What is offered is there.  The message that empties the store is sent   *)
(* only for an output that is not, and will not be, offered.               *)
(***************************************************************************)
DiscardFinal ==
  DiscardOutput \in control => result = "handled" /\ state # "available"
SentBacked ==
  result = "sent" /\ placement = "worker_local" /\ ~stale => store = "published"
BackedInv == DiscardFinal /\ SentBacked /\ AvailableBacked

LEMMA BackedInit == Init => BackedInv
  BY DEF Init, BackedInv, DiscardFinal, SentBacked, AvailableBacked

LEMMA BackedNext == TypeInv /\ OneShotInv /\ BackedInv /\ [Next]_vars => BackedInv'
<1> SUFFICES ASSUME TypeInv, OneShotInv, BackedInv, [Next]_vars PROVE BackedInv'
  OBVIOUS
<1> USE DEF BackedInv, DiscardFinal, SentBacked, AvailableBacked
<1>1. stale \in BOOLEAN /\ placement' = placement /\ RecordedOnce
      /\ result \in {"none", "sent", "handled"}
  BY SizeFixed DEF TypeInv, TypeOK, OneShotInv
<1>2. ASSUME NEW c \in Clients, TaskStep(c) PROVE BackedInv'
  <2>1. state \notin {"absent", "available"}
    BY <1>2
    DEF OneShotInv, TakenAway, Served, TaskStep, Subscribe, RequestDelivery,
    RequestOffline, RequestBackpressured, DrainTimeout, DrainData, DrainComplete,
    DrainFailed, Take, Persist, Finish, TransactionFails, Streaming
  <2>2. state' # "available"
    BY <1>2, <2>1
    DEF TaskStep, Subscribe, RequestDelivery, RequestOffline, RequestBackpressured,
    DrainTimeout, DrainData, DrainComplete, DrainFailed, Persist, Finish,
    FinalState, TransactionFails, rowVars
  <2>3. UNCHANGED storeVars
    BY <1>2
    DEF TaskStep, Subscribe, RequestDelivery, RequestOffline, RequestBackpressured,
    DrainTimeout, DrainData, DrainComplete, DrainFailed, Persist, Finish,
    TransactionFails
  <2> QED
    BY <1>1, <2>1, <2>2, <2>3 DEF storeVars, RecordedOnce
<1>3. ASSUME NEW c \in Clients, RequestStep(c) PROVE BackedInv'
  BY <1>3
  DEF RequestStep, Lookup, BeginFails, Redirect, BeginDelivery, BeginAbandoned,
  ClientLeaves, storeVars, rowVars
<1>4. CASE WorkerStep
  <2>1. ASSUME NEW m \in control, WorkerDelivers(m) PROVE BackedInv'
    BY <2>1 DEF WorkerDelivers, storeVars, rowVars
  <2> QED
    BY <1>1, <1>4, <2>1
    DEF WorkerStep, Publish, ReportOutput, WorkerExpire, WorkerRestart,
    ReconcileOnStartup, WorkerDiscards, Rot, storeVars, rowVars, RecordedOnce
<1>5. CASE RecordOutput
  BY <1>1, <1>5 DEF RecordOutput
<1>6. CASE DiscardWorkerOutputs
  BY <1>1, <1>6 DEF DiscardWorkerOutputs, rowVars, RecordedOnce
<1>7. CASE Elapse
  BY <1>1, <1>7 DEF Elapse
<1>8. CASE ExpireDue \/ SessionDrop \/ SessionRegister \/ RemoteRestart \/ UNCHANGED vars
  BY <1>8 DEF ExpireDue, SessionDrop, SessionRegister, RemoteRestart, storeVars,
  rowVars, vars
<1>9. ASSUME NEW k \in Requests, RpcStep(k) PROVE BackedInv'
  BY <1>9 DEF RpcStep, RpcStart, RpcChunk, RpcComplete, RpcError, RpcEnd, storeVars,
  rowVars
<1> QED
  BY <1>2, <1>3, <1>4, <1>5, <1>6, <1>7, <1>8, <1>9 DEF Next

(***************************************************************************)
(* An available row stored at the Worker, whose hour is not over there,    *)
(* has its bytes and manifest in the Worker's store, at whatever step of   *)
(* publish the Worker was restarted and whatever DiscardOutput arrives     *)
(* late (publish, reconcile_on_startup, discard_output).                   *)
(***************************************************************************)
THEOREM BackedCorrect == Spec => []AvailableBacked
<1>1. BackedInv => AvailableBacked
  BY DEF BackedInv
<1> QED
  BY <1>1, TypeInit, TypeNext, OneShotInit, OneShotNext, BackedInit, BackedNext, PTL
  DEF Spec
-----------------------------------------------------------------------------
(***************************************************************************)
(* The body of the response.  One source at a time fills the channel: a    *)
(* DeliverRequest or the call it led to.  What is in the channel goes on   *)
(* where the task is, and the source goes on where the channel ends, so a  *)
(* failure comes before the last chunk is held; when the task resumes,     *)
(* nothing is left of the call before.                                     *)
(***************************************************************************)
Active(k) == rpc[k].phase \notin {"none", "ended"}
Asks == {m \in control : m.kind = "deliver"}
Quiet == Asks = {} /\ \A k \in Requests : ~Active(k)
SingleSource ==
  /\ \A m, n \in Asks : m = n
  /\ \A k, l \in Requests : Active(k) /\ Active(l) => k = l
  /\ Asks # {} => \A k \in Requests : ~Active(k)

\* The channel and its source, for a task at offset o.
Flow(o) ==
  /\ \A i \in DOMAIN channel : channel[i].kind # "data" => i = Len(channel) /\ Quiet
  /\ size > 0 =>
       /\ \A i \in DOMAIN channel :
            /\ channel[i].kind = "data" => channel[i].chunk.n = o + i
            /\ channel[i].kind = "failed" => o + i <= size
       /\ \A m \in Asks : m.from = o + Len(channel) /\ m.from < size
       /\ \A k \in Requests : Active(k) =>
            /\ rpc[k].pos = o + Len(channel)
            /\ rpc[k].phase # "received" => rpc[k].pos < size

\* The row is not touched before the delivery, and is delivering during it.
RowInv ==
  /\ state \in {"absent", "available"} => committed = 0 /\ Quiet
  /\ \A c \in Clients : dl[c].pc \in Streaming => state = "delivering"

\* A download before its delivery has nothing.
FreshInv ==
  \A c \in Clients : dl[c].pc \in {"idle", "acquire", "redirect"} =>
    dl[c].offset = 0 /\ dl[c].held = NoChunk /\ dl[c].body = <<>> /\ dl[c].clean

\* The task's place: what it has relayed is recorded in the row.
Place(d) ==
  /\ d.pc \in {"subscribe", "request"} => d.held = NoChunk
  /\ d.pc \in {"subscribe", "request", "drain"} /\ d.held = NoChunk =>
       d.offset = committed /\ (size > 0 => d.offset < size)
  /\ d.pc = "drain" /\ d.held # NoChunk =>
       d.offset = size /\ d.held.n = size /\ size > 0
  /\ d.pc = "persist" => d.held = NoChunk /\ committed <= d.offset /\ d.offset < size

\* The source of the task's chunks.
Source(c) ==
  /\ dl[c].pc \in {"subscribe", "request"} => Quiet
  /\ dl[c].pc = "request" => subscriber = c /\ channel = <<>>
  /\ dl[c].pc \in {"drain", "persist"} =>
       subscriber = c /\ SingleSource /\ Flow(dl[c].offset)

\* The response so far, and the chunk held back.
Relayed(d) ==
  d.pc \in {"subscribe", "request", "drain", "persist"} =>
    /\ Len(d.body) = IF d.held = NoChunk THEN d.offset ELSE size - 1
    /\ d.clean => (\A i \in DOMAIN d.body : d.body[i].ok) /\ (d.held # NoChunk => d.held.ok)

\* A response that is complete, or not.
Exact(d) ==
  /\ \A i \in DOMAIN d.body : d.body[i].n = i
  /\ (d.body # <<>> /\ Len(d.body) = size) => \A i \in DOMAIN d.body : d.body[i].ok

PipeInv ==
  /\ RowInv /\ FreshInv
  /\ \A c \in Clients : Place(dl[c]) /\ Source(c) /\ Relayed(dl[c]) /\ Exact(dl[c])

\* How a download ends.
EndInv ==
  /\ \A c \in Clients : dl[c].pc # "done" => dl[c].end = "none"
  /\ ~severed => \A c \in Clients : Complete(c) =>
       /\ dl[c].end # "error"
       /\ \/ dl[c].pc \in {"persist_last", "consume"}
          \/ dl[c].pc = "done" /\ state = "consumed"

DeliveryInv == TypeInv /\ OneShotInv /\ PipeInv /\ EndInv

\* The facts every step uses.
LEMMA Facts ==
  ASSUME DeliveryInv
  PROVE  /\ size \in Nat /\ committed \in 0 .. size
         /\ dl \in [Clients -> Download] /\ rpc \in [Requests -> Call]
         /\ channel \in Seq(DeliveryChunk) /\ Len(channel) \in Nat
         /\ DOMAIN channel = 1 .. Len(channel)
         /\ control \subseteq ControlMessage
         /\ \A k \in Requests : rpc[k] \in Call /\ rpc[k].pos \in 0 .. size
         /\ \A c \in Clients : dl[c] \in Download /\ dl[c].offset \in 0 .. size
         /\ NoClient \notin Clients
<1>1. /\ size \in Nat /\ committed \in 0 .. size
      /\ dl \in [Clients -> Download] /\ rpc \in [Requests -> Call]
      /\ channel \in Seq(DeliveryChunk) /\ control \subseteq ControlMessage
  BY DEF DeliveryInv, TypeInv, TypeOK
<1>2. \A k \in Requests : rpc[k] \in Call /\ rpc[k].pos \in 0 .. size
  BY <1>1 DEF Call
<1>3. \A c \in Clients : dl[c] \in Download /\ dl[c].offset \in 0 .. size
  BY <1>1 DEF Download
<1> QED
  BY <1>1, <1>2, <1>3

\* The sources of chunks only lose something.
SourceLess ==
  /\ Asks' \subseteq Asks
  /\ \A k \in Requests : Active(k)' =>
       /\ Active(k) /\ rpc'[k].pos = rpc[k].pos
       /\ rpc[k].phase = "received" => rpc'[k].phase = "received"

\* Then every task still has its source.
LEMMA SourceKept ==
  ASSUME DeliveryInv, SourceLess, UNCHANGED <<dl, size, subscriber, channel>>
  PROVE  (Quiet => Quiet') /\ \A c \in Clients : Source(c)'
<1> USE Facts
<1>1. Quiet => Quiet'
  BY DEF SourceLess, Quiet
<1>2. SingleSource => SingleSource'
  BY DEF SourceLess, SingleSource
<1>3. ASSUME NEW o, Flow(o) PROVE Flow(o)'
  BY <1>1, <1>3 DEF SourceLess, Flow
<1>4. ASSUME NEW c \in Clients PROVE Source(c)'
  <2>1. Source(c) /\ dl'[c] = dl[c]
    BY DEF DeliveryInv, PipeInv
  <2>2. PICK o : o = dl[c].offset
    OBVIOUS
  <2>3. dl[c].pc \in {"drain", "persist"} => Flow(o)'
    BY <1>3, <2>1, <2>2 DEF Source
  <2>4. Flow(o)' => Flow(dl[c].offset)'
    BY <2>2, <2>1 DEF Flow
  <2> QED
    BY <1>1, <1>2, <2>1, <2>3, <2>4 DEF Source
<1> QED
  BY <1>1, <1>4

\* A step that touches no download.
LEMMA NoDownloadStep ==
  ASSUME DeliveryInv, SourceLess, UNCHANGED <<dl, size, committed, subscriber, channel>>,
         \/ UNCHANGED state
         \/ state = "absent" /\ state' = "available"
         \/ state = "available" /\ state' = "expired",
         severed' = severed
  PROVE  PipeInv' /\ EndInv'
<1> USE Facts
<1>1. (Quiet => Quiet') /\ \A c \in Clients : Source(c)'
  BY SourceKept
<1>2. RowInv'
  BY <1>1 DEF DeliveryInv, PipeInv, RowInv
<1>3. FreshInv'
  BY DEF DeliveryInv, PipeInv, FreshInv
<1>4. \A c \in Clients : Place(dl[c])' /\ Relayed(dl[c])' /\ Exact(dl[c])'
  BY DEF DeliveryInv, PipeInv, Place, Relayed, Exact
<1>5. EndInv'
  BY DEF DeliveryInv, EndInv, Complete
<1> QED
  BY <1>1, <1>2, <1>3, <1>4, <1>5 DEF PipeInv

\* The steps of the Worker and the session, but a delivery.
LEMMA OutsideStep ==
  ASSUME DeliveryInv,
         \/ Publish \/ ReportOutput \/ WorkerExpire \/ WorkerRestart \/ WorkerDiscards \/ Rot
         \/ RecordOutput \/ DiscardWorkerOutputs \/ Elapse \/ ExpireDue
         \/ SessionDrop \/ SessionRegister
  PROVE  PipeInv' /\ EndInv'
<1> USE Facts
<1>1. UNCHANGED <<dl, size, committed, subscriber, channel, severed>>
  BY DEF Publish, ReportOutput, WorkerExpire, WorkerRestart, WorkerDiscards, Rot,
         RecordOutput, DiscardWorkerOutputs, Elapse, ExpireDue, SessionDrop,
         SessionRegister, rowVars, storeVars
<1>2. \/ UNCHANGED state
      \/ state = "absent" /\ state' = "available"
      \/ state = "available" /\ state' = "expired"
  BY DEF Publish, ReportOutput, WorkerExpire, WorkerRestart, WorkerDiscards, Rot,
         RecordOutput, DiscardWorkerOutputs, Elapse, ExpireDue, SessionDrop,
         SessionRegister, rowVars, DeliveryInv, OneShotInv, RecordedOnce
<1>3. Asks' \subseteq Asks
  BY DEF Publish, ReportOutput, WorkerExpire, WorkerRestart, WorkerDiscards, Rot,
         RecordOutput, DiscardWorkerOutputs, Elapse, ExpireDue, SessionDrop,
         SessionRegister, Asks, DiscardOutput
<1>4. CASE UNCHANGED rpc
  <2>1. SourceLess
    BY <1>3, <1>4 DEF SourceLess, Active
  <2> QED
    BY <1>1, <1>2, <2>1, NoDownloadStep
<1>5. CASE WorkerRestart
  <2>1. \A k \in Requests :
          rpc'[k] = IF rpc[k].phase \in {"start", "stream"}
                    THEN [rpc[k] EXCEPT !.phase = "broken"] ELSE rpc[k]
    BY <1>5 DEF WorkerRestart
  <2>2. \A k \in Requests :
          /\ rpc'[k].pos = rpc[k].pos
          /\ \/ rpc'[k].phase = rpc[k].phase
             \/ rpc'[k].phase = "broken" /\ rpc[k].phase \in {"start", "stream"}
    BY <2>1 DEF Call
  <2>3. SourceLess
    BY <1>3, <2>2 DEF SourceLess, Active
  <2> QED
    BY <1>1, <1>2, <2>3, NoDownloadStep
<1> QED
  BY <1>4, <1>5 DEF Publish, ReportOutput, WorkerExpire, WorkerDiscards, Rot,
         RecordOutput, DiscardWorkerOutputs, Elapse, ExpireDue, SessionDrop,
         SessionRegister

\* A step of a source, which exists: it may fill the channel of the task that drains it.
LEMMA SourceStep ==
  ASSUME DeliveryInv, ~Quiet,
         UNCHANGED <<dl, size, committed, subscriber, state, severed>>,
         \A c \in Clients : \A o \in 0 .. size :
           subscriber = c /\ SingleSource /\ Flow(o) => SingleSource' /\ Flow(o)'
  PROVE  PipeInv' /\ EndInv'
<1> USE Facts
<1>1. /\ state \notin {"absent", "available"}
      /\ \A c \in Clients : dl[c].pc \notin {"subscribe", "request"}
  BY DEF DeliveryInv, PipeInv, RowInv, Source
<1>2. RowInv' /\ FreshInv'
  BY <1>1 DEF DeliveryInv, PipeInv, RowInv, FreshInv
<1>3. ASSUME NEW c \in Clients PROVE Source(c)'
  <2>1. Source(c) /\ dl'[c] = dl[c]
    BY DEF DeliveryInv, PipeInv
  <2>2. PICK o \in 0 .. size : o = dl[c].offset
    OBVIOUS
  <2>3. dl[c].pc \in {"drain", "persist"} => subscriber = c /\ SingleSource' /\ Flow(o)'
    BY <2>1, <2>2 DEF Source
  <2>4. Flow(o)' => Flow(dl[c].offset)'
    BY <2>2, <2>1 DEF Flow
  <2> QED
    BY <1>1, <2>1, <2>3, <2>4 DEF Source
<1>4. \A c \in Clients : Place(dl[c])' /\ Relayed(dl[c])' /\ Exact(dl[c])'
  BY DEF DeliveryInv, PipeInv, Place, Relayed, Exact
<1>5. EndInv'
  BY DEF DeliveryInv, EndInv, Complete
<1> QED
  BY <1>2, <1>3, <1>4, <1>5 DEF PipeInv

\* The Worker answers a DeliverRequest: the call takes the request's place.
LEMMA DeliversStep ==
  ASSUME DeliveryInv, NEW m \in control, WorkerDelivers(m)
  PROVE  PipeInv' /\ EndInv'
<1> USE Facts
<1>1. m \in Asks /\ Asks' = Asks \ {m} /\ m \in ControlMessage /\ m.k \in Requests
  BY DEF WorkerDelivers, Asks, ControlMessage
<1>2. UNCHANGED <<dl, size, committed, subscriber, channel, state, severed>>
  BY DEF WorkerDelivers, rowVars
<1>3. \A k \in Requests \ {m.k} : rpc'[k] = rpc[k]
  BY <1>1 DEF WorkerDelivers
<1>4. /\ rpc'[m.k].pos = m.from /\ rpc'[m.k].phase = "start"
      \/ rpc'[m.k].phase = "ended"
  BY <1>1 DEF WorkerDelivers, NoCall
<1>5. ASSUME NEW c \in Clients, NEW o \in 0 .. size, SingleSource, Flow(o)
      PROVE  SingleSource' /\ Flow(o)'
  <2>1. Asks' = {} /\ \A k \in Requests : ~Active(k)
    BY <1>1, <1>5 DEF SingleSource
  <2>2. \A k \in Requests : Active(k)' => k = m.k /\ rpc'[k].phase = "start" /\ rpc'[k].pos = m.from
    BY <1>3, <1>4, <2>1 DEF Active
  <2>3. \A i \in DOMAIN channel : channel[i].kind = "data"
    BY <1>1, <1>5 DEF Flow, Quiet
  <2> QED
    BY <1>1, <1>2, <1>5, <2>1, <2>2, <2>3 DEF SingleSource, Flow
<1> QED
  BY <1>1, <1>2, <1>5, SourceStep DEF Quiet

\* A step of a call.
LEMMA CallStep ==
  ASSUME DeliveryInv, NEW k \in Requests, RpcStep(k)
  PROVE  PipeInv' /\ EndInv'
<1> USE Facts
<1>1. /\ UNCHANGED <<dl, size, committed, subscriber, state, severed>> /\ Asks' = Asks
      /\ \A l \in Requests \ {k} : rpc'[l] = rpc[l]
  BY DEF RpcStep, RpcStart, RpcChunk, RpcComplete, RpcError, RpcEnd, rowVars, Asks
<1>2. Active(k) /\ ~Quiet
  BY DEF RpcStep, RpcStart, RpcChunk, RpcComplete, RpcError, RpcEnd, Active, Quiet
<1>3. CASE RpcStart(k) \/ RpcError(k)
  <2>1. rpc[k].phase # "received" /\ rpc'[k].pos = rpc[k].pos
    BY <1>3 DEF RpcStart, RpcError, Call
  <2>2. SourceLess
    BY <1>1, <1>2, <2>1 DEF SourceLess, Active
  <2> QED
    BY <1>1, <1>3, <2>2, NoDownloadStep DEF RpcStart, RpcError
<1>4. ASSUME SingleSource
      PROVE  Asks = {} /\ Asks' = {} /\ \A l \in Requests : l # k => ~Active(l) /\ ~Active(l)'
  BY <1>1, <1>2, <1>4 DEF SingleSource, Active
<1>5. ASSUME NEW o, Flow(o) PROVE \A i \in DOMAIN channel : channel[i].kind = "data"
  BY <1>2, <1>5 DEF Flow
<1>6. CASE RpcChunk(k)
  <2>1. ASSUME NEW c \in Clients, NEW o \in 0 .. size, subscriber = c, SingleSource, Flow(o)
        PROVE  SingleSource' /\ Flow(o)'
    <3>1. PICK e : e = [kind |-> "data", chunk |-> NextChunk(rpc[k])]
      OBVIOUS
    <3>2. channel' = Append(channel, e)
      BY <1>6, <2>1, <3>1 DEF RpcChunk, Push
    <3>3. /\ Len(channel') = Len(channel) + 1 /\ DOMAIN channel' = 1 .. Len(channel) + 1
          /\ \A i \in 1 .. Len(channel) : channel'[i] = channel[i]
          /\ channel'[Len(channel) + 1] = e
      BY <3>2
    <3>4. /\ rpc'[k].pos = Following(rpc[k])
          /\ rpc'[k].phase = IF Following(rpc[k]) = size THEN "received" ELSE "stream"
      BY <1>6, <2>1 DEF RpcChunk, Call
    <3>5. size > 0 => rpc[k].pos = o + Len(channel) /\ rpc[k].pos < size
      BY <1>2, <1>6, <2>1 DEF Flow, RpcChunk
    <3>6. size > 0 => e.chunk.n = o + Len(channel) + 1 /\ Following(rpc[k]) = o + Len(channel) + 1
      BY <3>1, <3>5 DEF NextChunk, Following
    <3>7. \A i \in DOMAIN channel' : channel'[i].kind = "data"
      <4>1. e.kind = "data"
        BY <3>1
      <4>2. \A i \in DOMAIN channel : channel[i].kind = "data"
        BY <1>5, <2>1
      <4> QED
        BY <3>3, <4>1, <4>2
    <3>8. size > 0 => \A i \in DOMAIN channel' : channel'[i].chunk.n = o + i
      <4> SUFFICES ASSUME size > 0, NEW i \in DOMAIN channel' PROVE channel'[i].chunk.n = o + i
        OBVIOUS
      <4>1. CASE i \in DOMAIN channel
        BY <1>5, <2>1, <3>3, <4>1 DEF Flow
      <4>2. CASE i = Len(channel) + 1
        BY <3>3, <3>6, <4>2
      <4> QED
        BY <3>3, <4>1, <4>2
    <3>9. SingleSource'
      BY <1>4, <2>1 DEF SingleSource
    <3>10. size > 0 => \A l \in Requests : Active(l)' =>
             /\ rpc'[l].pos = o + Len(channel')
             /\ rpc'[l].phase # "received" => rpc'[l].pos < size
      BY <1>4, <2>1, <3>3, <3>4, <3>5, <3>6
    <3> QED
      BY <1>1, <1>4, <2>1, <3>7, <3>8, <3>9, <3>10 DEF Flow
  <2> QED
    BY <1>1, <1>2, <2>1, SourceStep
<1>7. CASE RpcComplete(k) \/ RpcEnd(k)
  <2>1. ASSUME NEW c \in Clients, NEW o \in 0 .. size, subscriber = c, SingleSource, Flow(o)
        PROVE  SingleSource' /\ Flow(o)'
    <3>1. PICK e : e = [kind |-> IF RpcComplete(k) THEN "complete" ELSE "failed",
                        chunk |-> NoChunk]
      OBVIOUS
    <3>2. channel' = Append(channel, e)
      BY <1>7, <2>1, <3>1 DEF RpcComplete, RpcEnd, Push
    <3>3. /\ Len(channel') = Len(channel) + 1 /\ DOMAIN channel' = 1 .. Len(channel) + 1
          /\ \A i \in 1 .. Len(channel) : channel'[i] = channel[i]
          /\ channel'[Len(channel) + 1] = e
      BY <3>2
    <3>4. ~Active(k)'
      BY <1>7 DEF RpcComplete, RpcEnd, Active, Call
    <3>5. Quiet' /\ SingleSource'
      BY <1>4, <2>1, <3>4 DEF SingleSource, Quiet
    <3>6. size > 0 /\ e.kind = "failed" => o + Len(channel) + 1 <= size
      <4>1. CASE RpcComplete(k)
        BY <3>1, <4>1
      <4>2. CASE RpcEnd(k)
        <5>1. rpc[k].phase # "received"
          BY <4>2 DEF RpcEnd
        <5> QED
          BY <1>2, <2>1, <5>1 DEF Flow
      <4> QED
        BY <1>7, <4>1, <4>2
    <3>7. e.kind # "data"
      BY <3>1
    <3>8. ASSUME NEW i \in DOMAIN channel'
          PROVE  /\ channel'[i].kind # "data" => i = Len(channel')
                 /\ size > 0 /\ channel'[i].kind = "data" => channel'[i].chunk.n = o + i
                 /\ size > 0 /\ channel'[i].kind = "failed" => o + i <= size
      <4>1. CASE i \in DOMAIN channel
        BY <1>5, <2>1, <3>3, <4>1 DEF Flow
      <4>2. CASE i = Len(channel) + 1
        BY <3>3, <3>6, <3>7, <4>2
      <4> QED
        BY <3>3, <4>1, <4>2
    <3>9. Asks' = {} /\ \A l \in Requests : ~Active(l)'
      BY <3>5 DEF Quiet
    <3> QED
      BY <1>1, <3>5, <3>8, <3>9 DEF Flow
  <2> QED
    BY <1>1, <1>2, <2>1, SourceStep
<1> QED
  BY <1>3, <1>6, <1>7 DEF RpcStep

\* A step of one download: it keeps its own place, and either nothing the
\* others depend on changes or none of them is served.
LEMMA OneDownload ==
  ASSUME DeliveryInv, NEW c \in Clients, NEW d \in Download,
         dl' = [dl EXCEPT ![c] = d], size' = size,
         \/ UNCHANGED <<state, committed, subscriber, channel, control, rpc, severed>>
         \/ \A b \in Clients \ {c} : ~Served(b),
         state' \in {"absent", "available"} =>
           UNCHANGED <<state, committed, control, rpc>>,
         d.pc \in Streaming => state' = "delivering",
         d.pc \in {"idle", "acquire", "redirect"} =>
           d.offset = 0 /\ d.held = NoChunk /\ d.body = <<>> /\ d.clean,
         Place(d)', Source(c)', Relayed(d), Exact(d),
         d.pc # "done" => d.end = "none",
         ~severed' /\ size > 0 /\ Len(d.body) = size =>
           /\ d.end # "error"
           /\ \/ d.pc \in {"persist_last", "consume"}
              \/ d.pc = "done" /\ state' = "consumed"
  PROVE  PipeInv' /\ EndInv'
<1> USE Facts
<1>1. dl'[c] = d /\ \A b \in Clients \ {c} : dl'[b] = dl[b]
  OBVIOUS
<1>2. \A b \in Clients \ {c} : ~Served(b) =>
        /\ dl[b].pc \notin Streaming /\ dl[b].body = <<>>
        /\ dl[b].pc \notin {"subscribe", "request", "drain", "persist"}
  BY DEF Served, Streaming
<1>3. RowInv'
  <2>1. state' \in {"absent", "available"} => committed' = 0 /\ Quiet'
    BY DEF DeliveryInv, PipeInv, RowInv, Quiet, Asks, Active
  <2>2. ASSUME NEW b \in Clients, dl'[b].pc \in Streaming PROVE state' = "delivering"
    BY <1>1, <1>2, <2>2 DEF DeliveryInv, PipeInv, RowInv
  <2> QED
    BY <2>1, <2>2 DEF RowInv
<1>4. FreshInv'
  BY <1>1 DEF DeliveryInv, PipeInv, FreshInv, NoChunk
<1>5. /\ Place(dl[c])' /\ Relayed(dl[c])' /\ Exact(dl[c])'
  <2>1. Place(dl[c])'
    BY <1>1 DEF Place
  <2>2. Relayed(dl[c])'
    BY <1>1 DEF Relayed
  <2>3. Exact(dl[c])'
    BY <1>1 DEF Exact
  <2> QED
    BY <2>1, <2>2, <2>3
<1>6. ASSUME NEW b \in Clients \ {c}
      PROVE  Place(dl[b])' /\ Source(b)' /\ Relayed(dl[b])' /\ Exact(dl[b])'
  <2>1. Place(dl[b]) /\ Source(b) /\ Relayed(dl[b]) /\ Exact(dl[b]) /\ dl'[b] = dl[b]
    BY <1>1 DEF DeliveryInv, PipeInv
  <2>2. Relayed(dl[b])'
    BY <2>1 DEF Relayed
  <2>3. Exact(dl[b])'
    BY <2>1 DEF Exact
  <2>4. CASE ~Served(b)
    BY <1>2, <2>1, <2>2, <2>3, <2>4 DEF Place, Source
  <2>5. CASE UNCHANGED <<state, committed, subscriber, channel, control, rpc, severed>>
    <3>1. Place(dl[b])'
      BY <2>1, <2>5 DEF Place
    <3>2. (Quiet <=> Quiet') /\ (SingleSource <=> SingleSource')
      BY <2>5 DEF Quiet, SingleSource, Asks, Active
    <3>3. Flow(dl[b].offset) => Flow(dl[b].offset)'
      BY <2>1, <2>5, <3>2 DEF Flow, Asks, Active
    <3>4. Source(b)'
      BY <2>1, <2>5, <3>2, <3>3 DEF Source
    <3> QED
      BY <2>2, <2>3, <3>1, <3>4
  <2> QED
    BY <2>4, <2>5
<1>7. EndInv'
  <2>1. \A b \in Clients : dl'[b].pc # "done" => dl'[b].end = "none"
    BY <1>1 DEF DeliveryInv, EndInv
  <2>2. ASSUME ~severed', NEW b \in Clients, Complete(b)'
        PROVE  /\ dl'[b].end # "error"
               /\ \/ dl'[b].pc \in {"persist_last", "consume"}
                  \/ dl'[b].pc = "done" /\ state' = "consumed"
    <3>1. CASE b = c
      BY <1>1, <2>2, <3>1 DEF Complete
    <3>2. CASE b # c /\ ~Served(b)
      BY <1>1, <1>2, <2>2, <3>2 DEF Complete
    <3>3. CASE b # c /\ UNCHANGED <<state, severed>>
      BY <1>1, <2>2, <3>3 DEF DeliveryInv, EndInv, Complete
    <3> QED
      BY <3>1, <3>2, <3>3
  <2> QED
    BY <2>1, <2>2 DEF EndInv
<1> QED
  BY <1>3, <1>4, <1>5, <1>6, <1>7 DEF PipeInv

\* A step that leaves the fields of the stream alone.
SameStream(d, e) ==
  /\ e.offset = d.offset /\ e.held = d.held /\ e.body = d.body /\ e.clean = d.clean
LEMMA PcFields ==
  ASSUME NEW d \in Download,
         NEW p \in {"idle", "acquire", "redirect", "done"} \cup Streaming
  PROVE  /\ [d EXCEPT !.pc = p] \in Download /\ [d EXCEPT !.pc = p].pc = p
         /\ [d EXCEPT !.pc = p].end = d.end /\ [d EXCEPT !.pc = p].open = d.open
         /\ SameStream(d, [d EXCEPT !.pc = p])
  BY DEF Download, SameStream

LEMMA SourceSame ==
  ASSUME DeliveryInv, NEW c \in Clients, UNCHANGED <<size, subscriber, channel, control, rpc>>,
         \/ dl'[c].pc = dl[c].pc
         \/ dl'[c].pc = "drain" /\ dl[c].pc = "persist",
         dl'[c].offset = dl[c].offset
  PROVE  (Quiet => Quiet') /\ Source(c)'
<1>1. Source(c)
  BY DEF DeliveryInv, PipeInv
<1>2. (Quiet <=> Quiet') /\ (SingleSource <=> SingleSource')
  BY DEF Quiet, SingleSource, Asks, Active
<1>3. Flow(dl[c].offset) => Flow(dl[c].offset)'
  BY <1>2 DEF Flow, Asks, Active
<1> QED
  BY <1>1, <1>2, <1>3 DEF Source

\* A step of the download request.
LEMMA RequestKeeps ==
  ASSUME DeliveryInv, NEW c \in Clients, RequestStep(c)
  PROVE  PipeInv' /\ EndInv'
<1> USE Facts
<1>1. dl[c].pc # "done"
  BY DEF RequestStep, Lookup, BeginFails, Redirect, BeginDelivery, BeginAbandoned,
         ClientLeaves, Streaming
<1>2. dl[c].end = "none"
  BY <1>1 DEF DeliveryInv, EndInv
<1>3. /\ UNCHANGED <<size, committed, subscriber, channel, control, rpc>>
      /\ (Quiet => Quiet')
  BY DEF RequestStep, Lookup, BeginFails, Redirect, BeginDelivery, BeginAbandoned,
         ClientLeaves, rowVars, Quiet, Asks, Active
<1>4. ASSUME dl[c].pc \in {"idle", "acquire", "redirect"}
      PROVE  dl[c].offset = 0 /\ dl[c].held = NoChunk /\ dl[c].body = <<>> /\ dl[c].clean
  BY <1>4 DEF DeliveryInv, PipeInv, FreshInv
<1>5. ASSUME state = "available" PROVE committed = 0 /\ Quiet /\ \A b \in Clients : ~Served(b)
  BY <1>5 DEF DeliveryInv, PipeInv, RowInv, OneShotInv, TakenAway
<1>6. ASSUME NEW d \in Download, d.body = <<>> PROVE Exact(d)
  BY <1>6 DEF Exact
<1>7. ASSUME NEW d \in Download, d.pc \in {"idle", "acquire", "redirect", "done"}
      PROVE  /\ Place(d)' /\ Relayed(d) /\ d.pc \notin Streaming
             /\ dl' = [dl EXCEPT ![c] = d] => Source(c)'
  BY <1>7 DEF Place, Relayed, Source, Streaming
<1>8. CASE Lookup(c) /\ state = "available"
  <2>1. PICK p \in {"redirect", "acquire"} :
          dl' = [dl EXCEPT ![c].offset = committed, ![c].pc = p]
    BY <1>8 DEF Lookup, Terminal
  <2>d. PICK d : d = [dl[c] EXCEPT !.offset = committed, !.pc = p]
    OBVIOUS
  <2>2. /\ d \in Download /\ d.pc = p /\ d.offset = committed /\ d.held = dl[c].held
        /\ d.body = dl[c].body /\ d.clean = dl[c].clean /\ d.end = dl[c].end
    BY <2>d DEF Download, Streaming
  <2>3. dl' = [dl EXCEPT ![c] = d]
    BY <2>d, <2>1
  <2>4. dl[c].pc = "idle" /\ UNCHANGED <<state, severed>>
    BY <1>8 DEF Lookup, rowVars
  <2>5. d.body = <<>> /\ d.offset = 0 /\ d.held = NoChunk /\ d.clean /\ (size > 0 => Len(d.body) # size)
    BY <1>4, <1>5, <1>8, <2>2, <2>4
  <2>6. Exact(d) /\ Place(d)' /\ Relayed(d) /\ d.pc \notin Streaming /\ Source(c)'
    BY <1>6, <1>7, <2>2, <2>3, <2>5
  <2> QED
    BY <1>2, <1>3, <2>2, <2>3, <2>4, <2>5, <2>6, OneDownload
<1>9. CASE \/ Lookup(c) /\ state # "available"
           \/ Redirect(c)
  <2>1. PICK e \in {"gone", "redirected"} :
          dl' = [dl EXCEPT ![c].pc = "done", ![c].end = e]
    BY <1>9 DEF Lookup, Redirect
  <2>d. PICK d : d = [dl[c] EXCEPT !.pc = "done", !.end = e]
    OBVIOUS
  <2>2. /\ d \in Download /\ d.pc = "done" /\ d.body = dl[c].body
    BY <2>d DEF Download
  <2>3. dl' = [dl EXCEPT ![c] = d]
    BY <2>d, <2>1
  <2>4. dl[c].pc \in {"idle", "redirect"}
    BY <1>9 DEF Lookup, Redirect
  <2>5. d.body = <<>> /\ (size > 0 => Len(d.body) # size)
    BY <1>4, <2>2, <2>4
  <2>6. Exact(d) /\ Place(d)' /\ Relayed(d) /\ d.pc \notin Streaming /\ Source(c)'
    BY <1>6, <1>7, <2>2, <2>3, <2>5
  <2>7. /\ \/ UNCHANGED <<state, severed>>
           \/ \A b \in Clients \ {c} : ~Served(b)
        /\ state' \in {"absent", "available"} => UNCHANGED state
    BY <1>5, <1>9 DEF Lookup, Redirect, CanBegin, rowVars
  <2> QED
    BY <1>3, <2>2, <2>3, <2>5, <2>6, <2>7, OneDownload
<1>10. CASE BeginFails(c)
  <2>d. PICK d : d = [dl[c] EXCEPT !.pc = "idle"]
    OBVIOUS
  <2>1. d \in Download /\ d.pc = "idle" /\ d.end = dl[c].end /\ SameStream(dl[c], d)
    BY <2>d, PcFields
  <2>2. dl' = [dl EXCEPT ![c] = d] /\ UNCHANGED <<state, severed>>
    BY <2>d, <1>10 DEF BeginFails, rowVars
  <2>3. d.body = <<>> /\ d.offset = 0 /\ d.held = NoChunk /\ d.clean /\ (size > 0 => Len(d.body) # size)
    BY <1>4, <1>10, <2>1 DEF SameStream, BeginFails
  <2>4. Exact(d) /\ Place(d)' /\ Relayed(d) /\ d.pc \notin Streaming /\ Source(c)'
    BY <1>6, <1>7, <2>1, <2>2, <2>3
  <2> QED
    BY <1>2, <1>3, <2>1, <2>2, <2>3, <2>4, OneDownload
<1>11. CASE BeginDelivery(c)
  <2>d. PICK d : d = [dl[c] EXCEPT !.pc = "subscribe"]
    OBVIOUS
  <2>1. d \in Download /\ d.pc = "subscribe" /\ d.end = dl[c].end /\ SameStream(dl[c], d)
    BY <2>d, PcFields DEF Streaming
  <2>2. dl' = [dl EXCEPT ![c] = d] /\ state = "available" /\ state' = "delivering"
    BY <2>d, <1>11 DEF BeginDelivery, CanBegin
  <2>3. d.body = <<>> /\ d.offset = 0 /\ d.held = NoChunk /\ d.clean /\ (size > 0 => Len(d.body) # size)
    BY <1>4, <1>11, <2>1 DEF SameStream, BeginDelivery
  <2>4. committed' = 0 /\ Quiet' /\ \A b \in Clients : ~Served(b)
    BY <1>3, <1>5, <2>2
  <2>5. Place(d)'
    BY <1>3, <2>1, <2>3, <2>4 DEF Place
  <2>6. Relayed(d) /\ Exact(d)
    BY <1>6, <2>1, <2>3 DEF Relayed
  <2>7. Source(c)'
    BY <2>1, <2>2, <2>4 DEF Source
  <2> QED
    BY <1>2, <1>3, <2>1, <2>2, <2>3, <2>4, <2>5, <2>6, <2>7, OneDownload
<1>12. CASE BeginAbandoned(c)
  <2>d. PICK d : d = LeftAt(dl[c])
    OBVIOUS
  <2>1. d \in Download /\ d.pc = "done" /\ d.body = dl[c].body
    BY <2>d DEF LeftAt, Download
  <2>2. dl' = [dl EXCEPT ![c] = d] /\ state = "available" /\ state' = "delivering"
    BY <2>d, <1>12 DEF BeginAbandoned, CanBegin, LeftAt
  <2>3. d.body = <<>> /\ (size > 0 => Len(d.body) # size)
    BY <1>4, <1>12, <2>1 DEF BeginAbandoned
  <2>4. Exact(d) /\ Place(d)' /\ Relayed(d) /\ d.pc \notin Streaming /\ Source(c)'
    BY <1>6, <1>7, <2>1, <2>2, <2>3
  <2> QED
    BY <1>3, <1>5, <2>1, <2>2, <2>3, <2>4, OneDownload
<1>13. CASE ClientLeaves(c)
  <2>d. PICK d : d = [dl[c] EXCEPT !.open = FALSE]
    OBVIOUS
  <2>1. /\ d \in Download /\ d.pc = dl[c].pc /\ d.end = dl[c].end
        /\ d.offset = dl[c].offset /\ d.held = dl[c].held /\ d.body = dl[c].body
        /\ d.clean = dl[c].clean
    BY <2>d DEF Download
  <2>2. dl' = [dl EXCEPT ![c] = d] /\ UNCHANGED <<state, severed>> /\ dl[c].pc \in Streaming
    BY <2>d, <1>13 DEF ClientLeaves, rowVars
  <2>3. Place(dl[c]) /\ Relayed(dl[c]) /\ Exact(dl[c])
    BY DEF DeliveryInv, PipeInv
  <2>4. Place(d)'
    BY <1>3, <2>1, <2>3 DEF Place, NoChunk
  <2>5. Relayed(d) /\ Exact(d)
    BY <2>1, <2>3 DEF Relayed, Exact
  <2>6. Source(c)'
    <3>1. dl'[c].pc = dl[c].pc /\ dl'[c].offset = dl[c].offset
      BY <2>1, <2>2
    <3>2. UNCHANGED <<size, subscriber, channel, control, rpc>>
      BY <1>3
    <3> QED
      BY <3>1, <3>2, SourceSame
  <2>7. state' = "delivering" /\ d.pc \notin {"idle", "acquire", "redirect", "done"}
    BY <2>1, <2>2 DEF DeliveryInv, PipeInv, RowInv, Streaming
  <2>8. ~severed /\ size > 0 /\ Len(d.body) = size => d.pc \in {"persist_last", "consume"}
    BY <2>1, <2>7 DEF DeliveryInv, EndInv, Complete
  <2> QED
    BY <1>2, <1>3, <2>1, <2>2, <2>4, <2>5, <2>6, <2>7, <2>8, OneDownload
<1> QED
  BY <1>8, <1>9, <1>10, <1>11, <1>12, <1>13 DEF RequestStep

\* The task is the only download that is served, and its row is delivering.
LEMMA TaskAlone ==
  ASSUME DeliveryInv, NEW c \in Clients, dl[c].pc \in Streaming
  PROVE  /\ state = "delivering" /\ dl[c].end = "none"
         /\ \A b \in Clients \ {c} : ~Served(b)
         /\ Place(dl[c]) /\ Source(c) /\ Relayed(dl[c]) /\ Exact(dl[c])
         /\ ~severed /\ size > 0 /\ Len(dl[c].body) = size =>
              dl[c].pc \in {"persist_last", "consume"}
<1>1. state = "delivering" /\ Place(dl[c]) /\ Source(c) /\ Relayed(dl[c]) /\ Exact(dl[c])
  BY DEF DeliveryInv, PipeInv, RowInv
<1>2. dl[c].pc # "done" /\ Served(c)
  BY DEF Streaming, Served
<1>3. dl[c].end = "none"
  BY <1>2 DEF DeliveryInv, EndInv
<1>4. \A b \in Clients \ {c} : ~Served(b)
  BY <1>2 DEF DeliveryInv, OneShotInv, OneShot
<1>5. ~severed /\ size > 0 /\ Len(dl[c].body) = size => dl[c].pc \in {"persist_last", "consume"}
  BY <1>2 DEF DeliveryInv, EndInv, Complete
<1> QED
  BY <1>1, <1>3, <1>4, <1>5

\* The task goes on.
LEMMA TaskTo ==
  ASSUME DeliveryInv, NEW c \in Clients, NEW d \in Download, dl[c].pc \in Streaming,
         dl' = [dl EXCEPT ![c] = d], UNCHANGED <<size, state>>, d.pc \in Streaming,
         Place(d)', Source(c)', Relayed(d), Exact(d), d.end = dl[c].end,
         ~severed' /\ size > 0 /\ Len(d.body) = size => d.pc \in {"persist_last", "consume"}
  PROVE  PipeInv' /\ EndInv'
<1>1. /\ state = "delivering" /\ dl[c].end = "none"
      /\ \A b \in Clients \ {c} : ~Served(b)
  BY TaskAlone
<1>2. d.pc \notin {"idle", "acquire", "redirect", "done"}
  BY DEF Streaming
<1> QED
  BY <1>1, <1>2, OneDownload

\* The task gives up, with no byte more.
LEMMA TaskOver ==
  ASSUME DeliveryInv, NEW c \in Clients, NEW d \in Download, dl[c].pc \in Streaming,
         dl' = [dl EXCEPT ![c] = d], UNCHANGED <<size, state>>, d.pc \in {"lost", "expire"},
         d.body = dl[c].body, d.end = dl[c].end,
         \/ severed' = severed /\ dl[c].pc \notin {"persist_last", "consume"}
         \/ severed'
  PROVE  PipeInv' /\ EndInv'
<1>1. /\ Exact(dl[c])
      /\ ~severed /\ size > 0 /\ Len(dl[c].body) = size => dl[c].pc \in {"persist_last", "consume"}
  BY TaskAlone
<1>2. Place(d)' /\ Relayed(d) /\ d.pc \in Streaming
  BY DEF Place, Relayed, Streaming
<1>3. dl'[c] = d
  BY Facts
<1>4. Source(c)'
  BY <1>3 DEF Source
<1>5. Exact(d)
  BY <1>1 DEF Exact
<1>6. ~severed' /\ size > 0 => Len(d.body) # size
  BY <1>1
<1> QED
  BY <1>2, <1>4, <1>5, <1>6, TaskTo

\* What the task takes from its channel moves its place.
LEMMA FlowShift ==
  ASSUME DeliveryInv, channel # <<>>, channel' = Tail(channel), UNCHANGED <<size, control, rpc>>,
         NEW o \in 0 .. size, Flow(o), size > 0
  PROVE  Flow(o + 1)'
<1> USE Facts
<1>1. /\ Len(channel') = Len(channel) - 1 /\ DOMAIN channel' = 1 .. Len(channel) - 1
      /\ \A i \in 1 .. Len(channel) - 1 : channel'[i] = channel[i + 1]
      /\ \A i \in 1 .. Len(channel) - 1 : i + 1 \in DOMAIN channel
  OBVIOUS
<1>2. (Quiet => Quiet') /\ Asks' = Asks /\ \A k \in Requests : Active(k)' = Active(k)
  BY DEF Quiet, Asks, Active
<1>3. ASSUME NEW i \in DOMAIN channel'
      PROVE  /\ channel'[i].kind # "data" => i = Len(channel') /\ Quiet'
             /\ channel'[i].kind = "data" => channel'[i].chunk.n = (o + 1) + i
             /\ channel'[i].kind = "failed" => (o + 1) + i <= size
  BY <1>1, <1>2, <1>3 DEF Flow
<1>4. /\ \A m \in Asks' : m.from = (o + 1) + Len(channel') /\ m.from < size
      /\ \A k \in Requests : Active(k)' =>
           /\ rpc'[k].pos = (o + 1) + Len(channel')
           /\ rpc'[k].phase # "received" => rpc'[k].pos < size
  BY <1>1, <1>2 DEF Flow
<1> QED
  BY <1>3, <1>4 DEF Flow

LEMMA SubscribeKeeps ==
  ASSUME DeliveryInv, NEW c \in Clients, Subscribe(c) PROVE PipeInv' /\ EndInv'
<1> USE Facts
<1>1. dl[c].pc = "subscribe" /\ dl[c].pc \in Streaming
  BY DEF Subscribe, Streaming
<1>2. PICK d : d = [dl[c] EXCEPT !.pc = "request"]
  OBVIOUS
<1>3. d \in Download /\ d.pc = "request" /\ d.end = dl[c].end /\ SameStream(dl[c], d)
  BY <1>2, PcFields DEF Streaming
<1>4. /\ dl' = [dl EXCEPT ![c] = d] /\ subscriber' = c /\ channel' = <<>>
      /\ UNCHANGED <<size, state, committed, control, rpc, severed>>
  BY <1>2 DEF Subscribe, rowVars
<1>5. /\ Place(dl[c]) /\ Source(c) /\ Relayed(dl[c]) /\ Exact(dl[c])
      /\ ~severed /\ size > 0 => Len(dl[c].body) # size
  BY <1>1, TaskAlone
<1>6. Quiet'
  BY <1>1, <1>4, <1>5 DEF Source, Quiet, Asks, Active
<1>7. Place(d)'
  BY <1>1, <1>3, <1>4, <1>5 DEF Place, SameStream, NoChunk
<1>8. Relayed(d) /\ Exact(d)
  BY <1>1, <1>3, <1>5 DEF Relayed, Exact, SameStream
<1>9. Source(c)'
  BY <1>3, <1>4, <1>6 DEF Source
<1> QED
  BY <1>1, <1>3, <1>4, <1>5, <1>7, <1>8, <1>9, TaskTo DEF SameStream, Streaming

LEMMA RequestDeliveryKeeps ==
  ASSUME DeliveryInv, NEW c \in Clients, RequestDelivery(c) PROVE PipeInv' /\ EndInv'
<1> USE Facts
<1>1. dl[c].pc = "request" /\ dl[c].pc \in Streaming
  BY DEF RequestDelivery, Streaming
<1>2. PICK d : d = [dl[c] EXCEPT !.pc = "drain"]
  OBVIOUS
<1>3. d \in Download /\ d.pc = "drain" /\ d.end = dl[c].end /\ SameStream(dl[c], d)
  BY <1>2, PcFields DEF Streaming
<1>4. PICK m : m = DeliverRequest(dl[c].tries, dl[c].offset)
  OBVIOUS
<1>5. /\ dl' = [dl EXCEPT ![c] = d] /\ control' = control \cup {m}
      /\ UNCHANGED <<size, state, committed, subscriber, channel, rpc, severed>>
  BY <1>2, <1>4 DEF RequestDelivery, rowVars
<1>6. /\ Place(dl[c]) /\ Source(c) /\ Relayed(dl[c]) /\ Exact(dl[c])
      /\ ~severed /\ size > 0 => Len(dl[c].body) # size
  BY <1>1, TaskAlone
<1>7. /\ Asks' = {m} /\ \A k \in Requests : ~Active(k)'
  BY <1>1, <1>4, <1>5, <1>6 DEF Source, Quiet, Asks, Active, DeliverRequest
<1>8. /\ m.from = dl[c].offset /\ channel' = <<>> /\ subscriber' = c
      /\ size > 0 => dl[c].offset < size
  BY <1>1, <1>4, <1>5, <1>6 DEF DeliverRequest, Source, Place
<1>9. SingleSource'
  BY <1>7 DEF SingleSource
<1>10. PICK o \in 0 .. size : o = dl[c].offset
  OBVIOUS
<1>11. Flow(o)'
  BY <1>5, <1>7, <1>8, <1>10 DEF Flow
<1>12. Flow(dl[c].offset)'
  <2>1. dl'[c].offset = o
    BY <1>3, <1>5, <1>10 DEF SameStream
  <2> QED
    BY <1>11, <2>1 DEF Flow
<1>13. Source(c)'
  BY <1>3, <1>5, <1>8, <1>9, <1>12 DEF Source
<1>14. Place(d)'
  BY <1>1, <1>3, <1>5, <1>6 DEF Place, SameStream, NoChunk
<1>15. Relayed(d) /\ Exact(d)
  BY <1>1, <1>3, <1>6 DEF Relayed, Exact, SameStream
<1> QED
  BY <1>1, <1>3, <1>5, <1>6, <1>13, <1>14, <1>15, TaskTo DEF SameStream, Streaming

LEMMA RequestFailsKeeps ==
  ASSUME DeliveryInv, NEW c \in Clients,
         RequestOffline(c) \/ RequestBackpressured(c) \/ DrainTimeout(c)
  PROVE  PipeInv' /\ EndInv'
<1> USE Facts
<1>1. dl[c].pc \in {"request", "drain"} /\ dl[c].pc \in Streaming
  BY DEF RequestOffline, RequestBackpressured, DrainTimeout, Streaming
<1>2. UNCHANGED <<size, state, committed, rpc, channel, severed>>
  BY DEF RequestOffline, RequestBackpressured, DrainTimeout, rowVars
<1>3. CASE RequestOffline(c) \/ DrainTimeout(c)
  <2>1. PICK d : d = [dl[c] EXCEPT !.pc = "lost"]
    OBVIOUS
  <2>2. d \in Download /\ d.pc = "lost" /\ d.end = dl[c].end /\ SameStream(dl[c], d)
    BY <2>1, PcFields DEF Streaming
  <2>3. dl' = [dl EXCEPT ![c] = d]
    BY <1>3, <2>1 DEF RequestOffline, DrainTimeout, EndDelivery
  <2> QED
    BY <1>1, <1>2, <2>2, <2>3, TaskOver DEF SameStream
<1>4. CASE RequestBackpressured(c)
  <2>1. PICK e : e = [dl[c] EXCEPT !.tries = @ + 1]
    OBVIOUS
  <2>2. /\ dl[c].pc = "request" /\ dl[c].tries + 1 \in 0 .. MaxResume
    <3>1. dl[c].pc = "request" /\ dl[c].tries < MaxResume
      BY <1>4 DEF RequestBackpressured, DeliveryInv, TypeInv, BudgetLeft
    <3> QED
      BY <3>1 DEF Download
  <2>3. e \in Download /\ e.pc = "request" /\ e.end = dl[c].end /\ SameStream(dl[c], e)
    BY <2>1, <2>2 DEF Download, SameStream
  <2>4. CASE dl' = [dl EXCEPT ![c] = [e EXCEPT !.pc = "expire"]]
    <3>1. PICK d : d = [e EXCEPT !.pc = "expire"]
      OBVIOUS
    <3>2. d \in Download /\ d.pc = "expire" /\ d.end = e.end /\ SameStream(e, d)
      BY <2>3, <3>1 DEF Download, Streaming, SameStream
    <3> QED
      BY <1>1, <1>2, <2>2, <2>3, <2>4, <3>1, <3>2, TaskOver DEF SameStream
  <2>5. CASE dl' = [dl EXCEPT ![c] = e] /\ UNCHANGED <<subscriber, control>>
    <3>1. /\ Place(dl[c]) /\ Relayed(dl[c]) /\ Exact(dl[c])
          /\ ~severed /\ size > 0 => Len(dl[c].body) # size
      BY <1>1, TaskAlone
    <3>2. Place(e)'
      BY <1>2, <2>2, <2>3, <3>1 DEF Place, SameStream, NoChunk
    <3>3. Relayed(e) /\ Exact(e)
      BY <2>2, <2>3, <3>1 DEF Relayed, Exact, SameStream
    <3>4. dl'[c].pc = dl[c].pc /\ dl'[c].offset = dl[c].offset
      BY <2>2, <2>3, <2>5 DEF SameStream
    <3>5. Source(c)'
      BY <1>2, <2>5, <3>4, SourceSame
    <3> QED
      BY <1>1, <1>2, <2>3, <2>5, <3>1, <3>2, <3>3, <3>5, TaskTo DEF SameStream, Streaming
  <2> QED
    BY <1>4, <2>1, <2>4, <2>5 DEF RequestBackpressured, DiscardAndExpire, EndDelivery
<1> QED
  BY <1>3, <1>4

LEMMA HashFields ==
  ASSUME size \in Nat, NEW d \in Download, NEW x, d.offset # size
  PROVE  /\ Hash(d, x) \in Download /\ Hash(d, x).pc = d.pc
         /\ Hash(d, x).offset = d.offset + 1 /\ d.offset + 1 <= size
         /\ Hash(d, x).held = d.held /\ Hash(d, x).open = d.open
         /\ Hash(d, x).body = d.body /\ Hash(d, x).end = d.end
         /\ Hash(d, x).clean <=> (d.clean /\ x = [n |-> d.offset + 1, ok |-> TRUE])
<1>1. d.offset + 1 \in 0 .. size
  BY DEF Download
<1>2. /\ Hash(d, x) \in Download /\ Hash(d, x).pc = d.pc
      /\ Hash(d, x).offset = d.offset + 1
      /\ Hash(d, x).held = d.held /\ Hash(d, x).open = d.open
      /\ Hash(d, x).body = d.body /\ Hash(d, x).end = d.end
  BY <1>1 DEF Download, Hash
<1>3. Hash(d, x).clean <=> (d.clean /\ x = [n |-> d.offset + 1, ok |-> TRUE])
  BY DEF Download, Hash
<1> QED
  BY <1>1, <1>2, <1>3

\* The first chunk of the channel.
LEMMA HeadFacts ==
  ASSUME DeliveryInv, channel # <<>>
  PROVE  /\ 1 \in DOMAIN channel /\ channel[1] = Head(channel)
         /\ Head(channel).chunk \in Chunk /\ Head(channel).chunk.n \in 0 .. size
         /\ Tail(channel) \in Seq(DeliveryChunk)
         /\ Len(Tail(channel)) = Len(channel) - 1
         /\ \A i \in 1 .. Len(channel) - 1 : Tail(channel)[i] = channel[i + 1]
<1> USE Facts
<1>1. Head(channel).chunk \in Chunk /\ Tail(channel) \in Seq(DeliveryChunk)
  BY HeadType
<1>2. Head(channel).chunk.n \in 0 .. size
  BY <1>1 DEF Chunk
<1> QED
  BY <1>1, <1>2

LEMMA DrainDataKeeps ==
  ASSUME DeliveryInv, NEW c \in Clients, DrainData(c) PROVE PipeInv' /\ EndInv'
<1> USE Facts
<1>1. /\ dl[c].pc = "drain" /\ dl[c].pc \in Streaming /\ channel # <<>>
      /\ channel[1].kind = "data" /\ channel' = Tail(channel)
  BY HeadFacts DEF DrainData, Take, Streaming
<1>2. UNCHANGED <<size, state, committed, rpc, severed>>
  BY DEF DrainData, rowVars
<1>3. /\ Place(dl[c]) /\ Source(c) /\ Relayed(dl[c]) /\ Exact(dl[c])
      /\ dl[c].end = "none"
      /\ ~severed /\ size > 0 => Len(dl[c].body) # size
  BY <1>1, TaskAlone
<1>4. PICK o \in 0 .. size : o = dl[c].offset
  OBVIOUS
<1>5. subscriber = c /\ SingleSource /\ Flow(o)
  BY <1>1, <1>3, <1>4 DEF Source
<1>6. PICK x \in Chunk : x = Head(channel).chunk
  BY <1>1, HeadFacts
<1>7. x.n \in 0 .. size /\ (size > 0 => x.n = o + 1)
  <2>1. x.n \in 0 .. size
    BY <1>6 DEF Chunk
  <2>2. 1 \in DOMAIN channel /\ channel[1].chunk = x
    BY <1>1, <1>6, HeadFacts
  <2> QED
    BY <1>1, <1>5, <2>1, <2>2 DEF Flow
<1>8. CASE x.n = 0
  <2>1. UNCHANGED <<dl, subscriber, control>> /\ size = 0
    BY <1>6, <1>7, <1>8 DEF DrainData
  <2>2. /\ SingleSource' /\ (Quiet => Quiet')
    BY <1>2, <1>5, <2>1 DEF SingleSource, Quiet, Asks, Active
  <2>3. \A i \in DOMAIN channel' : channel'[i].kind # "data" => i = Len(channel') /\ Quiet'
    BY <1>1, <1>5, <2>2, HeadFacts DEF Flow
  <2>4. Flow(o)'
    BY <1>2, <2>1, <2>3 DEF Flow
  <2>5. Flow(dl[c].offset)'
    BY <1>4, <2>1, <2>4 DEF Flow
  <2>6. Source(c)'
    BY <1>1, <1>5, <2>1, <2>2, <2>5 DEF Source
  <2>7. PICK d \in Download : d = dl[c]
    OBVIOUS
  <2>8. Place(d)'
    BY <1>2, <1>3, <2>7 DEF Place, NoChunk
  <2>9. dl' = [dl EXCEPT ![c] = d]
    BY <2>1, <2>7
  <2>10. Relayed(d) /\ Exact(d) /\ d.pc \in Streaming /\ d.end = dl[c].end
    BY <1>1, <1>3, <2>7
  <2>11. ~(size > 0)
    BY <2>1
  <2> QED
    BY <1>1, <1>2, <2>6, <2>8, <2>9, <2>10, <2>11, TaskTo
<1>9. CASE x.n # 0 /\ o = size
  <2>1. PICK d : d = [dl[c] EXCEPT !.pc = "lost"]
    OBVIOUS
  <2>2. d \in Download /\ d.pc = "lost" /\ d.end = dl[c].end /\ SameStream(dl[c], d)
    BY <2>1, PcFields DEF Streaming
  <2>3. dl' = [dl EXCEPT ![c] = d]
    BY <1>4, <1>6, <1>9, <2>1 DEF DrainData, EndDelivery
  <2> QED
    BY <1>1, <1>2, <2>2, <2>3, TaskOver DEF SameStream
<1>10. CASE x.n # 0 /\ o # size
  <2>1. PICK h : h = Hash(dl[c], x)
    OBVIOUS
  <2>2. /\ h \in Download /\ h.pc = "drain" /\ h.offset = o + 1 /\ o + 1 <= size
        /\ h.held = dl[c].held /\ h.open = dl[c].open /\ h.body = dl[c].body
        /\ h.end = "none"
        /\ h.clean <=> (dl[c].clean /\ x = [n |-> o + 1, ok |-> TRUE])
    BY <1>1, <1>3, <1>4, <1>10, <2>1, HashFields
  <2>3. /\ size > 0 /\ x.n = o + 1 /\ dl[c].held = NoChunk /\ o = committed
        /\ dl[c].body \in Seq(Chunk) /\ Len(dl[c].body) = o
        /\ x # NoChunk
    <3>1. size > 0 /\ x.n = o + 1
      BY <1>7, <1>10
    <3>2. dl[c].held = NoChunk
      BY <1>1, <1>3, <1>4, <1>10 DEF Place
    <3>3. o = committed /\ dl[c].body \in Seq(Chunk) /\ Len(dl[c].body) = o
      BY <1>1, <1>3, <1>4, <3>2 DEF Place, Relayed, Download
    <3>4. x # NoChunk
      BY <1>10 DEF NoChunk
    <3> QED
      BY <3>1, <3>2, <3>3, <3>4
  <2>4. h.clean => x.ok /\ \A i \in DOMAIN h.body : h.body[i].ok
    <3>1. h.clean => x.ok
      BY <2>2
    <3>2. dl[c].clean => \A i \in DOMAIN dl[c].body : dl[c].body[i].ok
      BY <1>1, <1>3 DEF Relayed
    <3> QED
      BY <2>2, <3>1, <3>2
  <2>5. ASSUME UNCHANGED control PROVE Flow(o + 1)' /\ SingleSource'
    <3>1. SingleSource'
      BY <1>2, <1>5, <2>5 DEF SingleSource, Asks, Active
    <3>2. Flow(o + 1)'
      BY <1>1, <1>2, <1>5, <2>3, <2>5, FlowShift
    <3> QED
      BY <3>1, <3>2
  <2>6. CASE HeldBack(h)
    <3>1. PICK d : d = [h EXCEPT !.held = x]
      OBVIOUS
    <3>2. /\ d \in Download /\ d.pc = "drain" /\ d.offset = o + 1 /\ d.held = x
          /\ d.body = dl[c].body /\ d.end = dl[c].end /\ d.clean = h.clean
      BY <1>3, <2>2, <3>1 DEF Download
    <3>3. /\ dl' = [dl EXCEPT ![c] = d] /\ UNCHANGED <<subscriber, control>> /\ o + 1 = size
      BY <1>4, <1>6, <1>10, <2>1, <2>2, <2>6, <3>1 DEF DrainData, HeldBack
    <3>4. Place(d)'
      BY <1>2, <2>3, <3>2, <3>3 DEF Place, NoChunk
    <3>5. dl'[c].offset = o + 1 /\ dl'[c].pc = "drain"
      BY <3>2, <3>3
    <3>6. Flow(dl[c].offset)'
      BY <2>5, <3>3, <3>5 DEF Flow
    <3>7. Source(c)'
      BY <1>5, <2>5, <3>3, <3>5, <3>6 DEF Source
    <3>8. Relayed(d)
      BY <2>2, <2>3, <2>4, <3>2, <3>3 DEF Relayed
    <3>9. Exact(d)
      BY <1>3, <3>2 DEF Exact
    <3> QED
      BY <1>1, <1>2, <1>3, <3>2, <3>3, <3>4, <3>7, <3>8, <3>9, TaskTo
  <2>7. CASE ~HeldBack(h) /\ h.open
    <3>1. PICK d : d = [Relay(h, x) EXCEPT !.pc = "persist"]
      OBVIOUS
    <3>2. Append(dl[c].body, x) \in Seq(Chunk)
      BY <2>3
    <3>3. /\ d \in Download /\ d.pc = "persist" /\ d.offset = o + 1 /\ d.held = NoChunk
          /\ d.body = Append(dl[c].body, x) /\ d.end = dl[c].end /\ d.clean = h.clean
      BY <1>3, <2>2, <2>3, <3>1, <3>2 DEF Download, Relay, Streaming
    <3>4. /\ dl' = [dl EXCEPT ![c] = d] /\ UNCHANGED <<subscriber, control>> /\ o + 1 < size
      BY <1>4, <1>6, <1>10, <2>1, <2>2, <2>7, <3>1 DEF DrainData, HeldBack
    <3>5. /\ Len(d.body) = o + 1 /\ DOMAIN d.body = 1 .. o + 1
          /\ \A i \in 1 .. o : d.body[i] = dl[c].body[i]
          /\ d.body[o + 1] = x /\ DOMAIN dl[c].body = 1 .. o
      BY <2>3, <3>3
    <3>6. Place(d)'
      BY <1>2, <2>3, <3>3, <3>4 DEF Place
    <3>7. dl'[c].offset = o + 1 /\ dl'[c].pc = "persist"
      BY <3>3, <3>4
    <3>8. Flow(dl[c].offset)'
      BY <2>5, <3>4, <3>7 DEF Flow
    <3>9. Source(c)'
      BY <1>5, <2>5, <3>4, <3>7, <3>8 DEF Source
    <3>10. Exact(d)
      <4>1. \A i \in 1 .. o : d.body[i].n = i
        BY <1>3, <3>5 DEF Exact
      <4>2. \A i \in DOMAIN d.body : d.body[i].n = i
        BY <2>3, <3>5, <4>1
      <4> QED
        BY <3>4, <3>5, <4>2 DEF Exact
    <3>11. Relayed(d)
      <4>1. d.clean => \A i \in DOMAIN d.body : d.body[i].ok
        <5> SUFFICES ASSUME d.clean, NEW i \in DOMAIN d.body PROVE d.body[i].ok
          OBVIOUS
        <5>1. x.ok /\ \A j \in 1 .. o : dl[c].body[j].ok
          BY <2>2, <2>4, <3>3, <3>5
        <5>2. CASE i \in 1 .. o
          BY <3>5, <5>1, <5>2
        <5>3. CASE i = o + 1
          BY <3>5, <5>1, <5>3
        <5> QED
          BY <3>5, <5>2, <5>3
      <4> QED
        BY <3>3, <3>5, <4>1 DEF Relayed
    <3>12. d.pc \in Streaming /\ Len(d.body) # size
      BY <3>3, <3>4, <3>5 DEF Streaming
    <3> QED
      BY <1>1, <1>2, <3>3, <3>4, <3>6, <3>9, <3>10, <3>11, <3>12, TaskTo
  <2>8. CASE ~HeldBack(h) /\ ~h.open
    <3>1. PICK d : d = [h EXCEPT !.pc = "expire"]
      OBVIOUS
    <3>2. d \in Download /\ d.pc = "expire" /\ d.end = dl[c].end /\ d.body = dl[c].body
      BY <1>3, <2>2, <3>1 DEF Download, Streaming
    <3>3. dl' = [dl EXCEPT ![c] = d]
      BY <1>4, <1>6, <1>10, <2>1, <2>8, <3>1 DEF DrainData, DiscardAndExpire, EndDelivery
    <3> QED
      BY <1>1, <1>2, <3>2, <3>3, TaskOver
  <2> QED
    BY <2>6, <2>7, <2>8
<1> QED
  BY <1>7, <1>8, <1>9, <1>10

LEMMA DrainCompleteKeeps ==
  ASSUME DeliveryInv, NEW c \in Clients, DrainComplete(c) PROVE PipeInv' /\ EndInv'
<1> USE Facts
<1>1. dl[c].pc = "drain" /\ dl[c].pc \in Streaming
  BY DEF DrainComplete, Take, Streaming
<1>2. UNCHANGED <<size, state, committed, rpc, severed>>
  BY DEF DrainComplete, rowVars
<1>3. /\ Place(dl[c]) /\ Relayed(dl[c]) /\ Exact(dl[c])
      /\ dl[c].end = "none"
  BY <1>1, TaskAlone
<1>4. ASSUME NEW p \in {"lost", "expire", "consume"},
             dl' = [dl EXCEPT ![c] = [dl[c] EXCEPT !.pc = p]],
             p = "consume" => size = 0
      PROVE  PipeInv' /\ EndInv'
  <2>1. PICK d : d = [dl[c] EXCEPT !.pc = p]
    OBVIOUS
  <2>2. d \in Download /\ d.pc = p /\ d.end = dl[c].end /\ SameStream(dl[c], d)
    BY <2>1, PcFields DEF Streaming
  <2>3. dl' = [dl EXCEPT ![c] = d]
    BY <1>4, <2>1
  <2>4. CASE p # "consume"
    BY <1>1, <1>2, <2>2, <2>3, <2>4, TaskOver DEF SameStream
  <2>5. CASE p = "consume"
    <3>1. ~(size > 0)
      BY <1>4, <2>5
    <3>2. Place(d)' /\ Relayed(d) /\ d.pc \in Streaming
      BY <2>2, <2>5 DEF Place, Relayed, Streaming
    <3>3. Exact(d)
      BY <1>3, <2>2 DEF Exact, SameStream
    <3>4. Source(c)'
      BY <2>2, <2>3, <2>5 DEF Source
    <3> QED
      BY <1>1, <1>2, <2>2, <2>3, <3>1, <3>2, <3>3, <3>4, TaskTo
  <2> QED
    BY <2>4, <2>5
<1>5. CASE dl[c].offset # size \/ ~dl[c].clean
  BY <1>4, <1>5 DEF DrainComplete, EndDelivery
<1>6. CASE dl[c].offset = size /\ dl[c].clean /\ ~dl[c].open
  BY <1>4, <1>6 DEF DrainComplete, DiscardAndExpire, EndDelivery
<1>7. CASE dl[c].offset = size /\ dl[c].clean /\ dl[c].open /\ size = 0
  BY <1>4, <1>7 DEF DrainComplete, EndDelivery
<1>8. CASE dl[c].offset = size /\ dl[c].clean /\ dl[c].open /\ size # 0
  <2>1. PICK x : x = dl[c].held
    OBVIOUS
  <2>2. x # NoChunk /\ x.n = size /\ size > 0 /\ x \in Chunk
    <3>1. dl[c].held # NoChunk
      BY <1>1, <1>3, <1>8 DEF Place
    <3> QED
      BY <1>1, <1>3, <1>8, <2>1, <3>1 DEF Place, Download
  <2>3. /\ dl[c].body \in Seq(Chunk) /\ Len(dl[c].body) = size - 1
    BY <1>1, <1>3, <2>1, <2>2 DEF Relayed, Download
  <2>4. x.ok /\ \A i \in DOMAIN dl[c].body : dl[c].body[i].ok
    BY <1>1, <1>3, <1>8, <2>1, <2>2 DEF Relayed
  <2>5. PICK d : d = [Relay(dl[c], x) EXCEPT !.held = NoChunk, !.pc = "persist_last"]
    OBVIOUS
  <2>6. Append(dl[c].body, x) \in Seq(Chunk) /\ NoChunk \in Chunk
    BY <2>2, <2>3 DEF Chunk, NoChunk
  <2>7. /\ d \in Download /\ d.pc = "persist_last" /\ d.end = dl[c].end
        /\ d.body = Append(dl[c].body, x)
    BY <2>5, <2>6 DEF Download, Relay, Streaming
  <2>8. dl' = [dl EXCEPT ![c] = d]
    BY <1>8, <2>1, <2>5 DEF DrainComplete
  <2>9. /\ DOMAIN d.body = 1 .. size /\ DOMAIN dl[c].body = 1 .. size - 1
        /\ \A i \in 1 .. size - 1 : d.body[i] = dl[c].body[i]
        /\ d.body[size] = x
    BY <2>2, <2>3, <2>7
  <2>10. Exact(d)
    <3>1. ASSUME NEW i \in DOMAIN d.body PROVE d.body[i].n = i /\ d.body[i].ok
      <4>1. CASE i \in 1 .. size - 1
        BY <1>3, <2>4, <2>9, <4>1 DEF Exact
      <4>2. CASE i = size
        BY <2>2, <2>4, <2>9, <4>2
      <4> QED
        BY <2>9, <4>1, <4>2
    <3> QED
      BY <3>1 DEF Exact
  <2>11. Place(d)' /\ Relayed(d) /\ d.pc \in Streaming
    BY <2>7 DEF Place, Relayed, Streaming
  <2>12. Source(c)'
    BY <2>7, <2>8 DEF Source
  <2> QED
    BY <1>1, <1>2, <2>7, <2>8, <2>10, <2>11, <2>12, TaskTo
<1> QED
  BY <1>5, <1>6, <1>7, <1>8

LEMMA DrainFailedKeeps ==
  ASSUME DeliveryInv, NEW c \in Clients, DrainFailed(c) PROVE PipeInv' /\ EndInv'
<1> USE Facts
<1>1. /\ dl[c].pc = "drain" /\ dl[c].pc \in Streaming /\ channel # <<>>
      /\ channel[1].kind = "failed"
  BY HeadFacts DEF DrainFailed, Take, Streaming
<1>2. UNCHANGED <<size, state, committed, control, rpc, severed>>
  BY DEF DrainFailed, rowVars
<1>3. /\ Place(dl[c]) /\ Source(c) /\ Relayed(dl[c]) /\ Exact(dl[c])
      /\ ~severed /\ size > 0 => Len(dl[c].body) # size
  BY <1>1, TaskAlone
<1>4. Quiet /\ (size > 0 => dl[c].offset < size)
  BY <1>1, <1>3, HeadFacts DEF Source, Flow
<1>5. Quiet'
  BY <1>2, <1>4 DEF Quiet, Asks, Active
<1>6. dl[c].held = NoChunk
  BY <1>1, <1>3, <1>4 DEF Place
<1>7. dl[c].tries + 1 \in 0 .. MaxResume
  <2>1. dl[c].tries < MaxResume
    BY <1>1 DEF DeliveryInv, TypeInv, BudgetLeft
  <2> QED
    BY <2>1 DEF Download
<1>8. PICK p \in {"lost", "subscribe"} :
        dl' = [dl EXCEPT ![c] = [[dl[c] EXCEPT !.tries = @ + 1] EXCEPT !.pc = p]]
  BY DEF DrainFailed, EndDelivery
<1>9. PICK d : d = [[dl[c] EXCEPT !.tries = @ + 1] EXCEPT !.pc = p]
  OBVIOUS
<1>10. d \in Download /\ d.pc = p /\ d.end = dl[c].end /\ SameStream(dl[c], d)
  BY <1>7, <1>9 DEF Download, Streaming, SameStream
<1>11. dl' = [dl EXCEPT ![c] = d]
  BY <1>8, <1>9
<1>12. CASE p = "lost"
  BY <1>1, <1>2, <1>10, <1>11, <1>12, TaskOver DEF SameStream
<1>13. CASE p = "subscribe"
  <2>1. Place(d)'
    BY <1>1, <1>2, <1>3, <1>6, <1>10, <1>13 DEF Place, SameStream, NoChunk
  <2>2. Relayed(d) /\ Exact(d)
    BY <1>1, <1>3, <1>10, <1>13 DEF Relayed, Exact, SameStream
  <2>3. Source(c)'
    BY <1>5, <1>10, <1>11, <1>13 DEF Source
  <2> QED
    BY <1>1, <1>2, <1>3, <1>10, <1>11, <1>13, <2>1, <2>2, <2>3, TaskTo
    DEF SameStream, Streaming
<1> QED
  BY <1>12, <1>13

LEMMA PersistKeeps ==
  ASSUME DeliveryInv, NEW c \in Clients, Persist(c) PROVE PipeInv' /\ EndInv'
<1> USE Facts
<1>1. dl[c].pc \in {"persist", "persist_last"} /\ dl[c].pc \in Streaming
  BY DEF Persist, Streaming
<1>2. UNCHANGED <<size, state, control, rpc, channel, severed>>
  BY DEF Persist
<1>3. /\ Place(dl[c]) /\ Relayed(dl[c]) /\ Exact(dl[c])
      /\ state = "delivering"
      /\ ~severed /\ size > 0 /\ Len(dl[c].body) = size => dl[c].pc \in {"persist_last", "consume"}
  BY <1>1, TaskAlone
<1>4. CASE dl[c].pc = "persist"
  <2>1. PICK d : d = [dl[c] EXCEPT !.pc = "drain"]
    OBVIOUS
  <2>2. d \in Download /\ d.pc = "drain" /\ d.end = dl[c].end /\ SameStream(dl[c], d)
    BY <2>1, PcFields DEF Streaming
  <2>3. dl' = [dl EXCEPT ![c] = d] /\ UNCHANGED subscriber
    BY <1>4, <2>1 DEF Persist
  <2>4. committed' = dl[c].offset
    BY <1>3, <1>4 DEF Persist, Place
  <2>5. Place(d)'
    BY <1>2, <1>3, <1>4, <2>2, <2>4 DEF Place, SameStream, NoChunk
  <2>6. Relayed(d) /\ Exact(d)
    BY <1>3, <1>4, <2>2 DEF Relayed, Exact, SameStream
  <2>7. dl'[c].pc = "drain" /\ dl'[c].offset = dl[c].offset
    BY <2>2, <2>3 DEF SameStream
  <2>8. Source(c)'
    BY <1>2, <1>4, <2>3, <2>7, SourceSame
  <2> QED
    BY <1>1, <1>2, <1>3, <1>4, <2>2, <2>3, <2>5, <2>6, <2>8, TaskTo DEF SameStream, Streaming
<1>5. CASE dl[c].pc = "persist_last"
  <2>1. PICK d : d = [dl[c] EXCEPT !.pc = "consume"]
    OBVIOUS
  <2>2. d \in Download /\ d.pc = "consume" /\ d.end = dl[c].end /\ SameStream(dl[c], d)
    BY <2>1, PcFields DEF Streaming
  <2>3. dl' = [dl EXCEPT ![c] = d]
    BY <1>5, <2>1 DEF Persist, EndDelivery
  <2>4. Place(d)' /\ Relayed(d) /\ d.pc \in Streaming
    BY <2>2 DEF Place, Relayed, Streaming
  <2>5. Exact(d)
    BY <1>3, <2>2 DEF Exact, SameStream
  <2>6. Source(c)'
    BY <2>2, <2>3 DEF Source
  <2> QED
    BY <1>1, <1>2, <2>2, <2>3, <2>4, <2>5, <2>6, TaskTo
<1> QED
  BY <1>1, <1>4, <1>5

LEMMA FinishKeeps ==
  ASSUME DeliveryInv, NEW c \in Clients, Finish(c) \/ TransactionFails(c)
  PROVE  PipeInv' /\ EndInv'
<1> USE Facts
<1>1. dl[c].pc \in Streaming
  BY DEF Finish, TransactionFails, Streaming
<1>2. /\ size' = size /\ state = "delivering" /\ dl[c].end = "none"
      /\ \A b \in Clients \ {c} : ~Served(b)
      /\ Exact(dl[c])
      /\ ~severed /\ size > 0 /\ Len(dl[c].body) = size =>
           dl[c].pc \in {"persist_last", "consume"}
  BY <1>1, TaskAlone DEF Finish, TransactionFails, rowVars
<1>3. CASE TransactionFails(c) /\ dl[c].pc \in {"persist", "persist_last"}
  <2>1. PICK d : d = [dl[c] EXCEPT !.pc = "lost"]
    OBVIOUS
  <2>2. d \in Download /\ d.pc = "lost" /\ d.end = dl[c].end /\ SameStream(dl[c], d)
    BY <2>1, PcFields DEF Streaming
  <2>3. dl' = [dl EXCEPT ![c] = d] /\ severed' /\ state' = state
    BY <1>3, <2>1 DEF TransactionFails, EndDelivery, rowVars
  <2> QED
    BY <1>1, <1>2, <2>2, <2>3, TaskOver DEF SameStream
<1>4. CASE dl[c].pc \in {"consume", "lost", "expire"}
  <2>1. PICK d : d = Finished(dl[c])
    OBVIOUS
  <2>2. /\ d \in Download /\ d.pc = "done" /\ d.body = dl[c].body
        /\ dl[c].pc = "consume" => d.end = dl[c].end
    BY <2>1 DEF Download, Finished
  <2>3. dl' = [dl EXCEPT ![c] = d]
    BY <1>4, <2>1 DEF Finish, TransactionFails
  <2>4. Place(d)' /\ Relayed(d) /\ d.pc \notin Streaming
    BY <2>2 DEF Place, Relayed, Streaming
  <2>5. Exact(d)
    BY <1>2, <2>2 DEF Exact
  <2>6. Source(c)'
    BY <2>2, <2>3 DEF Source
  <2>7. state' \notin {"absent", "available"}
    BY <1>2, <1>4 DEF Finish, TransactionFails, FinalState, rowVars
  <2>8. ~severed' /\ dl[c].pc = "consume" => state' = "consumed"
    BY <1>2 DEF Finish, TransactionFails, FinalState, ArtifactEdge, Terminal
  <2>9. ~severed' => ~severed
    BY DEF Finish, TransactionFails
  <2> QED
    BY <1>2, <1>4, <2>2, <2>3, <2>4, <2>5, <2>6, <2>7, <2>8, <2>9, OneDownload
<1> QED
  BY <1>3, <1>4 DEF Finish, TransactionFails

LEMMA RestartKeeps ==
  ASSUME DeliveryInv, RemoteRestart PROVE PipeInv' /\ EndInv'
<1> USE Facts
<1>1. UNCHANGED <<size, state, committed>> /\ severed' /\ Asks' \subseteq Asks
  BY DEF RemoteRestart, rowVars, Asks
<1>2. \A k \in Requests : ~Active(k)'
  <2> SUFFICES ASSUME NEW k \in Requests PROVE ~Active(k)'
    OBVIOUS
  <2>1. rpc'[k] = [rpc[k] EXCEPT !.phase = IF @ = "none" THEN @ ELSE "ended"]
    BY DEF RemoteRestart
  <2> QED
    BY <2>1 DEF Active, Call
<1>3. Quiet => Quiet'
  BY <1>1, <1>2 DEF Quiet
<1>4. ASSUME NEW c \in Clients
      PROVE  /\ dl'[c].pc \in {"idle", "done"}
             /\ dl'[c].pc = "idle" => dl'[c] = NoDownload
             /\ dl'[c].body \in {dl[c].body, <<>>}
  <2>1. CASE dl[c].pc \in Streaming
    <3>1. dl'[c] = LeftAt(dl[c])
      BY <2>1 DEF RemoteRestart, LeftAt
    <3> QED
      BY <3>1 DEF LeftAt, Download
  <2>2. CASE dl[c].pc = "done"
    <3>1. dl'[c] = dl[c]
      BY <2>2 DEF RemoteRestart, Streaming
    <3> QED
      BY <2>2, <3>1
  <2>3. CASE dl[c].pc \notin Streaming \cup {"done"}
    <3>1. dl'[c] = NoDownload
      BY <2>3 DEF RemoteRestart
    <3> QED
      BY <3>1 DEF NoDownload
  <2> QED
    BY <2>1, <2>2, <2>3
<1>5. RowInv'
  BY <1>1, <1>3, <1>4 DEF DeliveryInv, PipeInv, RowInv, Streaming
<1>6. FreshInv'
  BY <1>4 DEF FreshInv, NoDownload
<1>7. ASSUME NEW c \in Clients
      PROVE  Place(dl[c])' /\ Source(c)' /\ Relayed(dl[c])' /\ Exact(dl[c])'
  <2>1. Place(dl[c])' /\ Source(c)' /\ Relayed(dl[c])'
    BY <1>4 DEF Place, Source, Relayed
  <2>2. Exact(dl[c])
    BY DEF DeliveryInv, PipeInv
  <2>3. Exact(dl[c])'
    BY <1>1, <1>4, <2>2 DEF Exact
  <2> QED
    BY <2>1, <2>3
<1>8. EndInv'
  <2>1. \A c \in Clients : dl'[c].pc # "done" => dl'[c].end = "none"
    BY <1>4 DEF NoDownload
  <2> QED
    BY <1>1, <2>1 DEF EndInv
<1> QED
  BY <1>5, <1>6, <1>7, <1>8 DEF PipeInv

LEMMA DeliveryInit == Init => DeliveryInv
<1> SUFFICES ASSUME Init PROVE DeliveryInv
  OBVIOUS
<1>1. TypeInv /\ OneShotInv
  BY TypeInit, OneShotInit
<1>2. /\ Quiet /\ committed = 0 /\ state = "absent"
      /\ \A c \in Clients : dl[c] = NoDownload
  BY DEF Init, Quiet, Asks, Active, NoCall
<1>3. /\ NoDownload.pc = "idle" /\ NoDownload.body = <<>> /\ NoDownload.offset = 0
      /\ NoDownload.held = NoChunk /\ NoDownload.clean /\ NoDownload.end = "none"
  BY DEF NoDownload
<1>4. RowInv /\ FreshInv
  BY <1>2, <1>3 DEF RowInv, FreshInv, Streaming
<1>5. \A c \in Clients : Place(dl[c]) /\ Source(c) /\ Relayed(dl[c]) /\ Exact(dl[c])
  <2> SUFFICES ASSUME NEW c \in Clients
               PROVE  Place(dl[c]) /\ Source(c) /\ Relayed(dl[c]) /\ Exact(dl[c])
    OBVIOUS
  <2>1. dl[c].pc = "idle" /\ dl[c].body = <<>>
    BY <1>2, <1>3
  <2>2. Place(dl[c]) /\ Source(c) /\ Relayed(dl[c])
    BY <2>1 DEF Place, Source, Relayed
  <2>3. Exact(dl[c])
    BY <2>1 DEF Exact
  <2> QED
    BY <2>2, <2>3
<1>6. EndInv
  <2>1. \A c \in Clients : ~Complete(c)
    <3> SUFFICES ASSUME NEW c \in Clients, size > 0 PROVE Len(dl[c].body) # size
      BY DEF Complete
    <3>1. dl[c].body = <<>> /\ size \in Nat
      BY <1>2, <1>3 DEF Init
    <3> QED
      BY <3>1
  <2> QED
    BY <1>2, <1>3, <2>1 DEF EndInv
<1> QED
  BY <1>1, <1>4, <1>5, <1>6 DEF DeliveryInv, PipeInv

LEMMA DeliveryNext == DeliveryInv /\ [Next]_vars => DeliveryInv'
<1> SUFFICES ASSUME DeliveryInv, [Next]_vars PROVE PipeInv' /\ EndInv'
  BY TypeNext, OneShotNext DEF DeliveryInv
<1>1. CASE UNCHANGED vars
  <2>1. SourceLess
    BY <1>1 DEF SourceLess, Asks, Active, vars
  <2> QED
    BY <1>1, <2>1, NoDownloadStep DEF vars
<1>2. CASE WorkerStep
  BY <1>2, OutsideStep, DeliversStep DEF WorkerStep
<1>3. CASE RecordOutput \/ DiscardWorkerOutputs \/ Elapse \/ ExpireDue \/ SessionDrop
             \/ SessionRegister
  BY <1>3, OutsideStep
<1>4. CASE RemoteRestart
  BY <1>4, RestartKeeps
<1>5. ASSUME NEW k \in Requests, RpcStep(k) PROVE PipeInv' /\ EndInv'
  BY <1>5, CallStep
<1>6. ASSUME NEW c \in Clients, RequestStep(c) PROVE PipeInv' /\ EndInv'
  BY <1>6, RequestKeeps
<1>7. ASSUME NEW c \in Clients, TaskStep(c) PROVE PipeInv' /\ EndInv'
  BY <1>7, SubscribeKeeps, RequestDeliveryKeeps, RequestFailsKeeps, DrainDataKeeps,
     DrainCompleteKeeps, DrainFailedKeeps, PersistKeeps, FinishKeeps DEF TaskStep
<1> QED
  BY <1>1, <1>2, <1>3, <1>4, <1>5, <1>6, <1>7 DEF Next

(***************************************************************************)
(* What a response carries is a prefix of the content in order, whole only *)
(* if it is the content declared, and a resumed call goes on where that    *)
(* prefix ends: for any size, any number of broken calls up to the budget, *)
(* a file that goes bad between two of them, and restarts of either        *)
(* process (drain_worker_chunks, validate_delivery_start).                 *)
(***************************************************************************)
THEOREM StreamCorrect == Spec => []StreamExact
<1>1. DeliveryInv => StreamExact
  <2> SUFFICES ASSUME DeliveryInv PROVE StreamExact
    OBVIOUS
  <2>1. BodyExact
    BY DEF DeliveryInv, PipeInv, BodyExact, Exact
  <2>2. ResumeAgrees
    <3> SUFFICES ASSUME NEW c \in Clients, dl[c].pc \in {"subscribe", "request"}
                 PROVE  /\ dl[c].offset = committed /\ dl[c].held = NoChunk
                        /\ \A k \in Requests : rpc[k].phase \in {"none", "ended"}
      BY DEF ResumeAgrees
    <3>1. Place(dl[c]) /\ Source(c)
      BY DEF DeliveryInv, PipeInv
    <3> QED
      BY <3>1 DEF Place, Source, Quiet, Active
  <2> QED
    BY <2>1, <2>2 DEF StreamExact
<1> QED
  BY <1>1, DeliveryInit, DeliveryNext, PTL DEF Spec

(***************************************************************************)
(* A client that was sent every byte finds the Artifact consumed when its  *)
(* task is done, and is told of no error, unless a transaction of the      *)
(* delivery failed or Remote restarted (mark_consumed, expire_due).        *)
(***************************************************************************)
THEOREM ConsumedCorrect == Spec => []DeliveredIsConsumed
<1>1. DeliveryInv => DeliveredIsConsumed
  BY DEF DeliveryInv, EndInv, DeliveredIsConsumed
<1> QED
  BY <1>1, DeliveryInit, DeliveryNext, PTL DEF Spec
=============================================================================
