------------------------------ MODULE Admission ------------------------------
(***************************************************************************)
(* Submit (native/generation.rs, admission.rs) and the input Artifacts it  *)
(* claims: their creation and upload, the sweep that expires them, their   *)
(* deletion when the Generation ends, and the Worker's fetches.            *)
(*                                                                         *)
(* admit is one READ COMMITTED transaction of many statements, so other    *)
(* commits fall between them, and an UPDATE or INSERT waits for the        *)
(* transaction that holds the row or the key.  A request is abstracted to  *)
(* the set of its input Artifacts, which stands for its digest too, and a  *)
(* Generation is named after the call that inserts it.                     *)
(***************************************************************************)
EXTENDS Integers, FiniteSets

CONSTANTS Calls,       \* Submit calls, retries included
          Keys,        \* idempotency keys
          Artifacts,   \* input Artifacts
          Stored,      \* those with object_store placement; the others are remote_local
          Requests,    \* the requests that are submitted, as sets of input Artifacts
          Fetches,     \* FetchArtifact streams
          NoGen, NoKey, NoBody, NoArtifact,
          MaxQueued,   \* max_queued_generations
          Total,       \* bytes of an Artifact
          ChunkBytes   \* TRANSFER_CHUNK_BYTES

ASSUME AdmissionAssumption ==
  /\ Stored \subseteq Artifacts /\ Requests \subseteq SUBSET Artifacts
  /\ NoGen \notin Calls /\ NoKey \notin Keys
  /\ (\A b \in SUBSET Artifacts : NoBody # b) /\ NoArtifact \notin Artifacts
  /\ MaxQueued \in Nat /\ Total \in Nat /\ ChunkBytes \in Nat \ {0}

VARIABLES call,      \* [Calls -> Call]: the transactions of admit
          gen,       \* [Calls -> state of the Generation the call committed]
          row,       \* [Artifacts -> Row]: the rows of artifacts
          bytes,     \* Artifacts whose bytes are in their row or object
          doomed,    \* objects some task is about to delete
          uploading, \* uploads that found their row pending
          live,      \* Generations with a live, unexpired Attempt
          fetch      \* [Fetches -> Fetch]

storeVars == <<bytes, doomed, uploading>>
vars == <<call, gen, row, storeVars, live, fetch>>
-----------------------------------------------------------------------------
Body == SUBSET Artifacts
Open == {"replay", "count", "resolve", "check", "head", "link", "claim", "key", "commit"}
Call == [pc : Open \cup {"idle", "admitted", "refused", "failed"},
         key : Keys \cup {NoKey}, body : Body, left : Body,
         answer : Calls \cup {NoGen}]
NoCall == [pc |-> "idle", key |-> NoKey, body |-> {}, left |-> {}, answer |-> NoGen]
Row == [state : {"none", "pending", "available", "expired", "deleted"},
        due : BOOLEAN, gen : Calls \cup {NoGen}]
NoRow == [state |-> "none", due |-> FALSE, gen |-> NoGen]
Fetch == [pc : {"idle", "stream", "done", "refused"},
          gen : Calls \cup {NoGen}, art : Artifacts \cup {NoArtifact},
          at : 0 .. Total]
NoFetch == [pc |-> "idle", gen |-> NoGen, art |-> NoArtifact, at |-> 0]

TypeOK ==
  /\ call \in [Calls -> Call]
  /\ gen \in [Calls -> {"none", "unfinished", "ended"}]
  /\ row \in [Artifacts -> Row]
  /\ bytes \in SUBSET Artifacts /\ doomed \in SUBSET Stored
  /\ uploading \in SUBSET Artifacts
  /\ live \in SUBSET Calls
  /\ fetch \in [Fetches -> Fetch]

Init ==
  /\ call = [c \in Calls |-> NoCall]
  /\ gen = [c \in Calls |-> "none"]
  /\ row = [a \in Artifacts |-> NoRow]
  /\ bytes = {} /\ doomed = {} /\ uploading = {} /\ live = {}
  /\ fetch = [f \in Fetches |-> NoFetch]

Nonterminal == {g \in Calls : gen[g] = "unfinished"}

\* The committed row of idempotency_keys: the Generation that owns the key.
Owns(g, k) == gen[g] # "none" /\ call[g].key = k

\* Seeded fault: the row locks of a committed admission are never released.
LockedForever(a) ==
  \E c \in Calls : call[c].pc \in {"key", "commit", "admitted"} /\ a \in call[c].body

\* Rows and keys an open transaction has written.
Locked(a) == \E c \in Calls : call[c].pc \in {"key", "commit"} /\ a \in call[c].body
KeyHeld(k) == \E c \in Calls : call[c].pc = "commit" /\ call[c].key = k

\* A step within the transaction, its end without effect, or its answer.
Goto(c, pc) ==
  /\ call' = [call EXCEPT ![c].pc = pc]
  /\ UNCHANGED <<gen, row, storeVars, live, fetch>>
Stop(c, why) ==
  /\ call' = [call EXCEPT ![c] = [NoCall EXCEPT !.pc = why]]
  /\ UNCHANGED <<gen, row, storeVars, live, fetch>>
Answer(c, g) ==
  /\ call' = [call EXCEPT ![c].pc = "admitted", ![c].answer = g]
  /\ UNCHANGED <<gen, row, storeVars, live, fetch>>
-----------------------------------------------------------------------------
(***************************************************************************)
(* admit                                                                   *)
(***************************************************************************)
\* submit and the placement checks before the transaction.
Submit(c, k, b) ==
  /\ call[c].pc = "idle"
  /\ call' = [call EXCEPT ![c] = [pc |-> "replay", key |-> k, body |-> b,
                                  left |-> b, answer |-> NoGen]]
  /\ UNCHANGED <<gen, row, storeVars, live, fetch>>

\* replay_idempotent
Replay(c) ==
  /\ call[c].pc = "replay"
  /\ \/ \E g \in Calls : /\ Owns(g, call[c].key)
                         /\ IF call[g].body = call[c].body
                            THEN Answer(c, g) ELSE Stop(c, "refused")
     \/ ~(\E g \in Calls : Owns(g, call[c].key)) /\ Goto(c, "count")

\* queue_capacity_exceeded
CountQueue(c) ==
  /\ call[c].pc = "count"
  /\ IF Cardinality(Nonterminal) >= MaxQueued THEN Stop(c, "refused") ELSE Goto(c, "resolve")

\* The alias, the parameters and the sampling settings are valid or not.
Resolve(c) ==
  /\ call[c].pc = "resolve"
  /\ Goto(c, "check") \/ Stop(c, "refused")

Ready(a) == row[a].state = IF a \in Stored THEN "pending" ELSE "available"

\* validate_input_artifacts: each row in turn, with HEAD for an object.
CheckRow(c, a) ==
  /\ call[c].pc = "check" /\ a \in call[c].left
  /\ IF ~Ready(a) THEN Stop(c, "refused")
     ELSE IF a \in Stored THEN Goto(c, "head")
     ELSE /\ call' = [call EXCEPT ![c].left = @ \ {a}]
          /\ UNCHANGED <<gen, row, storeVars, live, fetch>>

\* input_is_ready
Head(c, a) ==
  /\ call[c].pc = "head" /\ a \in call[c].left \cap Stored
  /\ IF a \notin bytes THEN Stop(c, "refused")
     ELSE /\ call' = [call EXCEPT ![c].left = @ \ {a}, ![c].pc = "check"]
          /\ UNCHANGED <<gen, row, storeVars, live, fetch>>

\* Seeded fault: the claim does not ask whether the Artifact is linked already.
ClaimableLinked(a) == Ready(a) /\ (a \notin Stored => a \in bytes)

\* The WHERE of link_input_artifacts, without its clock.
Claimable(a) == Ready(a) /\ row[a].gen = NoGen /\ (a \notin Stored => a \in bytes)

\* generations::insert, invisible to others, and the start of the UPDATE: its
\* snapshot and its statement_timestamp are taken now.
InsertAndLink(c) ==
  /\ call[c].pc = "check" /\ call[c].left = {}
  /\ IF \A a \in call[c].body : Claimable(a) /\ ~row[a].due
     THEN Goto(c, "claim") ELSE Stop(c, "refused")

\* Seeded fault: rows that changed while the UPDATE waited are linked regardless.
ClaimUnchecked(c) ==
  /\ call[c].pc = "claim" /\ ~(\E a \in call[c].body : Locked(a))
  /\ Goto(c, "key")

\* The UPDATE waits for rows others have locked and tests them again.
Claim(c) ==
  /\ call[c].pc = "claim" /\ ~(\E a \in call[c].body : Locked(a))
  /\ IF \A a \in call[c].body : Claimable(a) THEN Goto(c, "key") ELSE Stop(c, "refused")

\* Seeded fault: no primary key on idempotency_keys.
RecordKeyAgain(c) == call[c].pc = "key" /\ Goto(c, "commit")

\* record_idempotency_key: the primary key makes it wait for a transaction
\* that inserted the same key, and fail when that one has committed.
RecordKey(c) ==
  /\ call[c].pc = "key" /\ ~KeyHeld(call[c].key)
  /\ IF \E g \in Calls : Owns(g, call[c].key) THEN Stop(c, "failed") ELSE Goto(c, "commit")

\* The commit; its answer may be lost, and the client then tries again.
Commit(c, answered) ==
  /\ call[c].pc = "commit"
  /\ gen' = [gen EXCEPT ![c] = "unfinished"]
  /\ row' = [a \in Artifacts |-> IF a \in call[c].body
                                 THEN [row[a] EXCEPT !.gen = c, !.due = FALSE] ELSE row[a]]
  /\ call' = [call EXCEPT ![c].pc = IF answered THEN "admitted" ELSE "failed",
                          ![c].answer = IF answered THEN c ELSE NoGen]
  /\ UNCHANGED <<storeVars, live, fetch>>

\* A statement fails, or the call is dropped: the transaction rolls back.
RollBack(c) == call[c].pc \in Open /\ Stop(c, "failed")
-----------------------------------------------------------------------------
(***************************************************************************)
(* Input Artifacts                                                         *)
(***************************************************************************)
CreateInput(a) ==
  /\ row[a].state = "none"
  /\ row' = [row EXCEPT ![a].state = "pending"]
  /\ UNCHANGED <<call, gen, storeVars, live, fetch>>

\* The client's PUT to the presigned URL.
PutObject(a) ==
  /\ a \in Stored /\ row[a].state # "none" /\ ~row[a].due
  /\ bytes' = bytes \cup {a}
  /\ UNCHANGED <<call, gen, row, doomed, uploading, live, fetch>>

\* upload_for_tenant: the row is looked up, the body is read and verified
\* without a transaction, and set_remote_local_content tests the row again.
BeginUpload(a) ==
  /\ a \notin Stored /\ row[a].state = "pending" /\ a \notin uploading
  /\ uploading' = uploading \cup {a}
  /\ UNCHANGED <<call, gen, row, bytes, doomed, live, fetch>>

FinishUpload(a) ==
  /\ a \in uploading
  /\ uploading' = uploading \ {a}
  /\ IF row[a].state = "pending" /\ ~row[a].due
     THEN /\ row' = [row EXCEPT ![a].state = "available"]
          /\ bytes' = bytes \cup {a}
     ELSE UNCHANGED <<row, bytes>>
  /\ UNCHANGED <<call, gen, doomed, live, fetch>>

\* The hour of an Artifact no Generation has claimed is over.
Elapse(a) ==
  /\ row[a].state \in {"pending", "available"} /\ row[a].gen = NoGen /\ ~row[a].due
  /\ row' = [row EXCEPT ![a].due = TRUE]
  /\ UNCHANGED <<call, gen, storeVars, live, fetch>>

\* input_object_key
ObjectKeys(inputs) == inputs \cap Stored

\* expire_due waits for a transaction that is claiming the row, and passes
\* over one that was claimed; the object is deleted after the commit.
ExpireDue(a) ==
  /\ row[a].state \in {"pending", "available"} /\ row[a].due /\ ~Locked(a)
  /\ row' = [row EXCEPT ![a].state = "expired"]
  /\ bytes' = IF a \in Stored THEN bytes ELSE bytes \ {a}
  /\ doomed' = doomed \cup ObjectKeys({a})
  /\ UNCHANGED <<call, gen, uploading, live, fetch>>

\* The deletion of an object, which may fail and is not tried again.
DeleteObject(a) ==
  /\ a \in doomed
  /\ doomed' = doomed \ {a}
  /\ bytes' \in {bytes, bytes \ {a}}
  /\ UNCHANGED <<call, gen, row, uploading, live, fetch>>
-----------------------------------------------------------------------------
(***************************************************************************)
(* The Generation, its Attempts and their fetches                          *)
(***************************************************************************)
\* A new Attempt; the streams of the one before it are not authorised.
Lease(g) ==
  /\ gen[g] = "unfinished" /\ g \notin live
  /\ live' = live \cup {g}
  /\ fetch' = [f \in Fetches |-> IF fetch[f].pc = "stream" /\ fetch[f].gen = g
                                 THEN NoFetch ELSE fetch[f]]
  /\ UNCHANGED <<call, gen, row, storeVars>>

\* The Attempt is settled for a retry, or its lease lapses.
LeaseEnds(g) ==
  /\ g \in live
  /\ live' = live \ {g}
  /\ UNCHANGED <<call, gen, row, storeVars, fetch>>

\* Every terminal transition settles the Attempt and deletes the inputs.
Terminate(g) ==
  LET inputs == {a \in Artifacts : row[a].gen = g} IN
  /\ gen[g] = "unfinished"
  /\ gen' = [gen EXCEPT ![g] = "ended"]
  /\ live' = live \ {g}
  /\ row' = [a \in Artifacts |-> IF a \in inputs
                                 THEN [row[a] EXCEPT !.state = "deleted"] ELSE row[a]]
  /\ bytes' = bytes \ (inputs \ Stored)
  /\ doomed' = doomed \cup ObjectKeys(inputs)
  /\ UNCHANGED <<call, uploading, fetch>>

\* attempt_input: a live Attempt of the Generation the row is linked to.
Authorized(g, a) == g \in live /\ row[a].gen = g /\ row[a].state # "deleted"

\* fetch_artifact, from an offset the Worker chooses
FetchArtifact(f, g, a, offset) ==
  /\ fetch[f].pc = "idle" /\ a \notin Stored
  /\ Authorized(g, a) /\ row[a].state = "available"
  /\ fetch' = [fetch EXCEPT ![f] = [pc |-> "stream", gen |-> g, art |-> a, at |-> offset]]
  /\ UNCHANGED <<call, gen, row, storeVars, live>>

\* Seeded fault: a chunk that leaves one byte counts as the last.
ChunkSpanShort(offset) ==
  LET remaining == Total - offset
      len == IF remaining < ChunkBytes THEN remaining ELSE ChunkBytes
  IN  [len |-> len, last |-> len + 1 >= remaining]

\* next_chunk_span
ChunkSpan(offset) ==
  LET remaining == Total - offset
      len == IF remaining < ChunkBytes THEN remaining ELSE ChunkBytes
  IN  [len |-> len, last |-> len = remaining]

\* stream_remote_local: every chunk is authorised again.  A stream whose
\* Attempt is over ends; one whose bytes are missing is refused.
SendChunk(f) ==
  LET s == fetch[f]  span == ChunkSpan(s.at) IN
  /\ s.pc = "stream"
  /\ fetch' = [fetch EXCEPT ![f] =
       IF s.gen \notin live THEN NoFetch
       ELSE IF ~Authorized(s.gen, s.art) \/ s.art \notin bytes
       THEN [s EXCEPT !.pc = "refused"]
       ELSE [s EXCEPT !.at = @ + span.len, !.pc = IF span.last THEN "done" ELSE @]]
  /\ UNCHANGED <<call, gen, row, storeVars, live>>

\* The Worker drops a stream, or is done with it.
DropFetch(f) ==
  /\ fetch[f].pc # "idle"
  /\ fetch' = [fetch EXCEPT ![f] = NoFetch]
  /\ UNCHANGED <<call, gen, row, storeVars, live>>

\* Remote restarts: transactions roll back, and deletions, uploads and
\* streams in progress are gone.
Restart ==
  /\ call' = [c \in Calls |-> IF call[c].pc \in Open
                              THEN [NoCall EXCEPT !.pc = "failed"] ELSE call[c]]
  /\ doomed' = {} /\ uploading' = {}
  /\ fetch' = [f \in Fetches |-> NoFetch]
  /\ UNCHANGED <<gen, row, bytes, live>>
-----------------------------------------------------------------------------
AdmitStep(c) ==
  \/ Replay(c) \/ CountQueue(c) \/ Resolve(c) \/ InsertAndLink(c) \/ Claim(c)
  \/ RecordKey(c) \/ \E answered \in BOOLEAN : Commit(c, answered)
  \/ \E a \in Artifacts : CheckRow(c, a) \/ Head(c, a)

InputStep(a) ==
  \/ CreateInput(a) \/ PutObject(a) \/ BeginUpload(a) \/ FinishUpload(a)
  \/ Elapse(a) \/ ExpireDue(a) \/ DeleteObject(a)

FetchStep(f) ==
  \/ \E g \in Calls, a \in Artifacts, offset \in 0 .. Total : FetchArtifact(f, g, a, offset)
  \/ SendChunk(f) \/ DropFetch(f)

Next ==
  \/ \E c \in Calls :
       \/ AdmitStep(c) \/ RollBack(c)
       \/ \E k \in Keys, b \in Requests : Submit(c, k, b)
       \/ Lease(c) \/ LeaseEnds(c) \/ Terminate(c)
  \/ \E a \in Artifacts : InputStep(a)
  \/ \E f \in Fetches : FetchStep(f)
  \/ Restart

Spec == Init /\ [][Next]_vars

\* A transaction that can go on does.
FairSpec == Spec /\ \A c \in Calls : WF_vars(AdmitStep(c))
-----------------------------------------------------------------------------
(***************************************************************************)
(* A retried Submit never creates a second Generation: at most one         *)
(* committed Generation has a given idempotency key, whatever calls with   *)
(* that key run at the same time and whichever answers were lost.          *)
(***************************************************************************)
OneGeneration ==
  \A g, h \in Calls :
    gen[g] # "none" /\ gen[h] # "none" /\ call[g].key = call[h].key => g = h

(***************************************************************************)
(* Every answer names a committed Generation of the same key and the same  *)
(* request, so replays agree with the first answer, the lost one included. *)
(***************************************************************************)
AnswersAgree ==
  \A c \in Calls : call[c].pc = "admitted" =>
    LET g == call[c].answer
    IN  /\ g \in Calls /\ gen[g] # "none"
        /\ call[g].key = call[c].key /\ call[g].body = call[c].body

(***************************************************************************)
(* Submit is idempotent: the calls of one key agree on one Generation,     *)
(* whichever of them admit it, replay it or race for its key.              *)
(***************************************************************************)
Idempotent == TypeOK /\ OneGeneration /\ AnswersAgree

(***************************************************************************)
(* An unfinished Generation has its inputs: each is linked to it and to no *)
(* other, is not expired, and its bytes are there, although the sweep, the *)
(* uploads and other admissions run while it is admitted.                  *)
(***************************************************************************)
InputsPresent ==
  \A g \in Nonterminal : \A a \in call[g].body :
    row[a].gen = g /\ Ready(a) /\ a \in bytes /\ a \notin doomed

(***************************************************************************)
(* A Worker with a live Attempt is never refused the bytes of an input,    *)
(* and a stream that ended with its last chunk carried all of them.        *)
(***************************************************************************)
InputsServed ==
  \A f \in Fetches : /\ fetch[f].pc # "refused"
                     /\ fetch[f].pc = "done" => fetch[f].at = Total

(***************************************************************************)
(* Every Submit is answered: the waits of the claim and of the key cannot  *)
(* close a cycle, and no lock outlives its transaction.                    *)
(***************************************************************************)
AdmissionEnds ==
  \A c \in Calls : call[c].pc \in Open ~> call[c].pc \notin Open

\* The refinement mapping: what the committed rows bind and take.
BoundTo == [k \in Keys |-> IF \E g \in Calls : Owns(g, k)
                           THEN call[CHOOSE g \in Calls : Owns(g, k)].body ELSE NoBody]
TakenBy == [a \in Artifacts |-> IF row[a].gen = NoGen THEN NoKey ELSE call[row[a].gen].key]
EndedKeys == {k \in Keys : \E g \in Calls : Owns(g, k) /\ gen[g] = "ended"}

Atomic == INSTANCE AdmissionSpec WITH bound <- BoundTo, taken <- TakenBy, ended <- EndedKeys

(***************************************************************************)
(* The many statements of admit take effect as one step or not at all.     *)
(***************************************************************************)
AdmissionAtomic == Atomic!Spec

(***************************************************************************)
(* "Maximum number of simultaneously nonterminal Generations": the queue   *)
(* never holds more than max_queued_generations.                           *)
(***************************************************************************)
QueueCapacity == Cardinality(Nonterminal) <= MaxQueued
=============================================================================
