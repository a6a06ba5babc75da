--------------------------- MODULE AdmissionProofs ---------------------------
(***************************************************************************)
(* Proofs of Admission's safety properties, and of the atomicity of admit, *)
(* for every number of calls, keys, Artifacts and fetches.                 *)
(*                                                                         *)
(* The invariant says what each open transaction may rely on until it      *)
(* commits: what it has read (Checked), the rows it has locked (Claimed)   *)
(* and the key it has inserted (KeyInserted).                              *)
(***************************************************************************)
EXTENDS Admission, TLAPS

\* A committed Generation belongs to a call that is over, and keeps its key.
CommittedOver ==
  \A c \in Calls :
    /\ gen[c] # "none" => call[c].pc \in {"admitted", "failed"} /\ call[c].key \in Keys
    /\ call[c].pc \in Open => call[c].key \in Keys

\* The primary key of idempotency_keys: a key that waits for its commit has
\* no owner, and no other transaction has inserted it.
KeyInserted ==
  \A c, d \in Calls : call[c].pc = "commit" =>
    /\ ~Owns(d, call[c].key)
    /\ call[d].pc = "commit" /\ call[d].key = call[c].key => c = d

\* The object of an input the transaction has checked stays, unless the
\* input expires, which the claim will see.
Checked ==
  \A c \in Calls :
    /\ call[c].pc \in {"replay", "count", "resolve"} => call[c].left = call[c].body
    /\ call[c].pc \in {"check", "head", "claim"} =>
         \A a \in call[c].body \ call[c].left : a \in Stored =>
           a \in bytes \/ row[a].state \in {"expired", "deleted"}
    /\ call[c].pc = "claim" => call[c].left = {}

\* The rows a transaction has updated stay as it found them, and are its own.
Claimed ==
  \A c \in Calls : call[c].pc \in {"key", "commit"} =>
    \A a \in call[c].body :
      /\ Claimable(a) /\ a \in bytes /\ a \notin doomed
      /\ \A d \in Calls :
           call[d].pc \in {"key", "commit"} /\ a \in call[d].body => d = c

\* Only the objects of inputs that are gone are deleted, and only rows of
\* the other placement are uploaded to.
DoomedGone ==
  /\ \A a \in doomed : row[a].state \in {"expired", "deleted"}
  /\ uploading \cap Stored = {}

\* A link names the committed Generation that asked for the Artifact, and
\* takes it out of the sweep's reach.
LinkedAsked ==
  \A a \in Artifacts : row[a].gen # NoGen =>
    ~row[a].due /\ gen[row[a].gen] # "none" /\ a \in call[row[a].gen].body

\* A live Attempt is of an unfinished Generation, and a stream was
\* authorised for an Artifact that is linked to its Generation.
StreamLinked ==
  /\ \A g \in live : gen[g] = "unfinished"
  /\ \A f \in Fetches : fetch[f].pc = "stream" =>
       /\ fetch[f].art \in Artifacts \ Stored
       /\ fetch[f].gen \in Calls
       /\ row[fetch[f].art].gen = fetch[f].gen

AdmitInv ==
  /\ CommittedOver /\ KeyInserted /\ Checked /\ Claimed
  /\ DoomedGone /\ LinkedAsked /\ StreamLinked
  /\ OneGeneration /\ AnswersAgree /\ InputsPresent /\ InputsServed

IInv == TypeOK /\ AdmitInv
-----------------------------------------------------------------------------
(***************************************************************************)
(* What a step within a transaction leaves of the calls.                   *)
(***************************************************************************)
LEMMA CallType ==
  ASSUME TypeOK, NEW c \in Calls
  PROVE  /\ call[c].pc \in Open \cup {"idle", "admitted", "refused", "failed"}
         /\ call[c].key \in Keys \cup {NoKey}
         /\ call[c].body \in Body /\ call[c].left \in Body
         /\ call[c].answer \in Calls \cup {NoGen}
BY DEF TypeOK, Call

LEMMA NoCallType ==
  ASSUME NEW why \in {"idle", "refused", "failed"}
  PROVE  [NoCall EXCEPT !.pc = why] \in Call
BY DEF NoCall, Call, Body

LEMMA GotoFacts ==
  ASSUME TypeOK, NEW c \in Calls, NEW p \in Open, Goto(c, p)
  PROVE  /\ call' \in [Calls -> Call]
         /\ call'[c].pc = p
         /\ \A d \in Calls : d # c => call'[d] = call[d]
         /\ \A d \in Calls : /\ call'[d].key = call[d].key
                             /\ call'[d].body = call[d].body
                             /\ call'[d].left = call[d].left
                             /\ call'[d].answer = call[d].answer
         /\ UNCHANGED <<gen, row, bytes, doomed, uploading, live, fetch>>
BY DEF TypeOK, Call, Goto, storeVars

LEMMA StopFacts ==
  ASSUME TypeOK, NEW c \in Calls, NEW why \in {"refused", "failed"}, Stop(c, why)
  PROVE  /\ call' \in [Calls -> Call]
         /\ call'[c].pc = why
         /\ \A d \in Calls : d # c => call'[d] = call[d]
         /\ UNCHANGED <<gen, row, bytes, doomed, uploading, live, fetch>>
<1>1. [NoCall EXCEPT !.pc = why] \in Call
  BY NoCallType
<1> QED
  BY <1>1 DEF TypeOK, Stop, storeVars, NoCall

LEMMA AnswerFacts ==
  ASSUME TypeOK, NEW c \in Calls, NEW g \in Calls, Answer(c, g)
  PROVE  /\ call' \in [Calls -> Call]
         /\ call'[c].pc = "admitted" /\ call'[c].answer = g
         /\ \A d \in Calls : d # c => call'[d] = call[d]
         /\ \A d \in Calls : call'[d].key = call[d].key /\ call'[d].body = call[d].body
         /\ UNCHANGED <<gen, row, bytes, doomed, uploading, live, fetch>>
BY DEF TypeOK, Call, Answer, storeVars

-----------------------------------------------------------------------------
(***************************************************************************)
(* A transaction that ends without effect, and one that is answered with   *)
(* the Generation of an earlier call, keep the invariant.                  *)
(***************************************************************************)
LEMMA StopInv ==
  ASSUME IInv, NEW c \in Calls, call[c].pc \in Open,
         NEW why \in {"refused", "failed"}, Stop(c, why)
  PROVE  IInv'
<1> USE StopFacts, CallType DEF IInv
<1>1. TypeOK'
  BY DEF TypeOK
<1>2. gen[c] = "none"
  BY DEF AdmitInv, CommittedOver, Open
<1>3. CommittedOver' /\ OneGeneration' /\ AnswersAgree'
  BY <1>2 DEF AdmitInv, CommittedOver, OneGeneration, AnswersAgree, Open
<1>4. KeyInserted'
  BY <1>2 DEF AdmitInv, KeyInserted, Owns
<1>5. Checked'
  BY DEF AdmitInv, Checked
<1>6. Claimed'
  BY DEF AdmitInv, Claimed, Claimable, Ready
<1>7. DoomedGone' /\ LinkedAsked' /\ StreamLinked' /\ InputsServed'
  BY <1>2 DEF AdmitInv, DoomedGone, LinkedAsked, StreamLinked, InputsServed, TypeOK, Row
<1>8. InputsPresent'
  BY <1>2 DEF AdmitInv, InputsPresent, Nonterminal, Ready
<1> QED
  BY <1>1, <1>3, <1>4, <1>5, <1>6, <1>7, <1>8 DEF AdmitInv

LEMMA AnswerInv ==
  ASSUME IInv, NEW c \in Calls, call[c].pc = "replay", NEW g \in Calls,
         Owns(g, call[c].key), call[g].body = call[c].body, Answer(c, g)
  PROVE  IInv'
<1> USE AnswerFacts, CallType DEF IInv
<1>1. TypeOK'
  BY DEF TypeOK
<1>2. gen[c] = "none"
  BY DEF AdmitInv, CommittedOver, Open
<1>3. CommittedOver' /\ OneGeneration' /\ AnswersAgree'
  BY <1>2 DEF AdmitInv, CommittedOver, OneGeneration, AnswersAgree, Open, Owns
<1>4. KeyInserted'
  BY <1>2 DEF AdmitInv, KeyInserted, Owns
<1>5. Checked'
  BY DEF AdmitInv, Checked
<1>6. Claimed'
  BY DEF AdmitInv, Claimed, Claimable, Ready
<1>7. DoomedGone' /\ LinkedAsked' /\ StreamLinked' /\ InputsServed'
  BY <1>2 DEF AdmitInv, DoomedGone, LinkedAsked, StreamLinked, InputsServed, TypeOK, Row
<1>8. InputsPresent'
  BY <1>2 DEF AdmitInv, InputsPresent, Nonterminal, Ready
<1> QED
  BY <1>1, <1>3, <1>4, <1>5, <1>6, <1>7, <1>8 DEF AdmitInv

(***************************************************************************)
(* A step to p within a transaction keeps it too, if what the transaction  *)
(* may rely on from p on is true.                                          *)
(***************************************************************************)
LEMMA GotoInv ==
  ASSUME IInv, NEW c \in Calls, call[c].pc \in Open, NEW p \in Open, Goto(c, p),
         p \in {"replay", "count", "resolve"} => call[c].left = call[c].body,
         p \in {"check", "head", "claim"} =>
           \A a \in call[c].body \ call[c].left : a \in Stored =>
             a \in bytes \/ row[a].state \in {"expired", "deleted"},
         p = "claim" => call[c].left = {},
         p \in {"key", "commit"} =>
           \A a \in call[c].body :
             /\ Claimable(a) /\ a \in bytes /\ a \notin doomed
             /\ \A d \in Calls : call[d].pc \in {"key", "commit"} /\ a \in call[d].body
                                 => d = c,
         p = "commit" => ~(\E g \in Calls : Owns(g, call[c].key)) /\ ~KeyHeld(call[c].key)
  PROVE  IInv'
<1> USE GotoFacts, CallType DEF IInv
<1>1. TypeOK'
  BY DEF TypeOK
<1>2. gen[c] = "none"
  BY DEF AdmitInv, CommittedOver, Open
<1>3. CommittedOver' /\ OneGeneration' /\ AnswersAgree'
  BY <1>2 DEF AdmitInv, CommittedOver, OneGeneration, AnswersAgree, Open
<1>4. KeyInserted'
  BY <1>2 DEF AdmitInv, KeyInserted, Owns, KeyHeld
<1>5. Checked'
  BY DEF AdmitInv, Checked
<1>6. Claimed'
  BY DEF AdmitInv, Claimed, Claimable, Ready
<1>7. DoomedGone' /\ LinkedAsked' /\ StreamLinked' /\ InputsServed'
  BY <1>2 DEF AdmitInv, DoomedGone, LinkedAsked, StreamLinked, InputsServed, TypeOK, Row
<1>8. InputsPresent'
  BY <1>2 DEF AdmitInv, InputsPresent, Nonterminal, Ready
<1> QED
  BY <1>1, <1>3, <1>4, <1>5, <1>6, <1>7, <1>8 DEF AdmitInv

(***************************************************************************)
(* The transactions of admit.  Each step establishes what the next ones    *)
(* may rely on.                                                            *)
(***************************************************************************)
LEMMA SubmitInv ==
  ASSUME IInv, NEW c \in Calls, NEW k \in Keys, NEW b \in Requests, Submit(c, k, b)
  PROVE  IInv'
<1> USE AdmissionAssumption, CallType DEF IInv
<1>1. /\ call' \in [Calls -> Call]
      /\ call'[c].pc = "replay" /\ call'[c].key = k /\ call'[c].left = call'[c].body
      /\ \A d \in Calls : d # c => call'[d] = call[d]
      /\ UNCHANGED <<gen, row, bytes, doomed, uploading, live, fetch>>
  BY DEF Submit, TypeOK, Call, Open, Body, storeVars
<1>2. TypeOK'
  BY <1>1 DEF TypeOK
<1>3. gen[c] = "none"
  BY DEF Submit, AdmitInv, CommittedOver
<1>4. CommittedOver' /\ OneGeneration' /\ AnswersAgree'
  BY <1>1, <1>3 DEF AdmitInv, CommittedOver, OneGeneration, AnswersAgree
<1>5. KeyInserted'
  BY <1>1, <1>3 DEF AdmitInv, KeyInserted, Owns
<1>6. Checked'
  BY <1>1 DEF AdmitInv, Checked
<1>7. Claimed'
  BY <1>1 DEF AdmitInv, Claimed, Claimable, Ready
<1>8. DoomedGone' /\ LinkedAsked' /\ StreamLinked' /\ InputsServed'
  BY <1>1, <1>3 DEF AdmitInv, DoomedGone, LinkedAsked, StreamLinked, InputsServed, TypeOK, Row
<1>9. InputsPresent'
  BY <1>1, <1>3 DEF AdmitInv, InputsPresent, Nonterminal, Ready
<1> QED
  BY <1>2, <1>4, <1>5, <1>6, <1>7, <1>8, <1>9 DEF AdmitInv

\* The input that was checked is taken from the list of those to check.
LEMMA CheckedInv ==
  ASSUME IInv, NEW c \in Calls, NEW a \in Artifacts,
         call[c].pc \in {"check", "head"}, a \in Stored => a \in bytes,
         NEW p \in {"check", "head"},
         call' \in [Calls -> Call],
         call'[c].pc = p, call'[c].left = call[c].left \ {a},
         call'[c].key = call[c].key, call'[c].body = call[c].body,
         \A d \in Calls : d # c => call'[d] = call[d],
         UNCHANGED <<gen, row, storeVars, live, fetch>>
  PROVE  IInv'
<1> USE CallType DEF IInv, storeVars
<1>1. TypeOK'
  BY DEF TypeOK
<1>2. gen[c] = "none"
  BY DEF AdmitInv, CommittedOver
<1>3. CommittedOver' /\ OneGeneration' /\ AnswersAgree'
  BY <1>2 DEF AdmitInv, CommittedOver, OneGeneration, AnswersAgree, Open
<1>4. KeyInserted'
  BY <1>2 DEF AdmitInv, KeyInserted, Owns
<1>5. Checked'
  BY DEF AdmitInv, Checked
<1>6. Claimed'
  BY DEF AdmitInv, Claimed, Claimable, Ready
<1>7. DoomedGone' /\ LinkedAsked' /\ StreamLinked' /\ InputsServed'
  BY <1>2 DEF AdmitInv, DoomedGone, LinkedAsked, StreamLinked, InputsServed, TypeOK, Row
<1>8. InputsPresent'
  BY <1>2 DEF AdmitInv, InputsPresent, Nonterminal, Ready
<1> QED
  BY <1>1, <1>3, <1>4, <1>5, <1>6, <1>7, <1>8 DEF AdmitInv

\* The call and the rows as a commit leaves them.
LEMMA EndedCall ==
  ASSUME TypeOK, NEW c \in Calls, NEW p \in {"admitted", "failed"},
         NEW g \in Calls \cup {NoGen}
  PROVE  LET new == [call[c] EXCEPT !.pc = p, !.answer = g]
         IN  /\ new \in Call
             /\ new.pc = p /\ new.answer = g
             /\ new.key = call[c].key /\ new.body = call[c].body
BY DEF TypeOK, Call

LEMMA LinkedRow ==
  ASSUME TypeOK, NEW a \in Artifacts, NEW c \in Calls
  PROVE  LET new == [row[a] EXCEPT !.gen = c, !.due = FALSE]
         IN  /\ new \in Row
             /\ new.state = row[a].state /\ new.gen = c /\ new.due = FALSE
BY DEF TypeOK, Row

\* The rows and the key become the Generation's in one step.
LEMMA CommitInv ==
  ASSUME IInv, NEW c \in Calls, NEW answered \in BOOLEAN, Commit(c, answered)
  PROVE  IInv'
<1> USE AdmissionAssumption, CallType DEF IInv
<1>1. /\ call' \in [Calls -> Call]
      /\ call'[c].pc \in {"admitted", "failed"}
      /\ call'[c].pc = "admitted" => call'[c].answer = c
      /\ \A d \in Calls : d # c => call'[d] = call[d]
      /\ \A d \in Calls : call'[d].key = call[d].key /\ call'[d].body = call[d].body
  <2>1. CASE answered
    <3> DEFINE new == [call[c] EXCEPT !.pc = "admitted", !.answer = c]
    <3>1. call' = [call EXCEPT ![c] = new]
      BY <2>1 DEF Commit, TypeOK
    <3>2. /\ new \in Call /\ new.pc = "admitted" /\ new.answer = c
          /\ new.key = call[c].key /\ new.body = call[c].body
      BY EndedCall
    <3> HIDE DEF new
    <3> QED
      BY <3>1, <3>2 DEF TypeOK
  <2>2. CASE ~answered
    <3> DEFINE new == [call[c] EXCEPT !.pc = "failed", !.answer = NoGen]
    <3>1. call' = [call EXCEPT ![c] = new]
      BY <2>2 DEF Commit, TypeOK
    <3>2. /\ new \in Call /\ new.pc = "failed" /\ new.answer = NoGen
          /\ new.key = call[c].key /\ new.body = call[c].body
      BY EndedCall
    <3> HIDE DEF new
    <3> QED
      BY <3>1, <3>2 DEF TypeOK
  <2> QED
    BY <2>1, <2>2
<1>2. /\ call[c].pc = "commit" /\ gen[c] = "none"
      /\ gen' = [gen EXCEPT ![c] = "unfinished"]
      /\ UNCHANGED <<bytes, doomed, uploading, live, fetch>>
  BY DEF Commit, storeVars, AdmitInv, CommittedOver
<1>3. /\ row' \in [Artifacts -> Row]
      /\ \A a \in Artifacts :
           /\ row'[a].state = row[a].state
           /\ a \in call[c].body => row'[a].gen = c /\ row'[a].due = FALSE
           /\ a \notin call[c].body => row'[a] = row[a]
  BY LinkedRow DEF Commit, TypeOK
<1>4. TypeOK'
  BY <1>1, <1>2, <1>3 DEF TypeOK
<1>5. /\ \A a \in call[c].body : Claimable(a) /\ a \in bytes /\ a \notin doomed
      /\ \A a \in call[c].body, d \in Calls :
           call[d].pc \in {"key", "commit"} /\ a \in call[d].body => d = c
      /\ call[c].body \subseteq Artifacts
  BY <1>2 DEF AdmitInv, Claimed, Body
<1>6. \A d \in Calls : ~Owns(d, call[c].key)
  BY <1>2 DEF AdmitInv, KeyInserted
<1>7. CommittedOver'
  BY <1>1, <1>2 DEF AdmitInv, CommittedOver, TypeOK, Open
<1>8. OneGeneration'
  BY <1>1, <1>2, <1>6 DEF AdmitInv, OneGeneration, Owns, TypeOK
<1>9. AnswersAgree'
  BY <1>1, <1>2 DEF AdmitInv, AnswersAgree, TypeOK
<1>10. KeyInserted'
  BY <1>1, <1>2 DEF AdmitInv, KeyInserted, Owns, TypeOK
<1>11. Checked'
  BY <1>1, <1>2, <1>3 DEF AdmitInv, Checked, Body
<1>12. Claimed'
  BY <1>1, <1>2, <1>3, <1>5 DEF AdmitInv, Claimed, Claimable, Ready, Body
<1>13. DoomedGone'
  BY <1>2, <1>3 DEF AdmitInv, DoomedGone, TypeOK
<1>14. LinkedAsked'
  BY <1>1, <1>2, <1>3 DEF AdmitInv, LinkedAsked, TypeOK, Row
<1>15. StreamLinked' /\ InputsServed'
  BY <1>2, <1>3, <1>5 DEF AdmitInv, StreamLinked, InputsServed, TypeOK, Claimable
<1>16. InputsPresent'
  BY <1>1, <1>2, <1>3, <1>5 DEF AdmitInv, InputsPresent, Nonterminal, Ready, Claimable,
     TypeOK, Body
<1> QED
  BY <1>4, <1>7, <1>8, <1>9, <1>10, <1>11, <1>12, <1>13, <1>14, <1>15, <1>16 DEF AdmitInv

LEMMA AdmitStepInv ==
  ASSUME NEW c \in Calls PROVE IInv /\ (AdmitStep(c) \/ RollBack(c)) => IInv'
<1> SUFFICES ASSUME IInv, AdmitStep(c) \/ RollBack(c) PROVE IInv'
  OBVIOUS
<1>1. CASE Replay(c)
  <2>1. ASSUME NEW g \in Calls, Owns(g, call[c].key), call[g].body = call[c].body,
               Answer(c, g)
        PROVE  IInv'
    BY <1>1, <2>1, AnswerInv DEF Replay
  <2>2. ASSUME Stop(c, "refused") PROVE IInv'
    BY <1>1, <2>2, StopInv DEF Replay, Open
  <2>3. ASSUME Goto(c, "count") PROVE IInv'
    BY <1>1, <2>3, GotoInv DEF Replay, Open, IInv, AdmitInv, Checked
  <2> QED
    BY <1>1, <2>1, <2>2, <2>3 DEF Replay
<1>2. CASE CountQueue(c)
  <2>1. ASSUME Stop(c, "refused") PROVE IInv'
    BY <1>2, <2>1, StopInv DEF CountQueue, Open
  <2>2. ASSUME Goto(c, "resolve") PROVE IInv'
    BY <1>2, <2>2, GotoInv DEF CountQueue, Open, IInv, AdmitInv, Checked
  <2> QED
    BY <1>2, <2>1, <2>2 DEF CountQueue
<1>3. CASE Resolve(c)
  <2>1. ASSUME Stop(c, "refused") PROVE IInv'
    BY <1>3, <2>1, StopInv DEF Resolve, Open
  <2>2. ASSUME Goto(c, "check") PROVE IInv'
    BY <1>3, <2>2, GotoInv DEF Resolve, Open, IInv, AdmitInv, Checked
  <2> QED
    BY <1>3, <2>1, <2>2 DEF Resolve
<1>4. CASE InsertAndLink(c)
  <2>1. ASSUME Stop(c, "refused") PROVE IInv'
    BY <1>4, <2>1, StopInv DEF InsertAndLink, Open
  <2>2. ASSUME Goto(c, "claim") PROVE IInv'
    BY <1>4, <2>2, GotoInv DEF InsertAndLink, Open, IInv, AdmitInv, Checked
  <2> QED
    BY <1>4, <2>1, <2>2 DEF InsertAndLink
<1>5. CASE Claim(c)
  <2>1. ASSUME Stop(c, "refused") PROVE IInv'
    BY <1>5, <2>1, StopInv DEF Claim, Open
  <2>2. ASSUME \A a \in call[c].body : Claimable(a), Goto(c, "key") PROVE IInv'
    <3>1. ASSUME NEW a \in call[c].body
          PROVE  a \in bytes /\ a \notin doomed
      BY <1>5, <2>2, <3>1 DEF Claim, IInv, AdmitInv, Checked, DoomedGone, Claimable, Ready
    <3>2. ASSUME NEW a \in call[c].body, NEW d \in Calls,
                 call[d].pc \in {"key", "commit"}, a \in call[d].body
          PROVE  d = c
      BY <1>5, <3>2 DEF Claim, Locked
    <3> QED
      BY <1>5, <2>2, <3>1, <3>2, GotoInv DEF Claim, Open
  <2> QED
    BY <1>5, <2>1, <2>2 DEF Claim
<1>6. CASE RecordKey(c)
  <2>1. ASSUME Stop(c, "failed") PROVE IInv'
    BY <1>6, <2>1, StopInv DEF RecordKey, Open
  <2>2. ASSUME ~(\E g \in Calls : Owns(g, call[c].key)), Goto(c, "commit") PROVE IInv'
    BY <1>6, <2>2, GotoInv DEF RecordKey, Open, IInv, AdmitInv, Claimed
  <2> QED
    BY <1>6, <2>1, <2>2 DEF RecordKey
<1>7. ASSUME NEW answered \in BOOLEAN, Commit(c, answered) PROVE IInv'
  BY <1>7, CommitInv
<1>8. ASSUME NEW a \in Artifacts, CheckRow(c, a) PROVE IInv'
  <2>1. ASSUME Stop(c, "refused") PROVE IInv'
    BY <1>8, <2>1, StopInv DEF CheckRow, Open
  <2>2. ASSUME Goto(c, "head") PROVE IInv'
    BY <1>8, <2>2, GotoInv DEF CheckRow, Open, IInv, AdmitInv, Checked
  <2>3. ASSUME a \notin Stored, call' = [call EXCEPT ![c].left = @ \ {a}],
               UNCHANGED <<gen, row, storeVars, live, fetch>>
        PROVE  IInv'
    <3>1. /\ call' \in [Calls -> Call]
          /\ call'[c].pc = "check" /\ call'[c].left = call[c].left \ {a}
          /\ call'[c].key = call[c].key /\ call'[c].body = call[c].body
          /\ \A d \in Calls : d # c => call'[d] = call[d]
      BY <1>8, <2>3 DEF CheckRow, IInv, TypeOK, Call, Body
    <3> QED
      BY <1>8, <2>3, <3>1, CheckedInv DEF CheckRow
  <2> QED
    BY <1>8, <2>1, <2>2, <2>3 DEF CheckRow
<1>9. ASSUME NEW a \in Artifacts, Head(c, a) PROVE IInv'
  <2>1. ASSUME Stop(c, "refused") PROVE IInv'
    BY <1>9, <2>1, StopInv DEF Head, Open
  <2>2. ASSUME a \in bytes, call' = [call EXCEPT ![c].left = @ \ {a}, ![c].pc = "check"],
               UNCHANGED <<gen, row, storeVars, live, fetch>>
        PROVE  IInv'
    <3>1. /\ call' \in [Calls -> Call]
          /\ call'[c].pc = "check" /\ call'[c].left = call[c].left \ {a}
          /\ call'[c].key = call[c].key /\ call'[c].body = call[c].body
          /\ \A d \in Calls : d # c => call'[d] = call[d]
      BY <1>9, <2>2 DEF Head, IInv, TypeOK, Call, Body, Open
    <3> QED
      BY <1>9, <2>2, <3>1, CheckedInv DEF Head
  <2> QED
    BY <1>9, <2>1, <2>2 DEF Head
<1>10. CASE RollBack(c)
  BY <1>10, StopInv DEF RollBack
<1> QED
  BY <1>1, <1>2, <1>3, <1>4, <1>5, <1>6, <1>7, <1>8, <1>9, <1>10 DEF AdmitStep

-----------------------------------------------------------------------------
(***************************************************************************)
(* A step that leaves the calls and the Generations alone keeps what is    *)
(* said of them.                                                           *)
(***************************************************************************)
LEMMA CallsKept ==
  ASSUME IInv, UNCHANGED <<call, gen>>
  PROVE  CommittedOver' /\ KeyInserted' /\ OneGeneration' /\ AnswersAgree'
BY DEF IInv, AdmitInv, CommittedOver, KeyInserted, OneGeneration, AnswersAgree, Owns

LEMMA DueRow ==
  ASSUME TypeOK, NEW a \in Artifacts
  PROVE  LET new == [row[a] EXCEPT !.due = TRUE]
         IN  new \in Row /\ new.state = row[a].state /\ new.gen = row[a].gen
BY DEF TypeOK, Row

(***************************************************************************)
(* The input Artifacts: uploads, the sweep, and the deletion of objects.   *)
(***************************************************************************)
LEMMA InputInv == ASSUME NEW a \in Artifacts PROVE IInv /\ InputStep(a) => IInv'
<1> SUFFICES ASSUME IInv, InputStep(a) PROVE IInv'
  OBVIOUS
<1> DEFINE Rest == /\ Checked' /\ Claimed' /\ DoomedGone' /\ LinkedAsked'
                   /\ StreamLinked' /\ InputsPresent' /\ InputsServed'
<1> USE AdmissionAssumption, CallType DEF IInv
<1>1. UNCHANGED <<call, gen, live, fetch>>
  BY DEF InputStep, CreateInput, PutObject, BeginUpload, FinishUpload, Elapse, ExpireDue,
         DeleteObject, storeVars
<1>2. /\ TypeOK' /\ bytes' \in SUBSET Artifacts
      /\ \A b \in Artifacts : /\ row'[b].gen = row[b].gen
                              /\ row'[b].state # row[b].state => b = a
                              /\ row'[b].due # row[b].due => b = a
  <2> USE DEF TypeOK, Row
  <2>1. CASE CreateInput(a)
    BY <2>1, <1>1 DEF CreateInput, storeVars
  <2>2. CASE PutObject(a)
    BY <2>2, <1>1 DEF PutObject
  <2>3. CASE BeginUpload(a)
    BY <2>3, <1>1 DEF BeginUpload
  <2>4. CASE FinishUpload(a)
    BY <2>4, <1>1 DEF FinishUpload
  <2>5. CASE Elapse(a)
    <3> DEFINE new == [row[a] EXCEPT !.due = TRUE]
    <3>1. row' = [row EXCEPT ![a] = new]
      BY <2>5 DEF Elapse
    <3>2. new \in Row /\ new.state = row[a].state /\ new.gen = row[a].gen
      BY DueRow
    <3> HIDE DEF new
    <3>3. row' \in [Artifacts -> Row]
      BY <3>1, <3>2
    <3> QED
      BY <2>5, <1>1, <3>1, <3>2, <3>3 DEF Elapse, storeVars
  <2>6. CASE ExpireDue(a)
    BY <2>6, <1>1 DEF ExpireDue, ObjectKeys
  <2>7. CASE DeleteObject(a)
    BY <2>7, <1>1 DEF DeleteObject
  <2> QED
    BY <2>1, <2>2, <2>3, <2>4, <2>5, <2>6, <2>7 DEF InputStep
<1> USE DEF AdmitInv, Checked, Claimed, DoomedGone, LinkedAsked, StreamLinked, InputsPresent,
            InputsServed, Nonterminal, Claimable, Ready, TypeOK, Row, Body
<1>3. CASE CreateInput(a)
  BY <1>1, <1>2, <1>3, CallsKept DEF CreateInput, storeVars
<1>4. CASE PutObject(a)
  BY <1>1, <1>2, <1>4, CallsKept DEF PutObject
<1>5. CASE BeginUpload(a)
  BY <1>1, <1>2, <1>5, CallsKept DEF BeginUpload
<1>6. CASE FinishUpload(a)
  BY <1>1, <1>2, <1>6, CallsKept DEF FinishUpload
<1>7. CASE Elapse(a)
  BY <1>1, <1>2, <1>7, CallsKept DEF Elapse, storeVars
<1>8. CASE ExpireDue(a)
  BY <1>1, <1>2, <1>8, CallsKept DEF ExpireDue, ObjectKeys, Locked
<1>9. CASE DeleteObject(a)
  BY <1>1, <1>2, <1>9, CallsKept DEF DeleteObject
<1> QED
  BY <1>3, <1>4, <1>5, <1>6, <1>7, <1>8, <1>9 DEF InputStep

(***************************************************************************)
(* The Attempts of a Generation, its end, and the Worker's fetches.        *)
(***************************************************************************)
LEMMA LeaseInv == ASSUME NEW g \in Calls PROVE IInv /\ (Lease(g) \/ LeaseEnds(g)) => IInv'
<1> SUFFICES ASSUME IInv, Lease(g) \/ LeaseEnds(g) PROVE IInv'
  OBVIOUS
<1> USE AdmissionAssumption, CallType DEF IInv
<1>1. UNCHANGED <<call, gen, row, bytes, doomed, uploading>>
  BY DEF Lease, LeaseEnds, storeVars
<1>2. /\ live' \in SUBSET Calls
      /\ live' \subseteq live \cup {g}
      /\ gen[g] # "unfinished" => live' \subseteq live
      /\ fetch' \in [Fetches -> Fetch]
      /\ \A f \in Fetches : fetch'[f] \in {fetch[f], NoFetch}
  BY DEF Lease, LeaseEnds, TypeOK, Fetch, NoFetch
<1>3. TypeOK'
  BY <1>1, <1>2 DEF TypeOK
<1>4. Checked' /\ Claimed' /\ DoomedGone' /\ LinkedAsked' /\ InputsPresent'
  BY <1>1 DEF AdmitInv, Checked, Claimed, DoomedGone, LinkedAsked, InputsPresent,
              Nonterminal, Claimable, Ready
<1>5. StreamLinked' /\ InputsServed'
  BY <1>1, <1>2 DEF AdmitInv, StreamLinked, InputsServed, NoFetch
<1> QED
  BY <1>1, <1>3, <1>4, <1>5, CallsKept DEF AdmitInv

LEMMA TerminateInv == ASSUME NEW g \in Calls PROVE IInv /\ Terminate(g) => IInv'
<1> SUFFICES ASSUME IInv, Terminate(g) PROVE IInv'
  OBVIOUS
<1> USE AdmissionAssumption, CallType DEF IInv
<1> DEFINE inputs == {a \in Artifacts : row[a].gen = g}
<1>1. /\ gen[g] = "unfinished" /\ gen' = [gen EXCEPT ![g] = "ended"]
      /\ live' = live \ {g}
      /\ bytes' = bytes \ (inputs \ Stored)
      /\ doomed' = doomed \cup (inputs \cap Stored)
      /\ UNCHANGED <<call, uploading, fetch>>
  BY DEF Terminate, ObjectKeys
<1>2. /\ row' \in [Artifacts -> Row]
      /\ \A a \in Artifacts : /\ row'[a].gen = row[a].gen /\ row'[a].due = row[a].due
                              /\ a \in inputs => row'[a].state = "deleted"
                              /\ a \notin inputs => row'[a] = row[a]
  BY DEF Terminate, TypeOK, Row
<1>3. TypeOK'
  BY <1>1, <1>2 DEF TypeOK
<1>4. CommittedOver' /\ OneGeneration' /\ AnswersAgree' /\ KeyInserted'
  BY <1>1 DEF AdmitInv, CommittedOver, OneGeneration, AnswersAgree, KeyInserted, Owns, TypeOK
<1>5. Checked'
  BY <1>1, <1>2 DEF AdmitInv, Checked, Body
<1>6. Claimed'
  BY <1>1, <1>2 DEF AdmitInv, Claimed, Claimable, Ready, Body
<1>7. DoomedGone' /\ LinkedAsked'
  BY <1>1, <1>2 DEF AdmitInv, DoomedGone, LinkedAsked, TypeOK, Row
<1>8. StreamLinked' /\ InputsServed'
  BY <1>1, <1>2 DEF AdmitInv, StreamLinked, InputsServed, TypeOK
<1>9. InputsPresent'
  BY <1>1, <1>2 DEF AdmitInv, InputsPresent, Nonterminal, Ready, TypeOK, Body
<1> QED
  BY <1>3, <1>4, <1>5, <1>6, <1>7, <1>8, <1>9 DEF AdmitInv

\* next_chunk_span stays within the Artifact, and the last chunk ends it.
LEMMA ChunkFits ==
  ASSUME NEW at \in 0 .. Total
  PROVE  LET span == ChunkSpan(at)
         IN  /\ at + span.len \in 0 .. Total
             /\ span.last => at + span.len = Total
<1> DEFINE remaining == Total - at
           len == IF remaining < ChunkBytes THEN remaining ELSE ChunkBytes
<1>1. ChunkSpan(at).len = len /\ (ChunkSpan(at).last <=> len = remaining)
  BY DEF ChunkSpan
<1>2. len \in 0 .. remaining /\ remaining \in Nat
  BY AdmissionAssumption
<1> QED
  BY <1>1, <1>2, AdmissionAssumption

LEMMA FetchInv == ASSUME NEW f \in Fetches PROVE IInv /\ FetchStep(f) => IInv'
<1> SUFFICES ASSUME IInv, FetchStep(f) PROVE IInv'
  OBVIOUS
<1> USE AdmissionAssumption, CallType DEF IInv
<1>1. UNCHANGED <<call, gen, row, bytes, doomed, uploading, live>>
  BY DEF FetchStep, FetchArtifact, SendChunk, DropFetch, storeVars
<1> DEFINE Served ==
           /\ fetch' \in [Fetches -> Fetch]
           /\ \A h \in Fetches : h # f => fetch'[h] = fetch[h]
           /\ fetch'[f].pc = "stream" => /\ fetch'[f].art \in Artifacts \ Stored
                                         /\ fetch'[f].gen \in Calls
                                         /\ row[fetch'[f].art].gen = fetch'[f].gen
           /\ fetch'[f].pc # "refused" /\ (fetch'[f].pc = "done" => fetch'[f].at = Total)
<1>2. Served
  <2> USE DEF TypeOK
  <2>1. ASSUME NEW g \in Calls, NEW a \in Artifacts, NEW offset \in 0 .. Total,
               FetchArtifact(f, g, a, offset)
        PROVE  Served
    BY <2>1 DEF FetchArtifact, Fetch, Authorized
  <2>2. CASE SendChunk(f)
    <3> DEFINE s == fetch[f]  span == ChunkSpan(s.at)
               next == [s EXCEPT !.at = s.at + span.len,
                                 !.pc = IF span.last THEN "done" ELSE s.pc]
    <3>1. s \in Fetch /\ s.pc = "stream"
      BY <2>2 DEF SendChunk
    <3>2. /\ s.art \in Artifacts \ Stored /\ s.gen \in Calls /\ row[s.art].gen = s.gen
      BY <3>1 DEF AdmitInv, StreamLinked
    <3>3. s.gen \in live => Authorized(s.gen, s.art) /\ s.art \in bytes
      BY <3>2 DEF AdmitInv, StreamLinked, LinkedAsked, InputsPresent, Nonterminal, Ready,
                  Authorized, Row
    <3>4. fetch' = [fetch EXCEPT ![f] = IF s.gen \notin live THEN NoFetch ELSE next]
      BY <2>2, <3>3 DEF SendChunk
    <3>5. /\ s.at + span.len \in 0 .. Total
          /\ span.last => s.at + span.len = Total
      BY <3>1, ChunkFits DEF Fetch
    <3>6. /\ next \in Fetch /\ next.gen = s.gen /\ next.art = s.art
          /\ next.pc \in {"stream", "done"} /\ (next.pc = "done" => next.at = Total)
      BY <3>1, <3>5 DEF Fetch
    <3>7. NoFetch \in Fetch /\ NoFetch.pc = "idle"
      BY DEF NoFetch, Fetch
    <3> HIDE DEF next
    <3> QED
      BY <3>2, <3>4, <3>6, <3>7
  <2>3. CASE DropFetch(f)
    BY <2>3 DEF DropFetch, NoFetch, Fetch
  <2> QED
    BY <2>1, <2>2, <2>3 DEF FetchStep
<1>3. TypeOK'
  BY <1>1, <1>2 DEF TypeOK
<1>4. Checked' /\ Claimed' /\ DoomedGone' /\ LinkedAsked' /\ InputsPresent'
  BY <1>1 DEF AdmitInv, Checked, Claimed, DoomedGone, LinkedAsked, InputsPresent,
              Nonterminal, Claimable, Ready
<1>5. StreamLinked' /\ InputsServed'
  BY <1>1, <1>2 DEF AdmitInv, StreamLinked, InputsServed
<1> QED
  BY <1>1, <1>3, <1>4, <1>5, CallsKept DEF AdmitInv

LEMMA RestartInv == IInv /\ Restart => IInv'
<1> SUFFICES ASSUME IInv, Restart PROVE IInv'
  OBVIOUS
<1> USE AdmissionAssumption, CallType DEF IInv
<1>1. /\ call' \in [Calls -> Call]
      /\ \A c \in Calls : \/ call[c].pc \in Open /\ call'[c].pc = "failed"
                          \/ call[c].pc \notin Open /\ call'[c] = call[c]
      /\ UNCHANGED <<gen, row, bytes, live>> /\ doomed' = {} /\ uploading' = {}
  BY NoCallType DEF Restart, TypeOK, NoCall
<1>2. fetch' \in [Fetches -> Fetch] /\ \A f \in Fetches : fetch'[f].pc = "idle"
  BY DEF Restart, NoFetch, Fetch
<1>3. TypeOK'
  BY <1>1, <1>2 DEF TypeOK
<1>4. \A c \in Calls : gen[c] # "none" => call'[c] = call[c]
  BY <1>1 DEF AdmitInv, CommittedOver, Open
<1>5. CommittedOver' /\ OneGeneration' /\ AnswersAgree' /\ KeyInserted'
  BY <1>1, <1>4 DEF AdmitInv, CommittedOver, OneGeneration, AnswersAgree, KeyInserted, Open
<1>6. Checked' /\ Claimed' /\ DoomedGone'
  BY <1>1 DEF AdmitInv, Checked, Claimed, DoomedGone, Open
<1>7. LinkedAsked' /\ StreamLinked' /\ InputsServed'
  BY <1>1, <1>2, <1>4 DEF AdmitInv, LinkedAsked, StreamLinked, InputsServed, TypeOK, Row
<1>8. InputsPresent'
  BY <1>1, <1>4 DEF AdmitInv, InputsPresent, Nonterminal, Ready
<1> QED
  BY <1>3, <1>5, <1>6, <1>7, <1>8 DEF AdmitInv

LEMMA InitInv == Init => IInv
<1> SUFFICES ASSUME Init PROVE IInv
  OBVIOUS
<1> USE AdmissionAssumption DEF Init
<1>1. TypeOK
  <2>1. NoCall \in Call
    BY DEF NoCall, Call, Body
  <2>2. NoRow \in Row
    BY DEF NoRow, Row
  <2>3. NoFetch \in Fetch
    BY DEF NoFetch, Fetch
  <2> QED
    BY <2>1, <2>2, <2>3 DEF TypeOK
<1>2. CommittedOver /\ KeyInserted /\ Checked /\ Claimed
  BY DEF CommittedOver, KeyInserted, Checked, Claimed, NoCall, Open
<1>3. DoomedGone /\ LinkedAsked /\ StreamLinked
  BY DEF DoomedGone, LinkedAsked, StreamLinked, NoRow, NoFetch
<1>4. OneGeneration /\ AnswersAgree /\ InputsPresent /\ InputsServed
  BY DEF OneGeneration, AnswersAgree, InputsPresent, InputsServed, Nonterminal, NoCall, NoFetch
<1> QED
  BY <1>1, <1>2, <1>3, <1>4 DEF IInv, AdmitInv

LEMMA NextInv == IInv /\ [Next]_vars => IInv'
<1>1. IInv /\ UNCHANGED vars => IInv'
  BY DEF IInv, AdmitInv, TypeOK, CommittedOver, KeyInserted, Checked, Claimed, DoomedGone,
         LinkedAsked, StreamLinked, OneGeneration, AnswersAgree, InputsPresent, InputsServed,
         Nonterminal, Owns, Claimable, Ready, vars, storeVars
<1> QED
  BY <1>1, AdmitStepInv, SubmitInv, LeaseInv, TerminateInv, InputInv, FetchInv, RestartInv
  DEF Next

LEMMA Invariance == Spec => []IInv
BY InitInv, NextInv, PTL DEF Spec

-----------------------------------------------------------------------------
(***************************************************************************)
(* A retried Submit never creates a second Generation, and every answer    *)
(* names the one of its key and request, for every number of calls and     *)
(* keys (replay_idempotent, record_idempotency_key).                       *)
(***************************************************************************)
THEOREM IdempotenceCorrect == Spec => []Idempotent
<1>1. IInv => Idempotent
  BY DEF IInv, AdmitInv, Idempotent
<1> QED
  BY Invariance, <1>1, PTL

(***************************************************************************)
(* An unfinished Generation has its inputs, linked to it alone and with    *)
(* their bytes, whatever the sweep and other admissions do in between      *)
(* (validate_input_artifacts, link_input_artifacts, expire_due).           *)
(***************************************************************************)
THEOREM InputsPresentCorrect == Spec => []InputsPresent
<1>1. IInv => InputsPresent
  BY DEF IInv, AdmitInv
<1> QED
  BY Invariance, <1>1, PTL

(***************************************************************************)
(* A Worker with a live Attempt is never refused an input, and a stream    *)
(* that ended carried all of it, for every size of Artifact and of chunk   *)
(* (attempt_input, next_chunk_span).                                       *)
(***************************************************************************)
THEOREM InputsServedCorrect == Spec => []InputsServed
<1>1. IInv => InputsServed
  BY DEF IInv, AdmitInv
<1> QED
  BY Invariance, <1>1, PTL

-----------------------------------------------------------------------------
(***************************************************************************)
(* The refinement.  A key is bound to the request of its owner, of which   *)
(* there is one.                                                           *)
(***************************************************************************)
OwnerBinds ==
  \A k \in Keys :
    /\ \A g \in Calls : Owns(g, k) => BoundTo[k] = call[g].body /\ BoundTo[k] # NoBody
    /\ ~(\E g \in Calls : Owns(g, k)) => BoundTo[k] = NoBody

LEMMA Binding == IInv => OwnerBinds
<1> SUFFICES ASSUME IInv, NEW k \in Keys
             PROVE  /\ \A g \in Calls : Owns(g, k) =>
                         BoundTo[k] = call[g].body /\ BoundTo[k] # NoBody
                    /\ ~(\E g \in Calls : Owns(g, k)) => BoundTo[k] = NoBody
  BY DEF OwnerBinds
<1>1. ASSUME NEW g \in Calls, Owns(g, k)
      PROVE  BoundTo[k] = call[g].body /\ BoundTo[k] # NoBody
  <2> DEFINE owner == CHOOSE h \in Calls : Owns(h, k)
  <2>1. owner \in Calls /\ Owns(owner, k)
    BY <1>1
  <2>2. owner = g
    BY <1>1, <2>1 DEF IInv, AdmitInv, OneGeneration, Owns
  <2>3. BoundTo[k] = call[g].body
    BY <1>1, <2>2 DEF BoundTo
  <2> QED
    BY <2>3, CallType, AdmissionAssumption DEF IInv, Body
<1> QED
  BY <1>1 DEF BoundTo

\* A step that leaves committed Generations and links alone is not seen.
LEMMA Unseen ==
  ASSUME IInv, OwnerBinds, OwnerBinds', gen' = gen,
         \A g \in Calls : gen[g] # "none" =>
           call'[g].key = call[g].key /\ call'[g].body = call[g].body,
         \A a \in Artifacts : row'[a].gen = row[a].gen
  PROVE  UNCHANGED <<BoundTo, TakenBy, EndedKeys>>
<1>1. \A g \in Calls, k \in Keys : Owns(g, k)' <=> Owns(g, k)
  BY DEF Owns
<1>2. BoundTo' = BoundTo
  <2>1. ASSUME NEW k \in Keys PROVE BoundTo'[k] = BoundTo[k]
    <3>1. CASE \E g \in Calls : Owns(g, k)
      <4>1. PICK g \in Calls : Owns(g, k)
        BY <3>1
      <4>2. BoundTo[k] = call[g].body
        BY <4>1 DEF OwnerBinds
      <4>3. Owns(g, k)'
        BY <4>1, <1>1
      <4>4. BoundTo'[k] = call'[g].body
        BY <4>3 DEF OwnerBinds
      <4> QED
        BY <4>1, <4>2, <4>4 DEF Owns
    <3>2. CASE ~(\E g \in Calls : Owns(g, k))
      <4>1. ~(\E g \in Calls : Owns(g, k)')
        BY <3>2, <1>1
      <4> QED
        BY <3>2, <4>1 DEF BoundTo
    <3> QED
      BY <3>1, <3>2
  <2> QED
    BY <2>1 DEF BoundTo
<1>3. TakenBy' = TakenBy
  BY DEF TakenBy, IInv, AdmitInv, LinkedAsked, TypeOK, Row
<1>4. EndedKeys' = EndedKeys
  BY <1>1 DEF EndedKeys
<1> QED
  BY <1>2, <1>3, <1>4

\* The commit is the one step in which a key is bound and Artifacts taken.
LEMMA CommitAdmits ==
  ASSUME IInv, OwnerBinds, OwnerBinds',
         NEW c \in Calls, NEW answered \in BOOLEAN, Commit(c, answered)
  PROVE  Atomic!SpecNext
<1> USE CallType DEF IInv
<1>a. call[c].key \in Keys /\ call[c].body \in SUBSET Artifacts
  BY DEF Commit, AdmitInv, CommittedOver, Open, Body
<1>b. PICK k \in Keys, b \in SUBSET Artifacts : k = call[c].key /\ b = call[c].body
  BY <1>a
<1>1. /\ call[c].pc = "commit" /\ gen[c] = "none"
      /\ gen' = [gen EXCEPT ![c] = "unfinished"]
  BY DEF Commit, AdmitInv, CommittedOver
<1>2. \A d \in Calls : call'[d].key = call[d].key /\ call'[d].body = call[d].body
  <2>1. CASE answered
    BY <2>1 DEF Commit, TypeOK, Call
  <2>2. CASE ~answered
    BY <2>2 DEF Commit, TypeOK, Call
  <2> QED
    BY <2>1, <2>2
<1>3. \A a \in Artifacts : /\ a \in b => row'[a].gen = c /\ row[a].gen = NoGen
                           /\ a \notin b => row'[a].gen = row[a].gen
  <2>1. \A a \in Artifacts : /\ a \in b => row'[a].gen = c
                             /\ a \notin b => row'[a].gen = row[a].gen
    BY <1>b, LinkedRow DEF Commit
  <2>2. \A a \in b : row[a].gen = NoGen
    BY <1>1, <1>b DEF AdmitInv, Claimed, Claimable
  <2> QED
    BY <2>1, <2>2
<1>4. \A g \in Calls, j \in Keys : Owns(g, j)' <=> Owns(g, j) \/ (g = c /\ j = k)
  BY <1>b, <1>1, <1>2 DEF Owns, TypeOK
<1>5. \A g \in Calls : ~Owns(g, k)
  BY <1>b, <1>1 DEF AdmitInv, KeyInserted
<1>6. BoundTo[k] = NoBody
  BY <1>1, <1>5 DEF OwnerBinds
<1>7. \A a \in b : TakenBy[a] = NoKey
  BY <1>1, <1>3 DEF TakenBy
<1>8. BoundTo' = [BoundTo EXCEPT ![k] = b]
  <2>1. BoundTo'[k] = b
    <3>1. Owns(c, k)'
      BY <1>1, <1>4
    <3>2. BoundTo'[k] = call'[c].body
      BY <1>1, <3>1 DEF OwnerBinds
    <3> QED
      BY <3>2, <1>2, <1>b
  <2>2. ASSUME NEW j \in Keys, j # k PROVE BoundTo'[j] = BoundTo[j]
    <3>1. CASE \E g \in Calls : Owns(g, j)
      <4>1. PICK g \in Calls : Owns(g, j)
        BY <3>1
      <4>2. Owns(g, j)'
        BY <4>1, <1>4
      <4>3. BoundTo[j] = call[g].body /\ BoundTo'[j] = call'[g].body
        BY <4>1, <4>2 DEF OwnerBinds
      <4> QED
        BY <4>3, <1>2
    <3>2. CASE ~(\E g \in Calls : Owns(g, j))
      <4>1. ~(\E g \in Calls : Owns(g, j)')
        BY <3>2, <2>2, <1>4
      <4> QED
        BY <3>2, <4>1 DEF BoundTo
    <3> QED
      BY <3>1, <3>2
  <2> QED
    BY <1>1, <2>1, <2>2 DEF BoundTo
<1>9. TakenBy' = [a \in Artifacts |-> IF a \in b THEN k ELSE TakenBy[a]]
  BY <1>b, <1>2, <1>3, AdmissionAssumption DEF TakenBy, TypeOK, Row
<1>10. EndedKeys' = EndedKeys
  <2>1. ASSUME NEW j \in Keys, NEW g \in Calls
        PROVE  (Owns(g, j) /\ gen[g] = "ended")' <=> (Owns(g, j) /\ gen[g] = "ended")
    BY <1>1, <1>4 DEF TypeOK
  <2> QED
    BY <2>1 DEF EndedKeys
<1>11. Atomic!Admit(k, b)
  BY <1>6, <1>7, <1>8, <1>9, <1>10 DEF Atomic!Admit
<1> QED
  BY <1>1, <1>11 DEF Atomic!SpecNext

\* The end of a Generation is the end of its key.
LEMMA TerminateEnds ==
  ASSUME IInv, OwnerBinds, OwnerBinds', NEW g \in Calls, Terminate(g)
  PROVE  Atomic!SpecNext
<1> DEFINE k == call[g].key
<1> USE CallType DEF IInv
<1>1. /\ gen[g] = "unfinished" /\ gen' = [gen EXCEPT ![g] = "ended"] /\ call' = call
      /\ k \in Keys
      /\ \A a \in Artifacts : row'[a].gen = row[a].gen
  BY DEF Terminate, AdmitInv, CommittedOver, TypeOK, Row
<1>2. \A h \in Calls, j \in Keys : Owns(h, j)' <=> Owns(h, j)
  BY <1>1 DEF Owns, TypeOK
<1>3. Owns(g, k)
  BY <1>1 DEF Owns
<1>4. BoundTo[k] # NoBody
  BY <1>1, <1>3 DEF OwnerBinds
<1>5. k \notin EndedKeys
  BY <1>1, <1>3 DEF EndedKeys, AdmitInv, OneGeneration, Owns
<1>6. EndedKeys' = EndedKeys \cup {k}
  <2>1. ASSUME NEW j \in Keys, NEW h \in Calls
        PROVE  (Owns(h, j) /\ gen[h] = "ended")'
                 <=> (Owns(h, j) /\ gen[h] = "ended") \/ (h = g /\ j = k)
    BY <1>1, <1>2, <1>3 DEF TypeOK, Owns
  <2> QED
    BY <1>1, <2>1 DEF EndedKeys
<1>7. BoundTo' = BoundTo
  <2>1. ASSUME NEW j \in Keys PROVE BoundTo'[j] = BoundTo[j]
    <3>1. CASE \E h \in Calls : Owns(h, j)
      <4>1. PICK h \in Calls : Owns(h, j)
        BY <3>1
      <4>2. Owns(h, j)'
        BY <4>1, <1>2
      <4> QED
        BY <4>1, <4>2, <1>1 DEF OwnerBinds
    <3>2. CASE ~(\E h \in Calls : Owns(h, j))
      <4>1. ~(\E h \in Calls : Owns(h, j)')
        BY <3>2, <1>2
      <4> QED
        BY <3>2, <4>1 DEF BoundTo
    <3> QED
      BY <3>1, <3>2
  <2> QED
    BY <2>1 DEF BoundTo
<1>8. TakenBy' = TakenBy
  BY <1>1 DEF TakenBy
<1>9. Atomic!End(k)
  BY <1>4, <1>5, <1>6, <1>7, <1>8 DEF Atomic!End
<1> QED
  BY <1>1, <1>9 DEF Atomic!SpecNext

\* No other step binds, takes or ends anything.
LEMMA OtherSteps ==
  ASSUME IInv, [Next]_vars,
         ~(\E c \in Calls, answered \in BOOLEAN : Commit(c, answered)),
         ~(\E g \in Calls : Terminate(g))
  PROVE  /\ gen' = gen
         /\ \A g \in Calls : gen[g] # "none" => call'[g] = call[g]
         /\ \A a \in Artifacts : row'[a].gen = row[a].gen
<1> DEFINE Kept == /\ gen' = gen
                   /\ \A g \in Calls : gen[g] # "none" => call'[g] = call[g]
                   /\ \A a \in Artifacts : row'[a].gen = row[a].gen
<1>1. \A g \in Calls : gen[g] # "none" => call[g].pc \in {"admitted", "failed"}
  BY DEF IInv, AdmitInv, CommittedOver
<1>2. ASSUME NEW c \in Calls, AdmitStep(c) \/ RollBack(c) PROVE Kept
  <2>1. call[c].pc \in Open /\ UNCHANGED <<gen, row>>
    BY <1>2 DEF AdmitStep, RollBack, Replay, CountQueue, Resolve, InsertAndLink, Claim,
                RecordKey, CheckRow, Head, Goto, Stop, Answer, Open
  <2>2. \A d \in Calls : d # c => call'[d] = call[d]
    BY <1>2 DEF AdmitStep, RollBack, Replay, CountQueue, Resolve, InsertAndLink, Claim,
                RecordKey, CheckRow, Head, Goto, Stop, Answer, IInv, TypeOK
  <2> QED
    BY <1>1, <2>1, <2>2 DEF Open
<1>3. ASSUME NEW c \in Calls, NEW k \in Keys, NEW b \in Requests, Submit(c, k, b) PROVE Kept
  BY <1>1, <1>3 DEF Submit, IInv, TypeOK
<1>4. ASSUME NEW g \in Calls, Lease(g) \/ LeaseEnds(g) PROVE Kept
  BY <1>4 DEF Lease, LeaseEnds
<1>5. ASSUME NEW a \in Artifacts, InputStep(a) PROVE Kept
  BY <1>5 DEF InputStep, CreateInput, PutObject, BeginUpload, FinishUpload, Elapse, ExpireDue,
              DeleteObject, IInv, TypeOK, Row
<1>6. ASSUME NEW f \in Fetches, FetchStep(f) PROVE Kept
  BY <1>6 DEF FetchStep, FetchArtifact, SendChunk, DropFetch
<1>7. CASE Restart
  BY <1>1, <1>7 DEF Restart, Open
<1>8. CASE UNCHANGED vars
  BY <1>8 DEF vars
<1> QED
  BY <1>2, <1>3, <1>4, <1>5, <1>6, <1>7, <1>8 DEF Next

(***************************************************************************)
(* The many statements of admit take effect as one step or not at all: for *)
(* every number of concurrent calls, what the database holds after each    *)
(* statement is what an atomic admission would have left.                  *)
(***************************************************************************)
THEOREM AdmissionRefines == Spec => AdmissionAtomic
<1>1. Init => Atomic!SpecInit
  BY AdmissionAssumption
  DEF Init, Atomic!SpecInit, BoundTo, TakenBy, EndedKeys, Owns, NoRow, NoCall
<1>2. ASSUME IInv, OwnerBinds, OwnerBinds', [Next]_vars
      PROVE  [Atomic!SpecNext]_<<BoundTo, TakenBy, EndedKeys>>
  <2>1. ASSUME NEW c \in Calls, NEW answered \in BOOLEAN, Commit(c, answered)
        PROVE  Atomic!SpecNext
    BY <1>2, <2>1, CommitAdmits
  <2>2. ASSUME NEW g \in Calls, Terminate(g) PROVE Atomic!SpecNext
    BY <1>2, <2>2, TerminateEnds
  <2>3. CASE /\ ~(\E c \in Calls, answered \in BOOLEAN : Commit(c, answered))
             /\ ~(\E g \in Calls : Terminate(g))
    BY <1>2, <2>3, OtherSteps, Unseen
  <2> QED
    BY <2>1, <2>2, <2>3
<1>3. IInv /\ OwnerBinds /\ OwnerBinds' /\ [Next]_vars
        => [Atomic!SpecNext]_Atomic!specVars
  BY <1>2 DEF Atomic!specVars
<1> QED
  BY Invariance, Binding, <1>1, <1>3, PTL DEF Spec, AdmissionAtomic, Atomic!Spec
=============================================================================
