----------------------------- MODULE QueueSpec -----------------------------
(***************************************************************************)
(* What the queue promises about one Tenant's Generations and Attempts,    *)
(* without leases, transactions, Slots or Workers (ADR 0003): both follow  *)
(* their state machines, and a Generation succeeds together with exactly   *)
(* one Attempt, once and for all.  Lifecycle.tla implements it.            *)
(***************************************************************************)
EXTENDS QueueStates

CONSTANTS Generations,   \* Generation ids
          Attempts,      \* Attempt ids
          NoAttempt      \* accepted_attempt_id IS NULL

VARIABLES gstate,     \* [Generations -> GenerationRowState]
          accepted,   \* [Generations -> Attempts \cup {NoAttempt}]
          astate      \* [Attempts -> AttemptRowState]

queueVars == <<gstate, accepted, astate>>
-----------------------------------------------------------------------------
QueueInit ==
  /\ gstate = [g \in Generations |-> "absent"]
  /\ accepted = [g \in Generations |-> NoAttempt]
  /\ astate = [a \in Attempts |-> "none"]

\* The Attempt's row appears, moves along an edge of its state machine, or is
\* deleted.
AttemptStep(a) ==
  \/ astate[a] = "none" /\ astate'[a] = "leased"
  \/ <<astate[a], astate'[a]>> \in AttemptEdge
  \/ astate[a] = "leased" /\ astate'[a] = "rejected"
  \/ astate[a] \in AttemptState /\ astate'[a] = "withdrawn"

\* The Generation succeeds in the very step in which the Attempt it accepts
\* does.
Accept(g) ==
  /\ <<gstate[g], "succeeded">> \in GenerationEdge
  /\ gstate'[g] = "succeeded"
  /\ accepted[g] = NoAttempt
  /\ \E a \in Attempts : /\ accepted'[g] = a
                         /\ astate[a] \in LiveAttempt
                         /\ astate'[a] = "succeeded"

\* Any other change leaves the accepted result alone.
GenerationStep(g) ==
  \/ Accept(g)
  \/ /\ \/ gstate[g] = "absent" /\ gstate'[g] = "queued"
        \/ /\ <<gstate[g], gstate'[g]>> \in GenerationEdge
           /\ gstate'[g] # "succeeded"
     /\ accepted'[g] = accepted[g]

\* One transaction may change one Generation and several Attempts.
QueueNext ==
  /\ gstate' \in [Generations -> GenerationRowState]
  /\ accepted' \in [Generations -> Attempts \cup {NoAttempt}]
  /\ astate' \in [Attempts -> AttemptRowState]
  /\ \A g \in Generations :
        GenerationStep(g) \/ UNCHANGED <<gstate[g], accepted[g]>>
  /\ \A a \in Attempts :
        /\ AttemptStep(a) \/ UNCHANGED astate[a]
        /\ (astate[a] # "succeeded" /\ astate'[a] = "succeeded")
              => \E g \in Generations : Accept(g) /\ accepted'[g] = a

QueueSpec == QueueInit /\ [][QueueNext]_queueVars
=============================================================================
