---------------------------- MODULE QueueStates ----------------------------
(***************************************************************************)
(* The state machines of a Generation and of an Attempt (gpq-domain,       *)
(* state.rs) and the retry policy (failure.rs): pure definitions shared by *)
(* the abstract specification QueueSpec and by the detailed one,           *)
(* Lifecycle.                                                              *)
(***************************************************************************)
EXTENDS Naturals

GenerationState == {"queued", "running", "cancelling", "succeeded", "failed",
                    "cancelled", "expired"}

TerminalGeneration == {"succeeded", "failed", "cancelled", "expired"}

\* "absent" is a Generation that has not been admitted.
GenerationRowState == GenerationState \cup {"absent"}

AttemptState == {"leased", "running", "succeeded", "failed", "cancelled",
                 "lease_expired"}

LiveAttempt == {"leased", "running"}

TerminalAttempt == AttemptState \ LiveAttempt

(***************************************************************************)
(* An Attempt without a row: never created, deleted because its Worker     *)
(* rejected the lease before execution, or deleted by the foreign key's    *)
(* cascade when its Device Pool was withdrawn.                             *)
(***************************************************************************)
AttemptRowState == AttemptState \cup {"none", "rejected", "withdrawn"}

\* GenerationState::can_transition_to
GenerationEdge ==
  ({"queued"} \X {"running", "cancelled", "failed", "expired"})
    \cup ({"running"} \X {"queued", "cancelling", "succeeded", "failed",
                          "cancelled", "expired"})
    \cup ({"cancelling"} \X {"cancelled", "succeeded", "failed"})

\* AttemptState::can_transition_to
AttemptEdge ==
  ({"leased"} \X {"running", "succeeded", "failed", "cancelled",
                  "lease_expired"})
    \cup ({"running"} \X {"succeeded", "failed", "cancelled",
                          "lease_expired"})

FailureKind == {"invalid_input", "unsupported_capability",
                "model_unavailable", "out_of_memory", "backend_crashed",
                "execution_timed_out", "cancelled", "transfer_failed",
                "internal", "worker_lost", "lease_expired"}

\* FailureKind::is_retryable
Retryable == {"out_of_memory", "backend_crashed", "transfer_failed",
              "worker_lost", "lease_expired"}

\* FailureKind::retry_decision
RetryDecision(kind, attemptsUsed, maxAttempts, eligibleRemain) ==
  IF /\ kind \in Retryable
     /\ attemptsUsed < maxAttempts
     /\ kind = "out_of_memory" => eligibleRemain
  THEN "requeue" ELSE "fail"
=============================================================================
