---------------------------- MODULE AdmissionSpec ----------------------------
(***************************************************************************)
(* What admission promises: a Submit either has no effect, or in one step  *)
(* binds its idempotency key to its request and takes the request's input  *)
(* Artifacts.  A key is bound once and an Artifact is taken once.          *)
(***************************************************************************)
CONSTANTS Keys, Artifacts, NoBody, NoKey

VARIABLES bound,   \* [Keys -> request, or NoBody]
          taken,   \* [Artifacts -> the key whose request took it, or NoKey]
          ended    \* keys whose Generation is terminal

specVars == <<bound, taken, ended>>

SpecInit ==
  /\ bound = [k \in Keys |-> NoBody]
  /\ taken = [a \in Artifacts |-> NoKey]
  /\ ended = {}

Admit(k, b) ==
  /\ bound[k] = NoBody
  /\ \A a \in b : taken[a] = NoKey
  /\ bound' = [bound EXCEPT ![k] = b]
  /\ taken' = [a \in Artifacts |-> IF a \in b THEN k ELSE taken[a]]
  /\ UNCHANGED ended

End(k) ==
  /\ bound[k] # NoBody /\ k \notin ended
  /\ ended' = ended \cup {k}
  /\ UNCHANGED <<bound, taken>>

SpecNext == \E k \in Keys : End(k) \/ \E b \in SUBSET Artifacts : Admit(k, b)

Spec == SpecInit /\ [][SpecNext]_specVars
=============================================================================
