---------------------------- MODULE MCLifecycle ----------------------------
(***************************************************************************)
(* Small instances of Lifecycle for TLC.                                   *)
(***************************************************************************)
EXTENDS Lifecycle, TLC

CONSTANTS w1, w2, p1, p2

\* Every Pool is w1's but p2, which is the only Pool of w2.
OwnerMap == [p \in Pools |-> IF p = p2 THEN w2 ELSE w1]
\* w1 may withdraw its Pool, w2's may be not ready for a while.
Withdrawing ==
  [w \in Workers |-> IF w = w2 THEN {"ready", "unready"} ELSE {"ready", "absent"}]
Steady == [w \in Workers |-> {"ready"}]
AllCapable == [g \in Generations |-> Pools]

\* AllCapable and OwnerMap tell neither Generations nor Attempts apart.
Symmetry == Permutations(Attempts) \cup Permutations(Generations)
=============================================================================
