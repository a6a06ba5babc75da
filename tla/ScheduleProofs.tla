--------------------------- MODULE ScheduleProofs ---------------------------
(***************************************************************************)
(* Theorems about Schedule, for every set of Pools, every finite set of    *)
(* Generations and every report, request and limit.                        *)
(*                                                                         *)
(* What a pass plans is the value of CHOOSE in First, so the proofs first  *)
(* show that the orders of select_next have a first element in every set   *)
(* of queued Generations: by the place in the queue (OldestFirst), by      *)
(* priority and place (HighestFirst) and by the resident model, priority   *)
(* and place (WarmestFirst).                                               *)
(***************************************************************************)
EXTENDS Schedule, SequenceTheorems, FiniteSetTheorems, WellFoundedInduction, TLAPS

QueueInv ==
  /\ order \in Seq(Generations)
  /\ \A g \in Generations : Leased(g) => attempts[g] > 0

\* What is planned was admitted by the row of then; no row, no Slots.
PlanInv ==
  /\ \A a \in plan : a[2] \in Admissible[a[3]]
  /\ \A p \in Pools : capability[p] = NoRow => slots[p] = 0

IInv == TypeOK /\ SlotsKept /\ QueueInv /\ PlanInv
-----------------------------------------------------------------------------
LEMMA SmallestNat ==
  ASSUME NEW T, T \subseteq Nat, T # {}
  PROVE  \E i \in T : \A j \in T : i <= j
<1>1. IsWellFoundedOn(OpToRel(<, Nat), Nat)
  BY NatLessThanWellFounded
<1>2. PICK i \in T : \A j \in T : ~(<<j, i>> \in OpToRel(<, Nat))
  BY <1>1, WFMin, Zenon
<1>3. \A j \in T : ~(j < i)
  BY <1>2 DEF OpToRel
<1> QED
  BY <1>3

LEMMA OldestFirst ==
  ASSUME order \in Seq(Generations), NEW S, S \subseteq Unfinished, S # {}
  PROVE  \E g \in S : \A h \in S \ {g} : Older(g, h)
<1> DEFINE T == {i \in DOMAIN order : order[i] \in S}
<1>1. \A g \in S : \E i \in T : order[i] = g
  BY DEF Unfinished, ToSet
<1>2. DOMAIN order = 1..Len(order) /\ Len(order) \in Nat
  OBVIOUS
<1>3. T \subseteq Nat /\ T # {}
  BY <1>1, <1>2
<1>4. PICK i \in T : \A j \in T : i <= j
  BY <1>3, SmallestNat
<1>5. ASSUME NEW h \in S \ {order[i]}
      PROVE  Older(order[i], h)
  <2>1. PICK j \in T : order[j] = h
    BY <1>1
  <2>2. i < j
    BY <1>2, <1>4, <2>1
  <2> QED
    BY <2>1, <2>2 DEF Older
<1> QED
  BY <1>5

LEMMA HighestFirst ==
  ASSUME order \in Seq(Generations), NEW S, S \subseteq Unfinished, S # {}
  PROVE  \E g \in S : \A h \in S \ {g} : HigherOrOlder(g, h)
<1> DEFINE Rank(g) == 9 - Request[g].priority
           T == {Rank(g) : g \in S}
<1>1. Unfinished \subseteq Generations
  BY DEF Unfinished, ToSet
<1>2. \A g \in S : Request[g].priority \in 0..9
  BY <1>1, ScheduleAssumption
<1>3. T \subseteq Nat /\ T # {}
  BY <1>2
<1>4. PICK r \in T : \A j \in T : r <= j
  BY <1>3, SmallestNat
<1> DEFINE Top == {g \in S : Rank(g) = r}
<1>5. Top \subseteq Unfinished /\ Top # {}
  BY <1>4
<1>6. PICK g \in Top : \A h \in Top \ {g} : Older(g, h)
  BY <1>5, OldestFirst
<1>7. ASSUME NEW h \in S \ {g}
      PROVE  HigherOrOlder(g, h)
  <2>1. Rank(g) <= Rank(h)
    BY <1>4, <1>6
  <2>2. CASE Rank(h) = Rank(g)
    <3>1. Older(g, h)
      BY <1>6, <2>2
    <3>2. Request[g].priority = Request[h].priority
      BY <1>2, <2>2
    <3> QED
      BY <3>1, <3>2 DEF HigherOrOlder
  <2>3. CASE Rank(h) # Rank(g)
    <3>1. Request[g].priority > Request[h].priority
      BY <1>2, <2>1, <2>3
    <3> QED
      BY <3>1 DEF HigherOrOlder
  <2> QED
    BY <2>2, <2>3
<1> QED
  BY <1>7

LEMMA WarmestFirst ==
  ASSUME order \in Seq(Generations), NEW S, S \subseteq Unfinished, S # {}, NEW p
  PROVE  \E g \in S : \A h \in S \ {g} : ResidentFirst(p, g, h)
<1> DEFINE Warm == {g \in S : Request[g].version = resident[p]}
<1>1. CASE Warm = {}
  <2>1. PICK g \in S : \A h \in S \ {g} : HigherOrOlder(g, h)
    BY HighestFirst
  <2> QED
    BY <1>1, <2>1 DEF ResidentFirst
<1>2. CASE Warm # {}
  <2>1. PICK g \in Warm : \A h \in Warm \ {g} : HigherOrOlder(g, h)
    BY <1>2, HighestFirst
  <2>2. ASSUME NEW h \in S \ {g}
        PROVE  ResidentFirst(p, g, h)
    <3>1. CASE h \in Warm
      BY <2>1, <3>1 DEF ResidentFirst
    <3>2. CASE h \notin Warm
      BY <2>1, <3>2 DEF ResidentFirst
    <3> QED
      BY <3>1, <3>2
  <2> QED
    BY <2>2
<1> QED
  BY <1>1, <1>2
-----------------------------------------------------------------------------
\* select_next returns one of the Generations it is given.
LEMMA SelectNextEligible ==
  ASSUME order \in Seq(Generations), NEW S, S \subseteq Unfinished, S # {}, NEW p
  PROVE  SelectNext(p, S) \in S
<1> DEFINE late == {g \in S : Overdue(g)}
<1>1. CASE late # {}
  <2>1. \E g \in late : \A h \in late \ {g} : Older(g, h)
    BY <1>1, OldestFirst
  <2>2. First(late, Older) \in late
    BY <2>1 DEF First
  <2> QED
    BY <1>1, <2>2 DEF SelectNext
<1>2. CASE late = {}
  <2>1. \E g \in S : \A h \in S \ {g} : ResidentFirst(p, g, h)
    BY WarmestFirst
  <2>2. (CHOOSE g \in S : \A h \in S \ {g} : ResidentFirst(p, g, h)) \in S
    BY <2>1
  <2> QED
    BY <1>2, <2>2 DEF SelectNext, First
<1> QED
  BY <1>1, <1>2

\* select_batch returns queued Generations the Slot admits.
LEMMA SelectBatchAdmits ==
  ASSUME order \in Seq(Generations), NEW C, C \subseteq Unfinished, NEW p
  PROVE  SelectBatch(p, C) \subseteq {g \in C : Admits(p, g)}
<1> DEFINE eligible == {g \in C : Admits(p, g)}
<1>1. CASE FreeSlots(p) = 0 \/ eligible = {}
  BY <1>1 DEF SelectBatch
<1>2. CASE ~(FreeSlots(p) = 0 \/ eligible = {})
  <2>1. SelectNext(p, eligible) \in eligible
    BY <1>2, SelectNextEligible
  <2> QED
    BY <1>2, <2>1 DEF SelectBatch
<1> QED
  BY <1>1, <1>2

LEMMA PlanAdmits ==
  ASSUME order \in Seq(Generations), ready \subseteq Pools,
         capability \in [Pools -> Rows]
  PROVE  /\ PlanAssignments \subseteq Pools \X Generations \X Rows
         /\ \A a \in PlanAssignments : a[2] \in Admissible[a[3]]
<1>1. Unfinished \subseteq Generations
  BY DEF Unfinished, ToSet
<1> DEFINE C(p) == {g \in QueuedCandidates(FetchLimit) : p \notin excluded[g]}
<1>2. \A p : C(p) \subseteq Unfinished
  BY DEF QueuedCandidates, Queued
<1>3. \A p : SelectBatch(p, C(p)) \subseteq {g \in C(p) : Admits(p, g)}
  BY <1>2, SelectBatchAdmits
<1>4. ASSUME NEW x \in PlanAssignments
      PROVE  /\ x \in Pools \X Generations \X Rows
             /\ x[2] \in Admissible[x[3]]
  <2>1. PICK p \in ready \cap online :
            x \in {p} \X SelectBatch(p, C(p)) \X {capability[p]}
    BY <1>4 DEF PlanAssignments
  <2>2. /\ x = <<x[1], x[2], x[3]>> /\ x[1] = p /\ x[3] = capability[p]
        /\ x[2] \in SelectBatch(p, C(p))
    BY <2>1
  <2>3. x[2] \in Generations /\ Admits(p, x[2])
    BY <1>1, <1>2, <1>3, <2>2
  <2>4. x[1] \in Pools /\ x[3] \in Rows
    BY <2>1, <2>2
  <2>5. x \in Pools \X Generations \X Rows
    BY <2>2, <2>3, <2>4
  <2> QED
    BY <2>2, <2>3, <2>5 DEF Admits
<1> QED
  BY <1>4
-----------------------------------------------------------------------------
\* What a Generation leaves behind in the queue when it ends.
LEMMA QueueWithout ==
  ASSUME order \in Seq(Generations), IsInjective(order), NEW g \in Unfinished
  PROVE  /\ RemoveFirst(order, g) \in Seq(Generations)
         /\ IsInjective(RemoveFirst(order, g))
         /\ ToSet(RemoveFirst(order, g)) = Unfinished \ {g}
<1>1. DOMAIN order = 1..Len(order) /\ Len(order) \in Nat
  OBVIOUS
<1>2. PICK i \in 1..Len(order) : order[i] = g
  BY <1>1 DEF Unfinished, ToSet
<1>3. {k \in 1..Len(order) : order[k] = g} = {i}
  BY <1>1, <1>2 DEF IsInjective
<1>4. Min({i}) = i
  BY <1>2 DEF Min
<1>5. RemoveFirst(order, g) = RemoveAt(order, i)
  BY <1>2, <1>3, <1>4 DEF RemoveFirst, SelectInSeq
<1> DEFINE s == SubSeq(order, 1, i - 1)
           t == SubSeq(order, i + 1, Len(order))
           r == s \o t
<1>6. RemoveFirst(order, g) = r
  BY <1>5 DEF RemoveAt
<1>7. /\ s \in Seq(Generations) /\ Len(s) = i - 1
      /\ \A k \in 1..(i - 1) : s[k] = order[k]
  BY <1>2
<1>8. /\ t \in Seq(Generations) /\ Len(t) = Len(order) - i
      /\ \A k \in 1..(Len(order) - i) : t[k] = order[i + k]
  BY <1>2
<1>9. /\ r \in Seq(Generations) /\ Len(r) = Len(order) - 1
      /\ DOMAIN r = 1..(Len(order) - 1)
      /\ \A k \in 1..(i - 1) : r[k] = order[k]
      /\ \A k \in i..(Len(order) - 1) : r[k] = order[k + 1]
  <2> HIDE DEF s, t
  <2>1. /\ r \in Seq(Generations) /\ Len(r) = Len(order) - 1
        /\ DOMAIN r = 1..(Len(order) - 1)
    <3>1. r \in Seq(Generations) /\ Len(r) = Len(s) + Len(t)
      BY <1>7, <1>8, ConcatProperties
    <3>2. Len(s) + Len(t) = Len(order) - 1
      BY <1>1, <1>2, <1>7, <1>8
    <3> HIDE DEF r
    <3> QED
      BY <3>1, <3>2
  <2>2. \A k \in 1..(i - 1) : r[k] = order[k]
    BY <1>1, <1>2, <1>7, <1>8
  <2>3. ASSUME NEW k \in i..(Len(order) - 1)
        PROVE  r[k] = order[k + 1]
    <3>1. r[k] = t[k - (i - 1)]
      BY <1>1, <1>2, <1>7, <1>8
    <3>2. k - (i - 1) \in 1..(Len(order) - i) /\ i + (k - (i - 1)) = k + 1
      BY <1>1, <1>2
    <3> QED
      BY <3>1, <3>2, <1>8
  <2> QED
    BY <2>1, <2>2, <2>3
<1> HIDE DEF r
<1>10. \A k \in DOMAIN r : \E m \in DOMAIN order :
          r[k] = order[m] /\ m # i /\ m = (IF k < i THEN k ELSE k + 1)
  BY <1>1, <1>2, <1>9
<1>11. IsInjective(r)
  BY <1>1, <1>2, <1>9, <1>10 DEF IsInjective
<1>12. ToSet(r) = Unfinished \ {g}
  <2>1. ASSUME NEW h \in ToSet(r)
        PROVE  h \in Unfinished \ {g}
    BY <1>2, <1>10 DEF ToSet, Unfinished, IsInjective
  <2>2. ASSUME NEW h \in Unfinished \ {g}
        PROVE  h \in ToSet(r)
    <3>1. PICK m \in 1..Len(order) : order[m] = h
      BY <1>1 DEF ToSet, Unfinished
    <3>2. m # i
      BY <1>2, <3>1
    <3>3. CASE m < i
      <4>1. m \in 1..(i - 1) /\ m \in DOMAIN r
        BY <1>1, <1>2, <1>9, <3>3
      <4>2. r[m] = h
        BY <1>9, <3>1, <4>1
      <4> QED
        BY <4>1, <4>2 DEF ToSet
    <3>4. CASE m > i
      <4>1. m - 1 \in i..(Len(order) - 1) /\ m - 1 \in DOMAIN r /\ (m - 1) + 1 = m
        BY <1>1, <1>2, <1>9, <3>4
      <4>2. r[m - 1] = h
        BY <1>9, <3>1, <4>1
      <4> QED
        BY <4>1, <4>2 DEF ToSet
    <3> QED
      BY <1>2, <3>2, <3>3, <3>4
  <2> QED
    BY <2>1, <2>2
<1> QED
  BY <1>6, <1>9, <1>11, <1>12
-----------------------------------------------------------------------------
\* The Attempts of a Pool are counted, and one that ends makes them fewer.
LEMMA ClaimedNat == \A p \in Pools : Claimed(p) \in Nat
<1> SUFFICES ASSUME NEW p \in Pools PROVE Claimed(p) \in Nat
  OBVIOUS
<1>1. IsFiniteSet({g \in Generations : where[g] = p})
  BY ScheduleAssumption, FS_Subset
<1> QED
  BY <1>1, FS_CardinalityType DEF Claimed

LEMMA ClaimedNatAfter == \A p \in Pools : Claimed(p)' \in Nat
<1> SUFFICES ASSUME NEW p \in Pools PROVE Claimed(p)' \in Nat
  OBVIOUS
<1>1. IsFiniteSet({g \in Generations : where'[g] = p})
  BY ScheduleAssumption, FS_Subset
<1> QED
  BY <1>1, FS_CardinalityType DEF Claimed

LEMMA ClaimedFewer ==
  ASSUME NEW p \in Pools,
         \A g \in Generations : where'[g] = p => where[g] = p
  PROVE  Claimed(p)' <= Claimed(p)
<1> DEFINE before == {g \in Generations : where[g] = p}
           after == {g \in Generations : where'[g] = p}
<1>1. IsFiniteSet(before)
  BY ScheduleAssumption, FS_Subset
<1>2. after \subseteq before
  OBVIOUS
<1>3. Cardinality(after) <= Cardinality(before)
  BY <1>1, <1>2, FS_Subset
<1> QED
  BY <1>3 DEF Claimed

\* A step after which every Pool has the Slots it had, and no new Attempt.
LEMMA SlotsKeep ==
  ASSUME IInv, UNCHANGED <<slots, ready>>,
         \A g \in Generations : where'[g] = where[g] \/ where'[g] = NoPool,
         \A g \in Generations : where'[g] # NoPool => excluded'[g] = excluded[g],
         excluded' \in [Generations -> SUBSET Pools]
  PROVE  SlotsKept'
<1> USE DEF IInv
<1>1. ASSUME NEW p \in Pools
      PROVE  Claimed(p)' <= slots'[p] /\ (slots'[p] > 0 => p \in ready')
  <2>1. \A g \in Generations : where'[g] = p => where[g] = p
    BY ScheduleAssumption
  <2>2. Claimed(p)' <= Claimed(p)
    BY <2>1, ClaimedFewer
  <2>3. Claimed(p) \in Nat /\ Claimed(p)' \in Nat
    BY ClaimedNat, ClaimedNatAfter
  <2> QED
    BY <2>2, <2>3 DEF SlotsKept, TypeOK
<1>2. \A g \in Generations : where'[g] \notin excluded'[g]
  BY ScheduleAssumption DEF SlotsKept
<1> QED
  BY <1>1, <1>2 DEF SlotsKept
-----------------------------------------------------------------------------
LEMMA InitOK == Init => IInv
<1> SUFFICES ASSUME Init PROVE IInv
  OBVIOUS
<1>1. order \in Seq(Generations) /\ IsInjective(order) /\ Unfinished = {}
  BY DEF Init, IsInjective, Unfinished, ToSet
<1>2. \A g \in Generations : ~Running(g) /\ ~Leased(g)
  BY ScheduleAssumption DEF Init, Running, Leased
<1>3. slots \in [Pools -> Nat]
  BY ScheduleAssumption DEF Init
<1>4. TypeOK
  BY <1>1, <1>2, <1>3, ScheduleAssumption DEF Init, TypeOK, ExpiryAge
<1>5. SlotsKept
  <2>1. ASSUME NEW p \in Pools PROVE Claimed(p) = 0
    <3>1. {g \in Generations : where[g] = p} = {}
      BY ScheduleAssumption DEF Init
    <3> QED
      BY <3>1, FS_EmptySet DEF Claimed
  <2> QED
    BY <1>3, <2>1 DEF Init, SlotsKept
<1>6. PlanInv
  BY DEF Init, PlanInv, NoRow
<1> QED
  BY <1>1, <1>2, <1>4, <1>5, <1>6 DEF IInv, QueueInv

\* The end of an unfinished Generation.
LEMMA EndKeeps ==
  ASSUME IInv, NEW g \in Unfinished, End(g), UNCHANGED <<poolVars, plan>>
  PROVE  IInv'
<1> USE DEF IInv
<1>1. /\ order' \in Seq(Generations) /\ IsInjective(order')
      /\ Unfinished' = Unfinished \ {g}
  BY QueueWithout DEF End, TypeOK, QueueInv, Unfinished
<1>2. g \in Generations
  BY DEF TypeOK
<1>3. \A h \in Generations : Running(h)' => (h # g /\ Running(h))
  BY <1>2 DEF End, Running, TypeOK
<1>4. 0 \in 0..ExpiryAge /\ 0 \in 0..MaxAttempts
  BY ScheduleAssumption DEF ExpiryAge
<1>5. /\ where' \in [Generations -> Pools \cup {NoPool, Lost}]
      /\ age' \in [Generations -> 0..ExpiryAge]
      /\ attempts' \in [Generations -> 0..MaxAttempts]
      /\ excluded' \in [Generations -> SUBSET Pools]
  BY <1>4 DEF End, TypeOK
<1>6. TypeOK'
  BY <1>1, <1>3, <1>5 DEF TypeOK, poolVars, rowVars
<1>7. QueueInv'
  BY <1>1, <1>2, ScheduleAssumption DEF End, QueueInv, Leased, TypeOK
<1>8. SlotsKept'
  <2>1. \A h \in Generations : h # g =>
          where'[h] = where[h] /\ excluded'[h] = excluded[h]
    BY DEF End, TypeOK
  <2>2. where'[g] = NoPool /\ excluded'[g] = {}
    BY <1>2 DEF End, TypeOK
  <2> QED
    BY <1>2, <1>5, <2>1, <2>2, SlotsKeep DEF poolVars, rowVars
<1>9. PlanInv'
  BY DEF PlanInv, poolVars, rowVars
<1> QED
  BY <1>6, <1>7, <1>8, <1>9

\* A Generation that runs goes back to its place in the queue.
LEMMA RequeueKeeps ==
  ASSUME IInv, NEW g \in Generations,
         NEW out \in SUBSET Pools, NEW n \in 0..MaxAttempts,
         where' = [where EXCEPT ![g] = NoPool],
         excluded' = [excluded EXCEPT ![g] = out],
         attempts' = [attempts EXCEPT ![g] = n],
         UNCHANGED <<order, age, poolVars, plan>>
  PROVE  IInv'
<1> USE DEF IInv
<1>1. \A h \in Generations : Running(h)' => Running(h)
  BY DEF Running, TypeOK
<1>2. TypeOK'
  BY <1>1 DEF TypeOK, Unfinished, poolVars, rowVars
<1>3. QueueInv'
  BY ScheduleAssumption DEF QueueInv, Leased, TypeOK
<1>4. SlotsKept'
  <2>1. \A h \in Generations : h # g =>
          where'[h] = where[h] /\ excluded'[h] = excluded[h]
    BY DEF TypeOK
  <2>2. where'[g] = NoPool /\ excluded' \in [Generations -> SUBSET Pools]
    BY DEF TypeOK
  <2> QED
    BY <2>1, <2>2, SlotsKeep DEF poolVars, rowVars
<1>5. PlanInv'
  BY DEF PlanInv, poolVars, rowVars
<1> QED
  BY <1>2, <1>3, <1>4, <1>5
-----------------------------------------------------------------------------
LEMMA PassKeeps == ASSUME IInv, Pass PROVE IInv'
<1> USE DEF IInv
<1>1. /\ plan' \subseteq Pools \X Generations \X Rows
      /\ \A a \in plan' : a[2] \in Admissible[a[3]]
  BY PlanAdmits DEF Pass, TypeOK, QueueInv
<1>2. TypeOK'
  BY <1>1 DEF Pass, TypeOK, Unfinished, Running, queueVars, poolVars, rowVars
<1>3. QueueInv'
  BY DEF Pass, QueueInv, Leased, queueVars
<1>4. SlotsKept'
  BY SlotsKeep DEF Pass, TypeOK, queueVars, poolVars, rowVars
<1>5. PlanInv'
  BY <1>1 DEF Pass, PlanInv, poolVars, rowVars
<1> QED
  BY <1>2, <1>3, <1>4, <1>5

LEMMA AssignKeeps ==
  ASSUME IInv, NEW p \in Pools, NEW g \in Generations, NEW c \in Rows,
         Assign(p, g, c)
  PROVE  IInv'
<1> USE DEF IInv
<1>1. plan' \subseteq plan /\ UNCHANGED <<order, age, excluded, poolVars>>
  BY DEF Assign
<1>2. PlanInv'
  BY <1>1 DEF PlanInv, poolVars, rowVars
<1>3. CASE /\ Assignable(p, g)
           /\ where' = [where EXCEPT ![g] = p]
           /\ attempts' = [attempts EXCEPT ![g] = @ + 1]
  <2>1. /\ g \in Unfinished /\ where[g] = NoPool
        /\ attempts[g] < MaxAttempts /\ p \notin excluded[g]
    BY <1>3 DEF Assignable, Queued, Running
  <2>2. attempts[g] + 1 \in 1..MaxAttempts
    BY <2>1, ScheduleAssumption DEF TypeOK
  <2>3. \A h \in Generations : Running(h)' => (h = g \/ Running(h))
    BY <1>3 DEF Running, TypeOK
  <2>4. TypeOK'
    <3>1. where' \in [Generations -> Pools \cup {NoPool, Lost}]
      BY <1>3 DEF TypeOK
    <3>2. attempts' \in [Generations -> 0..MaxAttempts]
      BY <1>3, <2>2 DEF TypeOK
    <3> QED
      BY <1>1, <2>1, <2>3, <3>1, <3>2 DEF TypeOK, Unfinished, poolVars, rowVars
  <2>5. QueueInv'
    <3>1. \A h \in Generations : Leased(h)' => attempts'[h] > 0
      BY <1>3, <2>2 DEF QueueInv, Leased, TypeOK
    <3> QED
      BY <1>1, <3>1 DEF QueueInv
  <2>6. ASSUME NEW q \in Pools
        PROVE  Claimed(q)' <= slots'[q] /\ (slots'[q] > 0 => q \in ready')
    <3>1. UNCHANGED <<slots, ready>> /\ Claimed(q) \in Nat /\ Claimed(q)' \in Nat
      BY <1>1, ClaimedNat, ClaimedNatAfter DEF poolVars, rowVars
    <3>2. CASE q = p
      <4> DEFINE S == {h \in Generations : where[h] = q}
      <4>1. {h \in Generations : where'[h] = q} = S \cup {g}
        BY <1>3, <3>2 DEF TypeOK
      <4>2. IsFiniteSet(S) /\ g \notin S
        BY <2>1, ScheduleAssumption, FS_Subset
      <4>3. Cardinality(S \cup {g}) = Cardinality(S) + 1
        BY <4>2, FS_AddElement
      <4>4. Claimed(q)' = Claimed(q) + 1
        BY <4>1, <4>3 DEF Claimed
      <4>5. slots[q] - Claimed(q) > 0
        BY <1>3, <3>2 DEF Assignable, FreeSlots
      <4> QED
        BY <3>1, <4>4, <4>5 DEF SlotsKept, TypeOK
    <3>3. CASE q # p
      <4>1. \A h \in Generations : where'[h] = q => where[h] = q
        BY <1>3, <3>3 DEF TypeOK
      <4>2. Claimed(q)' <= Claimed(q)
        BY <4>1, ClaimedFewer
      <4> QED
        BY <3>1, <4>2 DEF SlotsKept, TypeOK
    <3> QED
      BY <3>2, <3>3
  <2>7. \A h \in Generations : where'[h] \notin excluded'[h]
    BY <1>1, <1>3, <2>1 DEF SlotsKept, TypeOK
  <2>8. SlotsKept'
    BY <2>6, <2>7 DEF SlotsKept
  <2> QED
    BY <1>2, <2>4, <2>5, <2>8
<1>4. CASE UNCHANGED <<where, attempts>>
  <2>1. TypeOK'
    BY <1>1, <1>4 DEF TypeOK, Unfinished, Running, poolVars, rowVars
  <2>2. QueueInv'
    BY <1>1, <1>4 DEF QueueInv, Leased
  <2>3. SlotsKept'
    BY <1>1, <1>4, SlotsKeep DEF TypeOK, poolVars, rowVars
  <2> QED
    BY <1>2, <2>1, <2>2, <2>3
<1> QED
  BY <1>3, <1>4 DEF Assign

LEMMA SubmitKeeps ==
  ASSUME IInv, NEW g \in Generations, Submit(g)
  PROVE  IInv'
<1> USE DEF IInv
<1>1. DOMAIN order = 1..Len(order) /\ Len(order) \in Nat
  BY DEF QueueInv
<1>2. \A i \in DOMAIN order : order[i] # g
  BY DEF Submit, Unfinished, ToSet
<1>3. /\ order' \in Seq(Generations)
      /\ DOMAIN order' = 1..(Len(order) + 1)
      /\ \A i \in 1..Len(order) : order'[i] = order[i]
      /\ order'[Len(order) + 1] = g
  BY AppendProperties DEF Submit, QueueInv
<1>4. IsInjective(order')
  <2>1. \A a, b \in 1..Len(order) : order[a] = order[b] => a = b
    BY <1>1 DEF IsInjective, TypeOK
  <2>2. ASSUME NEW a \in 1..(Len(order) + 1), NEW b \in 1..(Len(order) + 1),
               order'[a] = order'[b]
        PROVE  a = b
    <3>1. (a \in 1..Len(order) \/ a = Len(order) + 1)
            /\ (b \in 1..Len(order) \/ b = Len(order) + 1)
      BY <1>1
    <3> QED
      BY <1>1, <1>2, <1>3, <2>1, <2>2, <3>1
  <2> QED
    BY <1>3, <2>2 DEF IsInjective
<1>5. Unfinished \subseteq Unfinished'
  BY <1>1, <1>3 DEF Unfinished, ToSet
<1>6. Unfinished' \subseteq Generations
  BY <1>3 DEF Unfinished, ToSet
<1>7. TypeOK'
  BY <1>4, <1>5, <1>6 DEF Submit, TypeOK, Running, poolVars, rowVars
<1>8. QueueInv'
  BY <1>3 DEF Submit, QueueInv, Leased
<1>9. SlotsKept'
  BY SlotsKeep DEF Submit, TypeOK, poolVars, rowVars
<1>10. PlanInv'
  BY DEF Submit, PlanInv, poolVars, rowVars
<1> QED
  BY <1>7, <1>8, <1>9, <1>10

LEMMA OutcomeKeeps ==
  ASSUME IInv, NEW g \in Generations, Outcome(g)
  PROVE  IInv'
<1> USE DEF IInv
<1>1. ASSUME Leased(g) PROVE g \in Unfinished
  BY <1>1, ScheduleAssumption DEF TypeOK, Leased, Running
<1>2. CASE Finish(g)
  BY <1>1, <1>2, EndKeeps DEF Finish
<1>3. ASSUME NEW oom \in BOOLEAN, Fail(g, oom)
      PROVE  IInv'
  <2>1. PICK out : out = excluded[g] \cup (IF oom THEN {where[g]} ELSE {})
    OBVIOUS
  <2>2. g \in Unfinished /\ where[g] \in Pools /\ UNCHANGED <<poolVars, plan>>
    BY <1>1, <1>3 DEF Fail, Leased
  <2>3. out \in SUBSET Pools
    BY <2>1, <2>2 DEF TypeOK
  <2>4. CASE /\ where' = [where EXCEPT ![g] = NoPool]
             /\ excluded' = [excluded EXCEPT ![g] = out]
             /\ UNCHANGED <<order, age, attempts>>
    <3>1. attempts' = [attempts EXCEPT ![g] = attempts[g]] /\ attempts[g] \in 0..MaxAttempts
      BY <2>4 DEF TypeOK
    <3> QED
      BY <2>2, <2>3, <2>4, <3>1, RequeueKeeps
  <2>5. CASE End(g)
    BY <2>2, <2>5, EndKeeps
  <2> QED
    BY <1>3, <2>1, <2>4, <2>5 DEF Fail
<1>4. CASE Reject(g)
  <2>1. where[g] \in Pools /\ attempts[g] - 1 \in 0..MaxAttempts
    BY <1>4, ScheduleAssumption DEF Reject, TypeOK, Leased, QueueInv
  <2>2. excluded[g] \cup {where[g]} \in SUBSET Pools
    BY <2>1 DEF TypeOK
  <2>3. /\ excluded' = [excluded EXCEPT ![g] = excluded[g] \cup {where[g]}]
        /\ attempts' = [attempts EXCEPT ![g] = attempts[g] - 1]
        /\ where' = [where EXCEPT ![g] = NoPool]
        /\ UNCHANGED <<order, age, poolVars, plan>>
    BY <1>4 DEF Reject, TypeOK
  <2> QED
    BY <2>1, <2>2, <2>3, RequeueKeeps
<1> QED
  BY <1>2, <1>3, <1>4 DEF Outcome

LEMMA TickKeeps == ASSUME IInv, Tick PROVE IInv'
<1> USE DEF IInv
<1>1. age' \in [Generations -> 0..ExpiryAge]
  BY ScheduleAssumption DEF Tick, TypeOK, ExpiryAge
<1>2. TypeOK'
  BY <1>1 DEF Tick, TypeOK, Unfinished, Running, poolVars, rowVars
<1>3. QueueInv'
  BY DEF Tick, QueueInv, Leased
<1>4. SlotsKept'
  BY SlotsKeep DEF Tick, TypeOK, poolVars, rowVars
<1>5. PlanInv'
  BY DEF Tick, PlanInv, poolVars, rowVars
<1> QED
  BY <1>2, <1>3, <1>4, <1>5

\* A session begins or ends, or nothing happens.
LEMMA SessionKeeps ==
  ASSUME IInv, UNCHANGED <<queueVars, rowVars, plan>>, online' \subseteq Pools
  PROVE  IInv'
<1> USE DEF IInv
<1>1. TypeOK'
  BY DEF TypeOK, Unfinished, Running, queueVars, rowVars
<1>2. QueueInv'
  BY DEF QueueInv, Leased, queueVars
<1>3. SlotsKept'
  BY SlotsKeep DEF TypeOK, queueVars, rowVars
<1>4. PlanInv'
  BY DEF PlanInv, rowVars
<1> QED
  BY <1>1, <1>2, <1>3, <1>4

\* A report rewrites the row of its Pool; the CHECK keeps its Slots enough.
LEMMA ReportKeeps ==
  ASSUME IInv, NEW p \in Pools, NEW c \in Rows, NEW up \in BOOLEAN,
         NEW model \in Versions \cup {NoModel}, Report(p, c, up, model)
  PROVE  IInv'
<1> USE DEF IInv
<1>1. PICK n : n = (IF up THEN c.slots ELSE 0)
  OBVIOUS
<1>2. c \in Reports[p] /\ Claimed(p) <= n
  BY <1>1 DEF Report
<1>3. n \in Nat
  BY <1>1, <1>2, ScheduleAssumption
<1>4. /\ capability' = [capability EXCEPT ![p] = c]
      /\ slots' = [slots EXCEPT ![p] = n]
      /\ resident' = [resident EXCEPT ![p] = model]
      /\ UNCHANGED <<queueVars, online, plan>>
  BY <1>1 DEF Report
<1>5. ready' = IF up THEN ready \cup {p} ELSE ready \ {p}
  BY DEF Report
<1>6. ready' \subseteq Pools
  BY <1>5 DEF TypeOK
<1>7. /\ capability' \in [Pools -> Rows] /\ slots' \in [Pools -> Nat]
      /\ resident' \in [Pools -> Versions \cup {NoModel}]
  BY <1>3, <1>4 DEF TypeOK
<1>8. TypeOK'
  BY <1>4, <1>6, <1>7 DEF TypeOK, Unfinished, Running, queueVars
<1>9. QueueInv'
  BY <1>4 DEF QueueInv, Leased, queueVars
<1>10. ASSUME NEW q \in Pools
       PROVE  Claimed(q)' <= slots'[q] /\ (slots'[q] > 0 => q \in ready')
  <2>1. Claimed(q)' = Claimed(q)
    BY <1>4 DEF Claimed, queueVars
  <2>2. CASE q = p
    <3>1. slots'[q] = n
      BY <1>4, <2>2 DEF TypeOK
    <3>2. n > 0 => up
      BY <1>1
    <3>3. up => q \in ready'
      BY <1>5, <2>2
    <3> QED
      BY <1>2, <2>1, <2>2, <3>1, <3>2, <3>3
  <2>3. CASE q # p
    <3>1. slots'[q] = slots[q]
      BY <1>4, <2>3 DEF TypeOK
    <3>2. q \in ready => q \in ready'
      BY <1>5, <2>3
    <3> QED
      BY <2>1, <3>1, <3>2 DEF SlotsKept
  <2> QED
    BY <2>2, <2>3
<1>11. SlotsKept'
  BY <1>4, <1>10 DEF SlotsKept, queueVars
<1>12. c = NoRow => n = 0
  BY <1>1 DEF NoRow
<1>13. PlanInv'
  BY <1>4, <1>12 DEF PlanInv, TypeOK
<1> QED
  BY <1>8, <1>9, <1>11, <1>13

\* The row of a Pool goes, and with it its exclusions and its Attempts.
LEMMA WithdrawKeeps ==
  ASSUME IInv, NEW p \in Pools, Withdraw(p)
  PROVE  IInv'
<1> USE DEF IInv
<1>1. /\ capability' = [capability EXCEPT ![p] = NoRow]
      /\ slots' = [slots EXCEPT ![p] = 0]
      /\ resident' = [resident EXCEPT ![p] = NoModel]
      /\ ready' = ready \ {p}
      /\ UNCHANGED <<order, age, attempts, online>>
      /\ plan' \subseteq plan
  BY DEF Withdraw
<1>2. /\ where' = [g \in Generations |-> IF where[g] = p THEN Lost ELSE where[g]]
      /\ excluded' = [g \in Generations |-> excluded[g] \ {p}]
  BY DEF Withdraw
<1>3. /\ where' \in [Generations -> Pools \cup {NoPool, Lost}]
      /\ excluded' \in [Generations -> SUBSET Pools]
  BY <1>2 DEF TypeOK
<1>4. /\ capability' \in [Pools -> Rows] /\ slots' \in [Pools -> Nat]
      /\ resident' \in [Pools -> Versions \cup {NoModel}]
  <2>1. NoRow \in Rows
    BY DEF Rows
  <2> QED
    BY <1>1, <2>1 DEF TypeOK
<1>5. \A g \in Generations : Running(g)' => Running(g)
  BY <1>2, ScheduleAssumption DEF Running
<1>6. TypeOK'
  BY <1>1, <1>3, <1>4, <1>5 DEF TypeOK, Unfinished
<1>7. QueueInv'
  BY <1>1, <1>2, ScheduleAssumption DEF QueueInv, Leased
<1>8. ASSUME NEW q \in Pools
      PROVE  Claimed(q)' <= slots'[q] /\ (slots'[q] > 0 => q \in ready')
  <2>1. CASE q = p
    <3>1. {g \in Generations : where'[g] = q} = {}
      BY <1>2, <2>1, ScheduleAssumption
    <3>2. Claimed(q)' = 0
      BY <3>1, FS_EmptySet DEF Claimed
    <3>3. slots'[q] = 0
      BY <1>1, <2>1 DEF TypeOK
    <3> QED
      BY <3>2, <3>3
  <2>2. CASE q # p
    <3>1. \A g \in Generations : where'[g] = q => where[g] = q
      BY <1>2, ScheduleAssumption
    <3>2. Claimed(q)' <= Claimed(q)
      BY <3>1, ClaimedFewer
    <3>3. slots'[q] = slots[q] /\ (q \in ready => q \in ready')
      BY <1>1, <2>2 DEF TypeOK
    <3>4. Claimed(q) \in Nat /\ Claimed(q)' \in Nat /\ slots[q] \in Nat
      BY ClaimedNat, ClaimedNatAfter DEF TypeOK
    <3> QED
      BY <3>2, <3>3, <3>4 DEF SlotsKept
  <2> QED
    BY <2>1, <2>2
<1>9. \A g \in Generations : where'[g] \notin excluded'[g]
  BY <1>2, ScheduleAssumption DEF SlotsKept, TypeOK
<1>10. SlotsKept'
  BY <1>8, <1>9 DEF SlotsKept
<1>11. PlanInv'
  BY <1>1 DEF PlanInv, TypeOK
<1> QED
  BY <1>6, <1>7, <1>10, <1>11

LEMMA StepKeeps == IInv /\ [Next]_vars => IInv'
<1> SUFFICES ASSUME IInv, [Next]_vars PROVE IInv'
  OBVIOUS
<1>1. CASE Pass
  BY <1>1, PassKeeps
<1>2. CASE Tick
  BY <1>2, TickKeeps
<1>3. ASSUME NEW p \in Pools, NEW g \in Generations, NEW c \in Rows, Assign(p, g, c)
      PROVE  IInv'
  BY <1>3, AssignKeeps
<1>4. ASSUME NEW g \in Generations, Submit(g) PROVE IInv'
  BY <1>4, SubmitKeeps
<1>5. ASSUME NEW g \in Generations, CancelQueued(g) PROVE IInv'
  BY <1>5, EndKeeps DEF CancelQueued, Queued
<1>6. ASSUME NEW g \in Generations, Outcome(g) PROVE IInv'
  BY <1>6, OutcomeKeeps
<1>7. ASSUME NEW g \in Generations, ExpireStarved(g) PROVE IInv'
  BY <1>7, EndKeeps DEF ExpireStarved, QueuedCandidates, Queued
<1>8. ASSUME NEW p \in Pools, Session(p) PROVE IInv'
  BY <1>8, SessionKeeps DEF IInv, TypeOK, Session
<1>9. ASSUME NEW p \in Pools, Withdraw(p) PROVE IInv'
  BY <1>9, WithdrawKeeps
<1>10. ASSUME NEW p \in Pools, NEW c \in Rows, NEW up \in BOOLEAN,
              NEW model \in Versions \cup {NoModel}, Report(p, c, up, model)
       PROVE  IInv'
  BY <1>10, ReportKeeps
<1>11. CASE UNCHANGED vars
  BY <1>11, SessionKeeps DEF IInv, TypeOK, vars, queueVars, rowVars
<1> QED
  BY <1>1, <1>2, <1>3, <1>4, <1>5, <1>6, <1>7, <1>8, <1>9, <1>10, <1>11 DEF Next

LEMMA Invariance == Spec => []IInv
<1> QED
  BY InitOK, StepKeeps, PTL DEF Spec
-----------------------------------------------------------------------------
\* Only an assignment starts a Generation.
LEMMA OnlyAssignStarts ==
  ASSUME IInv, [Next]_vars, NEW p \in Pools, NEW g \in Generations,
         where[g] = NoPool, where'[g] = p
  PROVE  \E c \in Rows : <<p, g, c>> \in plan /\ Assignable(p, g)
<1> USE DEF IInv
<1>1. where'[g] # where[g] /\ where'[g] # Lost /\ where'[g] # NoPool
  BY ScheduleAssumption
<1>2. where \in [Generations -> Pools \cup {NoPool, Lost}]
  BY DEF TypeOK
<1>3. ~(Pass \/ Tick) /\ ~UNCHANGED vars
  BY <1>1 DEF Pass, Tick, vars, queueVars
<1>4. ASSUME NEW h \in Generations, End(h) PROVE FALSE
  BY <1>1, <1>2, <1>4 DEF End
<1>5. ASSUME NEW h \in Generations, Submit(h) PROVE FALSE
  BY <1>1, <1>5 DEF Submit
<1>6. ASSUME NEW h \in Generations, CancelQueued(h) \/ ExpireStarved(h) PROVE FALSE
  BY <1>4, <1>6 DEF CancelQueued, ExpireStarved
<1>7. ASSUME NEW h \in Generations, Outcome(h) PROVE FALSE
  BY <1>1, <1>2, <1>4, <1>7 DEF Outcome, Finish, Fail, Reject
<1>8. ASSUME NEW q \in Pools, Session(q) PROVE FALSE
  BY <1>1, <1>8 DEF Session, queueVars
<1>9. ASSUME NEW q \in Pools, Withdraw(q) PROVE FALSE
  BY <1>1, <1>9 DEF Withdraw
<1>10. ASSUME NEW q \in Pools, NEW c \in Rows, NEW up \in BOOLEAN,
              NEW model \in Versions \cup {NoModel}, Report(q, c, up, model)
       PROVE  FALSE
  BY <1>1, <1>10 DEF Report, queueVars
<1>11. ASSUME NEW q \in Pools, NEW h \in Generations, NEW c \in Rows, Assign(q, h, c)
       PROVE  q = p /\ h = g /\ <<p, g, c>> \in plan /\ Assignable(p, g)
  BY <1>1, <1>2, <1>11 DEF Assign
<1> QED
  BY <1>3, <1>5, <1>6, <1>7, <1>8, <1>9, <1>10, <1>11 DEF Next

LEMMA Starts ==
  ASSUME IInv, [Next]_vars, NEW p \in Pools, NEW g \in Generations,
         where[g] = NoPool, where'[g] = p
  PROVE  /\ p \in ready \cap online /\ p \notin excluded[g]
         /\ capability[p] # NoRow
         /\ \E c \in Rows : <<p, g, c>> \in plan /\ g \in Admissible[c]
<1> USE DEF IInv
<1>1. PICK c \in Rows : <<p, g, c>> \in plan /\ Assignable(p, g)
  BY OnlyAssignStarts
<1>2. p \notin excluded[g] /\ p \in online /\ slots[p] - Claimed(p) > 0
  BY <1>1 DEF Assignable, FreeSlots
<1>3. slots[p] > 0
  BY <1>2, ClaimedNat DEF TypeOK
<1>4. p \in ready
  BY <1>3 DEF SlotsKept
<1>5. capability[p] # NoRow
  BY <1>3 DEF PlanInv
<1>6. g \in Admissible[c]
  BY <1>1 DEF PlanInv
<1> QED
  BY <1>1, <1>2, <1>4, <1>5, <1>6

(***************************************************************************)
(* Whatever Workers report between a plan and its assignments: the queue   *)
(* holds no Generation twice and every running one; a Pool never has more  *)
(* Attempts than Slots, nor Slots when it is not ready; a Generation does  *)
(* not run where it is excluded, and starts only on a connected and ready  *)
(* Pool whose capability admitted it when it was planned, because          *)
(* select_next always finds a first among what the Slot admits.            *)
(***************************************************************************)
THEOREM ScheduleCorrect == Spec => LeasesServed
<1>1. IInv => ScheduleInv
  BY DEF IInv, ScheduleInv
<1>2. IInv /\ [Next]_vars =>
        [\A p \in Pools, g \in Generations :
           where[g] = NoPool /\ where'[g] = p =>
             /\ p \in ready \cap online /\ p \notin excluded[g]
             /\ capability[p] # NoRow
             /\ \E c \in Rows : <<p, g, c>> \in plan /\ g \in Admissible[c]]_vars
  BY Starts
<1> QED
  BY <1>1, <1>2, Invariance, PTL DEF Spec, LeasesServed, StartsWhereServed
=============================================================================
