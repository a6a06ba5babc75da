------------------------------ MODULE Schedule ------------------------------
(***************************************************************************)
(* The queue of one Tenant and the order in which it is served: which Pool *)
(* may run a Generation (SlotCapability::admits), which Generation a free  *)
(* Slot takes (select_next, select_batch), a scheduling pass that plans    *)
(* from one snapshot and assigns afterwards, and the sweep that expires    *)
(* what nobody can run.  The rows of the Pools are what their Workers last *)
(* reported: models, LoRAs, shape limits, Slots, readiness; a report may   *)
(* change them, or leave a Pool out, between a plan and its assignments.   *)
(*                                                                         *)
(* Lifecycle has the transactions, the leases and the Worker's side; here  *)
(* an assignment is one step, and a running Generation ends, fails or is   *)
(* rejected in one step.  Lifecycle leaves open what a pass plans; here it *)
(* is computed.  A Generation that has ended may be submitted again: it    *)
(* stands for a new one with the same request.                             *)
(***************************************************************************)
EXTENDS Naturals, Sequences, FiniteSets, SequencesExt

CONSTANTS
    Generations,
    Pools,
    Request,      \* of a Generation: version, priority, width, height,
                  \* frames, loras, and steps and sigmas, 0 if not given
    Manifest,     \* of a version: modality, steps, and sigmas, 0 for none
    Reports,      \* of a Pool: the capabilities its Worker may report, each
                  \* versions, loras, slots and shape limits
    Steady,       \* Pools that stay connected, ready and as capable
    MaxQueueAge,  \* maximum_queue_age, in ticks
    MaxAttempts,
    FetchLimit,   \* CANDIDATE_FETCH_LIMIT
    SweepLimit    \* SWEEP_LIMIT

NoLimit == 0
NoModel == "no model"
NoPool == "no pool"
Lost == "lost"    \* the Attempt was deleted with the row of its Pool

\* A Pool without a row: it has no models and no Slots.
NoRow == [versions |-> {}, loras |-> {}, slots |-> 0, maxImagePixels |-> NoLimit,
          maxVideoFrames |-> NoLimit, maxVideoPixels |-> NoLimit, maxSteps |-> NoLimit]

Rows == {NoRow} \cup UNION {Reports[p] : p \in Pools}

\* STARVATION_EXPIRY_MULTIPLIER
ExpiryAge == 2 * MaxQueueAge

ASSUME ScheduleAssumption ==
    /\ IsFiniteSet(Generations)
    /\ Steady \subseteq Pools
    /\ NoPool \notin Pools /\ Lost \notin Pools
    /\ MaxQueueAge \in Nat \ {0} /\ MaxAttempts \in Nat \ {0}
    /\ FetchLimit \in Nat /\ SweepLimit \in Nat
    /\ \A p \in Pools : \A c \in Reports[p] : c.slots \in Nat
    /\ \A g \in Generations : Request[g].priority \in 0..9

VARIABLES
    order,     \* the unfinished Generations by created_at
    where,     \* the Pool a Generation runs on
    age,       \* ticks since created_at
    attempts,  \* attempt_count
    excluded,  \* native_exclusions
    \* device_pools and pool_models, kept while the Worker is offline
    capability, \* models, LoRAs and shape limits, or NoRow
    slots,     \* total_slots
    ready,
    resident,  \* resident_model_sha256
    online,    \* Pools whose Worker has a control session
    plan       \* the SlotAssignments of the pass under way, with the
               \* capability they were planned for

vars == <<order, where, age, attempts, excluded, capability, slots, ready,
          resident, online, plan>>
queueVars == <<order, where, age, attempts, excluded>>
rowVars == <<capability, slots, ready, resident>>
poolVars == <<rowVars, online>>

-----------------------------------------------------------------------------
Versions == {Request[g].version : g \in Generations}
Unfinished == ToSet(order)
Running(g) == where[g] # NoPool
Leased(g) == where[g] \in Pools
Queued(g) == g \in Unfinished /\ ~Running(g)

TypeOK ==
  /\ IsInjective(order) /\ Unfinished \subseteq Generations
  /\ where \in [Generations -> Pools \cup {NoPool, Lost}]
  /\ \A g \in Generations : Running(g) => g \in Unfinished
  /\ age \in [Generations -> 0..ExpiryAge]
  /\ attempts \in [Generations -> 0..MaxAttempts]
  /\ excluded \in [Generations -> SUBSET Pools]
  /\ capability \in [Pools -> Rows] /\ slots \in [Pools -> Nat]
  /\ ready \subseteq Pools /\ online \subseteq Pools
  /\ resident \in [Pools -> Versions \cup {NoModel}]
  /\ plan \subseteq Pools \X Generations \X Rows

Init ==
  /\ order = <<>>
  /\ where = [g \in Generations |-> NoPool]
  /\ age = [g \in Generations |-> 0]
  /\ attempts = [g \in Generations |-> 0]
  /\ excluded = [g \in Generations |-> {}]
  /\ capability \in [Pools -> Rows]
  /\ \A p \in Pools : capability[p] \in Reports[p]
  /\ slots = [p \in Pools |-> capability[p].slots]
  /\ ready = Pools /\ online = Pools
  /\ resident = [p \in Pools |-> NoModel]
  /\ plan = {}
-----------------------------------------------------------------------------
(***************************************************************************)
(* What a Generation requires and a Slot admits                            *)
(***************************************************************************)
\* SamplingPreset::resolve: a schedule of sigmas, the request's before the
\* manifest's, fixes the number of steps.
ResolvedSteps(r) ==
  LET m == Manifest[r.version]
      sigmas == IF r.sigmas # 0 THEN r.sigmas ELSE m.sigmas
  IN IF sigmas # 0 THEN sigmas ELSE IF r.steps # 0 THEN r.steps ELSE m.steps

\* Requirement::for_generation, of a request that passed admission.
Requirement(g) ==
  LET r == Request[g]
      modality == Manifest[r.version].modality
  IN [version |-> r.version,
      modality |-> modality,
      loras |-> IF modality = "image" THEN r.loras ELSE {},
      pixels |-> r.width * r.height,
      frames |-> IF modality = "image" THEN 0 ELSE r.frames,
      steps |-> ResolvedSteps(r)]

Within(requested, maximum) == maximum = NoLimit \/ requested <= maximum

AdmitsShape(c, r) ==
  /\ CASE r.modality = "image" -> Within(r.pixels, c.maxImagePixels)
       [] r.modality = "video" ->
            /\ r.frames >= 5 /\ (r.frames - 5) % 17 = 0
            /\ Within(r.frames, c.maxVideoFrames)
            /\ Within(r.pixels * r.frames, c.maxVideoPixels)
  /\ Within(r.steps, c.maxSteps)

SlotAdmits(c, r) ==
  /\ r.version \in c.versions
  /\ r.loras \subseteq c.loras
  /\ AdmitsShape(c, r)

\* The Generations a Slot of each capability could run ...
Admissible ==
  [c \in Rows |-> {g \in Generations : SlotAdmits(c, Requirement(g))}]

\* ... and a Pool, by its row of now.
Admits(p, g) == g \in Admissible[capability[p]]
-----------------------------------------------------------------------------
(***************************************************************************)
(* Selection                                                               *)
(***************************************************************************)
Older(g, h) ==
  \E i, j \in DOMAIN order : i < j /\ order[i] = g /\ order[j] = h

\* queued_candidates: the oldest queued Generations, up to a limit.
QueuedCandidates(limit) ==
  LET queue == {g \in Generations : Queued(g)}
  IN {g \in queue : Cardinality({h \in queue : Older(h, g)}) < limit}

Claimed(p) == Cardinality({g \in Generations : where[g] = p})
FreeSlots(p) == slots[p] - Claimed(p)

HigherOrOlder(g, h) ==
  \/ Request[g].priority > Request[h].priority
  \/ Request[g].priority = Request[h].priority /\ Older(g, h)

ResidentFirst(p, g, h) ==
  LET warm(c) == Request[c].version = resident[p]
  IN \/ warm(g) /\ ~warm(h)
     \/ warm(g) = warm(h) /\ HigherOrOlder(g, h)

First(S, Before(_, _)) == CHOOSE g \in S : \A h \in S \ {g} : Before(g, h)

\* Seeded fault: no Generation is ever overdue.
NeverOverdue(g) == FALSE

Overdue(g) == age[g] >= MaxQueueAge

SelectNext(p, eligible) ==
  LET overdue == {g \in eligible : Overdue(g)}
  IN IF overdue # {} THEN First(overdue, Older)
     ELSE First(eligible, LAMBDA g, h : ResidentFirst(p, g, h))

\* Seeded fault: what the Slot cannot run is not filtered out.
SelectBatchUnfiltered(p, candidates) ==
  IF FreeSlots(p) = 0 \/ candidates = {} THEN {} ELSE {SelectNext(p, candidates)}

\* The choice of select_next and, as far as Slots are free, more of the
\* same version.
SelectBatch(p, candidates) ==
  LET eligible == {g \in candidates : Admits(p, g)} IN
  IF FreeSlots(p) = 0 \/ eligible = {} THEN {}
  ELSE LET primary == SelectNext(p, eligible)
           companions == {g \in eligible \ {primary} :
                            Request[g].version = Request[primary].version}
           rank(g) == Cardinality({h \in companions : HigherOrOlder(h, g)})
       IN {primary} \cup {g \in companions : rank(g) + 1 < FreeSlots(p)}

\* plan_assignments: Pools do not see what the others chose.
PlanAssignments ==
  UNION {{p} \X SelectBatch(p, {g \in QueuedCandidates(FetchLimit) :
                                  p \notin excluded[g]}) \X {capability[p]}
           : p \in ready \cap online}
-----------------------------------------------------------------------------
(***************************************************************************)
(* The scheduling loop: a pass for a tick, a notification or a wake-up     *)
(***************************************************************************)
Pass ==
  /\ plan = {}
  /\ UNCHANGED <<queueVars, poolVars>>
  /\ plan' = PlanAssignments /\ plan' # {}

\* try_assign checks again the exclusions, the Slots of the row (a Pool that
\* is not ready has none, one without a row neither), the state and Attempts
\* of the Generation, and the session; not the order and not the capability.
Assignable(p, g) ==
  /\ p \notin excluded[g]
  /\ FreeSlots(p) > 0
  /\ Queued(g) /\ attempts[g] < MaxAttempts
  /\ p \in online

Assign(p, g, c) ==
  /\ <<p, g, c>> \in plan
  /\ plan' = plan \ {<<p, g, c>>}
  /\ \/ /\ Assignable(p, g)
        /\ where' = [where EXCEPT ![g] = p]
        /\ attempts' = [attempts EXCEPT ![g] = @ + 1]
     \/ /\ ~Assignable(p, g)
        /\ UNCHANGED <<where, attempts>>
  /\ UNCHANGED <<order, age, excluded, poolVars>>
-----------------------------------------------------------------------------
(***************************************************************************)
(* What happens to Generations                                             *)
(***************************************************************************)
Submit(g) ==
  /\ g \notin Unfinished
  /\ order' = Append(order, g)
  /\ UNCHANGED <<where, age, attempts, excluded, poolVars, plan>>

\* A terminal state: succeeded, failed, cancelled or expired.
End(g) ==
  /\ order' = RemoveFirst(order, g)
  /\ where' = [where EXCEPT ![g] = NoPool]
  /\ age' = [age EXCEPT ![g] = 0]
  /\ attempts' = [attempts EXCEPT ![g] = 0]
  /\ excluded' = [excluded EXCEPT ![g] = {}]

Finish(g) ==
  /\ Leased(g)
  /\ End(g)
  /\ UNCHANGED <<poolVars, plan>>

CancelQueued(g) ==
  /\ Queued(g)
  /\ End(g)
  /\ UNCHANGED <<poolVars, plan>>

\* A ready Pool outside the exclusions admits it (any_candidate_remains).
CandidateRemains(g, out) == \E p \in ready \ out : Admits(p, g)

\* A retryable failure: back to its place in the queue while Attempts, and
\* after out_of_memory other Pools, are left.
Fail(g, oom) ==
  LET out == excluded[g] \cup (IF oom THEN {where[g]} ELSE {}) IN
  /\ Leased(g)
  /\ \/ /\ attempts[g] < MaxAttempts
        /\ oom => CandidateRemains(g, out)
        /\ where' = [where EXCEPT ![g] = NoPool]
        /\ excluded' = [excluded EXCEPT ![g] = out]
        /\ UNCHANGED <<order, age, attempts>>
     \/ /\ attempts[g] = MaxAttempts \/ (oom /\ ~CandidateRemains(g, out))
        /\ End(g)
  /\ UNCHANGED <<poolVars, plan>>

\* LeaseRejected: the Attempt is taken back and the Pool excluded.
Reject(g) ==
  /\ Leased(g)
  /\ excluded' = [excluded EXCEPT ![g] = @ \cup {where[g]}]
  /\ attempts' = [attempts EXCEPT ![g] = @ - 1]
  /\ where' = [where EXCEPT ![g] = NoPool]
  /\ UNCHANGED <<order, age, poolVars, plan>>

\* expire_starved_queue.
ExpireStarved(g) ==
  /\ g \in QueuedCandidates(SweepLimit)
  /\ age[g] = ExpiryAge
  /\ ~CandidateRemains(g, excluded[g])
  /\ End(g)
  /\ UNCHANGED <<poolVars, plan>>

\* The database clock, which no constant bounds, stops to matter at ExpiryAge.
Tick ==
  /\ \E g \in Unfinished : age[g] < ExpiryAge
  /\ age' = [g \in Generations |->
               IF g \in Unfinished /\ age[g] < ExpiryAge THEN age[g] + 1 ELSE age[g]]
  /\ UNCHANGED <<order, where, attempts, excluded, poolVars, plan>>
-----------------------------------------------------------------------------
(***************************************************************************)
(* What happens to Pools                                                   *)
(***************************************************************************)
\* A session begins or ends; the rows of the Pools stay as they are.
Session(p) ==
  /\ p \notin Steady
  /\ online' = IF p \in online THEN online \ {p} ELSE online \cup {p}
  /\ UNCHANGED <<queueVars, rowVars, plan>>

(***************************************************************************)
(* upsert_pools for a CapabilityReport with the Pool in it: its row, which *)
(* may be a new one, says what the Worker reports, whatever is planned for *)
(* the Pool or runs on it.  A Pool that is not ready advertises no Slot;   *)
(* the CHECK on claimed_slots refuses a report with too few.               *)
(***************************************************************************)
Report(p, c, up, model) ==
  LET advertised == IF up THEN c.slots ELSE 0 IN
  /\ p \in online /\ c \in Reports[p]
  /\ p \in Steady => up /\ c = capability[p]
  /\ Claimed(p) <= advertised
  /\ model # NoModel =>
       /\ model \in c.versions
       /\ model = resident[p] \/ \E g \in Generations :
                                   where[g] = p /\ model = Request[g].version
  /\ capability' = [capability EXCEPT ![p] = c]
  /\ slots' = [slots EXCEPT ![p] = advertised]
  /\ ready' = IF up THEN ready \cup {p} ELSE ready \ {p}
  /\ resident' = [resident EXCEPT ![p] = model]
  /\ UNCHANGED <<queueVars, online, plan>>

\* ... and without the Pool: its row is deleted, and with it its exclusions
\* and its Attempts, whose Generations nothing ends any more.  A new row has a
\* new id, so what is planned for the old one cannot be assigned.
Withdraw(p) ==
  /\ p \in online /\ p \notin Steady /\ capability[p] # NoRow
  /\ capability' = [capability EXCEPT ![p] = NoRow]
  /\ slots' = [slots EXCEPT ![p] = 0]
  /\ ready' = ready \ {p}
  /\ resident' = [resident EXCEPT ![p] = NoModel]
  /\ where' = [g \in Generations |-> IF where[g] = p THEN Lost ELSE where[g]]
  /\ excluded' = [g \in Generations |-> excluded[g] \ {p}]
  /\ plan' = {a \in plan : a[1] # p}
  /\ UNCHANGED <<order, age, attempts, online>>

Outcome(g) == Finish(g) \/ (\E oom \in BOOLEAN : Fail(g, oom)) \/ Reject(g)

Next ==
  \/ Pass \/ Tick
  \/ \E p \in Pools, g \in Generations, c \in Rows : Assign(p, g, c)
  \/ \E g \in Generations : Submit(g) \/ CancelQueued(g) \/ Outcome(g)
                            \/ ExpireStarved(g)
  \/ \E p \in Pools : Session(p) \/ Withdraw(p)
  \/ \E p \in Pools, c \in Rows, up \in BOOLEAN, model \in Versions \cup {NoModel} :
        Report(p, c, up, model)

Spec == Init /\ [][Next]_vars

(***************************************************************************)
(* The scheduling loop ticks every second and assigns what it has planned, *)
(* the sweep runs every few seconds, time passes, and a running Generation *)
(* ends, by its deadline at the latest (AttemptSettles of Lifecycle, with  *)
(* its exception: an Attempt that is stranded without a deadline).         *)
(***************************************************************************)
Fairness ==
  /\ WF_vars(Pass) /\ WF_vars(Tick)
  /\ WF_vars(\E a \in plan : Assign(a[1], a[2], a[3]))
  /\ \A g \in Generations : WF_vars(Outcome(g)) /\ WF_vars(ExpireStarved(g))

FairSpec == Spec /\ Fairness
-----------------------------------------------------------------------------
(***************************************************************************)
(* Properties                                                              *)
(***************************************************************************)
Serves(p, g) == Admits(p, g) /\ p \notin excluded[g]

\* Only Pools that come and go can run it.
Waits(g) ==
  /\ \E p \in ready : Serves(p, g)
  /\ ~\E p \in Steady : Serves(p, g)

(***************************************************************************)
(* No more Attempts than Slots, in whatever order plans are assigned and   *)
(* reports change the number, and no Slots for a Pool that is not ready:   *)
(* that is how try_assign, which does not look at readiness, respects it.  *)
(* A Generation does not run on a Pool it excludes.                        *)
(***************************************************************************)
SlotsKept ==
  /\ \A p \in Pools : Claimed(p) <= slots[p] /\ (slots[p] > 0 => p \in ready)
  /\ \A g \in Generations : where[g] \notin excluded[g]

\* The type invariant of the queue, the rows and the plan, and the invariant
\* try_assign, the outcomes and the reports keep between them.
ScheduleInv == TypeOK /\ SlotsKept

(***************************************************************************)
(* A Generation starts only on a Pool that is connected, ready, with a row *)
(* and not excluded now, and whose capability admitted it when the pass    *)
(* planned it.  Nothing more can be said of the capability: a report may   *)
(* have changed it since, and try_assign does not look at it again.        *)
(***************************************************************************)
StartsWhereServed ==
  [][\A p \in Pools, g \in Generations :
        where[g] = NoPool /\ where'[g] = p =>
          /\ p \in ready \cap online /\ p \notin excluded[g]
          /\ capability[p] # NoRow
          /\ \E c \in Rows : <<p, g, c>> \in plan /\ g \in Admissible[c]]_vars

\* What the assignments of a pass and the reports that come between them may
\* do to the queue and the Pools: the state they keep, and the steps.
LeasesServed == []ScheduleInv /\ StartsWhereServed

(***************************************************************************)
(* ADR 0003: "Known tenant, manifest, LoRA, modality, and configured shape *)
(* mismatches are excluded before an Attempt".  So what starts is admitted *)
(* by the row of the Pool at that time.                                    *)
(***************************************************************************)
MismatchExcluded ==
  [][\A p \in Pools, g \in Generations :
        where[g] = NoPool /\ where'[g] = p => Admits(p, g)]_vars

(***************************************************************************)
(* Nothing starves: a queued Generation a steady Pool can run leaves the   *)
(* queue, however many newer Generations of the resident model and of a    *)
(* higher priority are submitted, and one no Pool can run is expired.      *)
(* ADR 0002: maximum_queue_age "prevents indefinite starvation".           *)
(*                                                                         *)
(* The exception: Pools that are withdrawn again and again.  One that      *)
(* rejects a lease and is then withdrawn takes its exclusion with it, and  *)
(* a rejection takes the Attempt back, so the oldest Generation may be     *)
(* planned for every Pool and rejected for ever.                           *)
(***************************************************************************)
NoStarvation ==
  \/ []<><<\E p \in Pools : Withdraw(p)>>_vars
  \/ \A g \in Generations : []<>(~Queued(g) \/ Waits(g))
=============================================================================
