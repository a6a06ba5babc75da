--------------------------- MODULE ProcessesProofs ---------------------------
(***************************************************************************)
(* Proofs of Processes' safety properties for every number of process      *)
(* numbers, children and installed binaries, as long as the system does    *)
(* not give a number out again between the moment it was verified and the  *)
(* signal (~FastReuse).                                                    *)
(*                                                                         *)
(* Three things are carried along: a serial number names one process       *)
(* (RunsUnique), a number a task relies on is either free or still that    *)
(* task's own child (Held), and a recorded child of this binary that is    *)
(* still alive is the one the identity file names (Known), so that once    *)
(* the start has dealt with the file there is none (Alone).                *)
(***************************************************************************)
EXTENDS Processes, TLAPS

\* Where the Worker is decides which tasks have a process.
ControlInv ==
  /\ worker \in {"marker", "corroborate", "cleanup"} => file # NoFile
  /\ pid["stale"] = IF worker = "cleanup" THEN file.pid ELSE NoPid
  /\ pid["pool"] # NoPid <=> worker \in {"record", "child", "closing"}
  /\ \A t \in Tasks : phase[t] # "none" => pid[t] # NoPid
  /\ phase["pool"] # "none" => worker \in {"child", "closing"}
  /\ pid["probe"] # NoPid => pid["probe"] \notin {pid["pool"], pid["stale"]}
  /\ worker = "corroborate" => file.pid # pid["probe"]

\* A child keeps its serial number, no other process gets it, and the file
\* names a child of the Pool with the version that was recorded for it.
RunsUnique ==
  /\ \A p \in Pids : IF group[p].kind \in {"pool", "probe"}
                     THEN group[p].run \in 1..spawned ELSE group[p].run = 0
  /\ \A p, q \in Pids : group[p].run = group[q].run /\ group[p].run # 0 => p = q
  /\ \A n \in 1..MaxSpawns : recorded[n] <= binary /\ (n > spawned => recorded[n] = 0)
  /\ file # NoFile =>
       /\ file.pid \in Pids /\ file.run \in 1..spawned
       /\ recorded[file.run] = file.binary
       /\ \A p \in Pids : group[p].run = file.run => group[p].kind = "pool"

\* What a number a task relies on stands for.
Held ==
  /\ \A t \in Tasks : pid[t] # NoPid =>
       \/ group[pid[t]] = Free
       \/ group[pid[t]].kind = IF t = "probe" THEN "probe" ELSE "pool"
  /\ \A t \in Tasks : phase[t] = "gone" => group[pid[t]] = Free
  /\ worker = "corroborate" => group[file.pid] = Free \/ group[file.pid].kind = "pool"
  /\ worker = "record" => /\ group[pid["pool"]].kind = "pool"
                          /\ group[pid["pool"]].leader # "gone"
                          /\ recorded[group[pid["pool"]].run] = 0

\* A live child recorded under the present binary is in the file.
Known ==
  \A p \in Pids :
    group[p].kind = "pool" /\ group[p].leader = "alive" /\ recorded[group[p].run] = binary
      => file.pid = p /\ file.run = group[p].run /\ file.binary = binary

\* Past the start, the only such child is the Pool's own.
Alone ==
  worker \in {"idle", "record", "child", "closing"} =>
    \A p \in Pids :
      p # pid["pool"] /\ group[p].kind = "pool" /\ group[p].leader = "alive"
        => recorded[group[p].run] # binary

IInv == TypeOK /\ ControlInv /\ RunsUnique /\ Held /\ Known /\ Alone
-----------------------------------------------------------------------------
(***************************************************************************)
(* What the system may do to a group that is already there                 *)
(***************************************************************************)
Groups == [kind : {"free", "pool", "probe", "foreign"}, run : 0..MaxSpawns,
           leader : {"alive", "zombie", "gone"}, helper : BOOLEAN]

\* h is what is left of g: the same process, no more alive than before.
Shrunk(g, h) ==
  \/ h = Free
  \/ g # Free /\ h.kind = g.kind /\ h.run = g.run /\ (h.leader = "alive" => g.leader = "alive")

\* No process appears in this step.
Shrinks ==
  /\ group' \in [Pids -> Groups]
  /\ \A p \in Pids : Shrunk(group[p], group'[p])

\* The types of everything but the process table.
Rest ==
  /\ file \in [pid : Pids \cup {NoPid}, run : 0..MaxSpawns, binary : 0..MaxBinary]
  /\ binary \in 1..MaxBinary
  /\ worker \in WorkerStates
  /\ pid \in [Tasks -> Pids \cup {NoPid}]
  /\ phase \in [Tasks -> {"none", "signal", "grace", "gone", "failed"}]
  /\ spawned \in 0..MaxSpawns
  /\ recorded \in [1..MaxSpawns -> 0..MaxBinary]

\* A free number has a well-formed entry.
LEMMA FreeType == Free \in Groups /\ Free.kind = "free" /\ Free.run = 0 /\ Free.leader = "gone"
<1>1. FALSE \in BOOLEAN
  BY Zenon
<1>2. 0 \in 0..MaxSpawns
  BY ProcessesAssumption
<1> QED
  BY <1>1, <1>2 DEF Free, Groups

\* So has the absent file.
LEMMA NoFileType ==
  NoFile \in [pid : Pids \cup {NoPid}, run : 0..MaxSpawns, binary : 0..MaxBinary]
  BY ProcessesAssumption DEF NoFile

\* TypeOK is the process table and the rest.
LEMMA TypeSplit == TypeOK <=> group \in [Pids -> Groups] /\ Rest
  BY Zenon DEF TypeOK, Groups, Rest

\* A change of the leader alone keeps the entry well-formed.
LEMMA LeaderType ==
  ASSUME NEW g \in Groups, NEW l \in {"alive", "zombie", "gone"}
  PROVE  /\ [g EXCEPT !.leader = l] \in Groups
         /\ [g EXCEPT !.leader = l].kind = g.kind
         /\ [g EXCEPT !.leader = l].run = g.run
         /\ [g EXCEPT !.leader = l].leader = l
  BY DEF Groups

\* So does a helper that starts or exits.
LEMMA HelperType ==
  ASSUME NEW g \in Groups, NEW b \in BOOLEAN
  PROVE  /\ [g EXCEPT !.helper = b] \in Groups
         /\ [g EXCEPT !.helper = b].kind = g.kind
         /\ [g EXCEPT !.helper = b].run = g.run
         /\ [g EXCEPT !.helper = b].leader = g.leader
  BY DEF Groups

\* WithoutLeader leaves less of a group.
LEMMA WithoutLeaderFact ==
  ASSUME NEW g \in Groups, g # Free
  PROVE  WithoutLeader(g) \in Groups /\ Shrunk(g, WithoutLeader(g))
<1>1. CASE g.helper
  BY <1>1, LeaderType DEF WithoutLeader, Shrunk
<1>2. CASE ~g.helper
  BY <1>2, FreeType DEF WithoutLeader, Shrunk
<1> QED
  BY <1>1, <1>2

\* Reaped leaves less of a group, and a leader unless it had exited.
LEMMA ReapedFact ==
  ASSUME NEW g \in Groups
  PROVE  Reaped(g) \in Groups /\ Shrunk(g, Reaped(g))
<1>1. CASE g.leader = "zombie"
  <2>1. g # Free
    BY <1>1, FreeType
  <2> QED
    BY <1>1, <2>1, WithoutLeaderFact DEF Reaped
<1>2. CASE g.leader # "zombie"
  BY <1>2 DEF Reaped, Shrunk
<1> QED
  BY <1>1, <1>2

\* An exit leaves less of a group.
LEMMA ExitedFact ==
  ASSUME NEW g \in Groups, g # Free, NEW p
  PROVE  Exited(p, g) \in Groups /\ Shrunk(g, Exited(p, g))
<1>1. CASE p \in {pid["pool"], pid["probe"]}
  <2>1. Exited(p, g) = [g EXCEPT !.leader = "zombie"]
    BY <1>1 DEF Exited
  <2> QED
    BY <2>1, LeaderType DEF Shrunk
<1>2. CASE p \notin {pid["pool"], pid["probe"]}
  BY <1>2, WithoutLeaderFact DEF Exited
<1> QED
  BY <1>1, <1>2

\* One entry shrinks.
LEMMA ShrinksOne ==
  ASSUME TypeOK, NEW p \in Pids, NEW h \in Groups, Shrunk(group[p], h),
         group' = [group EXCEPT ![p] = h]
  PROVE  Shrinks /\ group'[p] = h
<1>1. group \in [Pids -> Groups]
  BY TypeSplit
<1>2. group' \in [Pids -> Groups] /\ group'[p] = h
  BY <1>1
<1>3. \A q \in Pids : Shrunk(group[q], group'[q])
  <2> TAKE q \in Pids
  <2>1. CASE q = p
    BY <2>1, <1>2
  <2>2. CASE q # p
    BY <1>1, <2>2 DEF Shrunk
  <2> QED
    BY <2>1, <2>2
<1> QED
  BY <1>2, <1>3 DEF Shrinks

\* None does.
LEMMA ShrinksNone ==
  ASSUME TypeOK, UNCHANGED group
  PROVE  Shrinks
<1>1. group \in [Pids -> Groups]
  BY TypeSplit
<1> QED
  BY <1>1 DEF Shrinks, Shrunk
-----------------------------------------------------------------------------
(***************************************************************************)
(* What a step that starts no process keeps                                *)
(***************************************************************************)
\* A live child that was recorded under the present binary.
Recorded(p) ==
  group[p].kind = "pool" /\ group[p].leader = "alive" /\ recorded[group[p].run] = binary

\* Serial numbers stay unique, and the file stays true or goes.
LEMMA KeepsRuns ==
  ASSUME TypeOK, RunsUnique, Shrinks, UNCHANGED <<spawned, recorded, binary>>,
         file' \in {file, NoFile}
  PROVE  RunsUnique'
<1>1. \A p \in Pids : \/ group'[p] = Free
                      \/ group'[p].kind = group[p].kind /\ group'[p].run = group[p].run
  BY DEF Shrinks, Shrunk
<1>2. (\A p \in Pids : IF group[p].kind \in {"pool", "probe"}
                        THEN group[p].run \in 1..spawned ELSE group[p].run = 0)'
  <2> SUFFICES ASSUME NEW p \in Pids
               PROVE  IF group'[p].kind \in {"pool", "probe"}
                      THEN group'[p].run \in 1..spawned ELSE group'[p].run = 0
    OBVIOUS
  <2>1. CASE group'[p] = Free
    BY <2>1, FreeType
  <2>2. CASE group'[p].kind = group[p].kind /\ group'[p].run = group[p].run
    BY <2>2 DEF RunsUnique
  <2> QED
    BY <1>1, <2>1, <2>2
<1>3. (\A p, q \in Pids : group[p].run = group[q].run /\ group[p].run # 0 => p = q)'
  BY <1>1, FreeType DEF RunsUnique
<1>4. (\A n \in 1..MaxSpawns : recorded[n] <= binary /\ (n > spawned => recorded[n] = 0))'
  BY DEF RunsUnique
<1>5. (file # NoFile =>
         /\ file.pid \in Pids /\ file.run \in 1..spawned
         /\ recorded[file.run] = file.binary
         /\ \A p \in Pids : group[p].run = file.run => group[p].kind = "pool")'
  <2> SUFFICES ASSUME file' # NoFile
               PROVE  (/\ file.pid \in Pids /\ file.run \in 1..spawned
                       /\ recorded[file.run] = file.binary
                       /\ \A p \in Pids : group[p].run = file.run => group[p].kind = "pool")'
    OBVIOUS
  <2>1. file' = file /\ file # NoFile
    OBVIOUS
  <2>2. file.run \in 1..spawned /\ file.run # 0
    BY <2>1 DEF RunsUnique, TypeOK
  <2> QED
    BY <1>1, <2>1, <2>2, FreeType DEF RunsUnique
<1> QED
  BY <1>2, <1>3, <1>4, <1>5 DEF RunsUnique

\* A child that counts as recorded after such a step did so before.
LEMMA KeepsRecorded ==
  ASSUME Shrinks, UNCHANGED <<recorded, binary>>, NEW p \in Pids, Recorded(p)'
  PROVE  Recorded(p) /\ group'[p].run = group[p].run
<1>1. group'[p] # Free
  BY FreeType DEF Recorded
<1> QED
  BY <1>1 DEF Shrinks, Shrunk, Recorded

\* So the file still names it.
LEMMA KeepsKnown ==
  ASSUME Known, Shrinks, UNCHANGED <<recorded, binary>>,
         \/ UNCHANGED file
         \/ \A p \in Pids : ~Recorded(p)
  PROVE  Known'
<1> SUFFICES ASSUME NEW p \in Pids, Recorded(p)'
             PROVE  (file.pid = p /\ file.run = group[p].run /\ file.binary = binary)'
  BY DEF Known, Recorded
<1>1. Recorded(p) /\ group'[p].run = group[p].run
  BY KeepsRecorded
<1> QED
  BY <1>1 DEF Known, Recorded

\* Past the start the Pool's child stays the only one.
LEMMA KeepsAlone ==
  ASSUME Shrinks, UNCHANGED <<recorded, binary>>,
         worker' \in {"idle", "record", "child", "closing"} =>
           \A p \in Pids : p # pid'["pool"] => ~Recorded(p)
  PROVE  Alone'
<1> SUFFICES ASSUME worker' \in {"idle", "record", "child", "closing"},
                    NEW p \in Pids, p # pid'["pool"], Recorded(p)'
             PROVE  FALSE
  BY DEF Alone, Recorded
<1>1. Recorded(p)
  BY KeepsRecorded
<1> QED
  BY <1>1

\* The numbers the tasks rely on still stand for what they stood for.
LEMMA KeepsHeld ==
  ASSUME TypeOK, ControlInv, RunsUnique, Held, Shrinks, UNCHANGED recorded,
         \A t \in Tasks : pid'[t] \in {pid[t], NoPid},
         \A t \in Tasks : phase'[t] = "gone" =>
           /\ pid'[t] = pid[t] /\ pid[t] \in Pids
           /\ phase[t] = "gone" \/ group'[pid[t]] = Free,
         worker' = "corroborate" => worker = "corroborate" /\ UNCHANGED file,
         worker' = "record" =>
           /\ worker = "record" /\ pid'["pool"] = pid["pool"]
           /\ group'[pid["pool"]].leader # "gone"
  PROVE  Held'
<1>1. \A t \in Tasks : pid[t] \in Pids \cup {NoPid}
  BY DEF TypeOK
<1>2. \A p \in Pids : \/ group'[p] = Free
                      \/ /\ group[p] # Free
                         /\ group'[p].kind = group[p].kind /\ group'[p].run = group[p].run
  BY DEF Shrinks, Shrunk
<1>3. (\A t \in Tasks : pid[t] # NoPid =>
         \/ group[pid[t]] = Free
         \/ group[pid[t]].kind = IF t = "probe" THEN "probe" ELSE "pool")'
  BY <1>1, <1>2 DEF Held
<1>4. (\A t \in Tasks : phase[t] = "gone" => group[pid[t]] = Free)'
  BY <1>1, <1>2 DEF Held
<1>5. (worker = "corroborate" => group[file.pid] = Free \/ group[file.pid].kind = "pool")'
  <2> SUFFICES ASSUME worker' = "corroborate"
               PROVE  (group[file.pid] = Free \/ group[file.pid].kind = "pool")'
    OBVIOUS
  <2>1. file.pid \in Pids
    BY DEF ControlInv, RunsUnique
  <2> QED
    BY <2>1, <1>2 DEF Held
<1>6. (worker = "record" => /\ group[pid["pool"]].kind = "pool"
                            /\ group[pid["pool"]].leader # "gone"
                            /\ recorded[group[pid["pool"]].run] = 0)'
  <2> SUFFICES ASSUME worker' = "record"
               PROVE  (/\ group[pid["pool"]].kind = "pool"
                       /\ group[pid["pool"]].leader # "gone"
                       /\ recorded[group[pid["pool"]].run] = 0)'
    OBVIOUS
  <2>1. pid["pool"] \in Pids /\ pid'["pool"] = pid["pool"]
    BY <1>1 DEF ControlInv, Tasks
  <2>2. group'[pid["pool"]] # Free
    BY <2>1, FreeType
  <2> QED
    BY <1>2, <2>1, <2>2 DEF Held
<1> QED
  BY <1>3, <1>4, <1>5, <1>6 DEF Held

\* A step that starts no process, leaves the file, and gives no task another
\* process: what is left to show of it.
LEMMA Frame ==
  ASSUME IInv, Shrinks, Rest', ControlInv', UNCHANGED <<file, binary, spawned, recorded>>,
         \A t \in Tasks : pid'[t] \in {pid[t], NoPid},
         \A t \in Tasks : phase'[t] = "gone" =>
           /\ pid'[t] = pid[t] /\ pid[t] \in Pids
           /\ phase[t] = "gone" \/ group'[pid[t]] = Free,
         worker' = "corroborate" => worker = "corroborate",
         worker' = "record" =>
           /\ worker = "record" /\ pid'["pool"] = pid["pool"]
           /\ group'[pid["pool"]].leader # "gone",
         worker' \in {"idle", "record", "child", "closing"} =>
           /\ worker \in {"idle", "record", "child", "closing"}
           /\ pid'["pool"] = pid["pool"]
  PROVE  IInv'
<1>1. TypeOK'
  BY TypeSplit DEF Shrinks, TypeOK, Groups, Rest
<1>2. RunsUnique' /\ Known'
  BY KeepsRuns, KeepsKnown DEF IInv
<1>3. Held'
  BY KeepsHeld DEF IInv
<1>4. Alone'
  <2>1. worker' \in {"idle", "record", "child", "closing"} =>
          \A p \in Pids : p # pid'["pool"] => ~Recorded(p)
    BY DEF IInv, Alone, Recorded
  <2> QED
    BY <2>1, KeepsAlone
<1> QED
  BY <1>1, <1>2, <1>3, <1>4 DEF IInv

\* The common facts: a task at work has a number, and each entry is one.
LEMMA Facts ==
  ASSUME IInv
  PROVE  /\ TypeOK /\ Rest /\ group \in [Pids -> Groups]
         /\ \A t \in Tasks : pid[t] \in Pids \cup {NoPid}
         /\ \A t \in Tasks : phase[t] # "none" => pid[t] \in Pids
         /\ worker \in {"record", "child", "closing"} => pid["pool"] \in Pids
         /\ worker \in {"marker", "corroborate", "cleanup"} => file.pid \in Pids
         /\ file # NoFile => file.pid \in Pids
  BY TypeSplit, NoPidAssumption DEF IInv, Rest, ControlInv, RunsUnique, Tasks
-----------------------------------------------------------------------------
(***************************************************************************)
(* terminate_group                                                         *)
(***************************************************************************)
\* SIGTERM.
LEMMA TermStep ==
  ASSUME IInv, NEW t \in Tasks, Term(t)
  PROVE  IInv'
<1> USE Facts
<1>1. Shrinks
  BY ShrinksNone DEF Term
<1>2. pid[t] \in Pids
  BY DEF Term
<1>3. Rest' /\ \A u \in Tasks : u # t => phase'[u] = phase[u]
  BY DEF Term, Rest
<1>4. phase'[t] = IF Exists(pid[t]) THEN "grace" ELSE "gone"
  BY DEF Term, Rest
<1>5. ControlInv'
  BY <1>3 DEF IInv, ControlInv, Term, Tasks
<1>6. \A u \in Tasks : phase'[u] = "gone" =>
        /\ pid'[u] = pid[u] /\ pid[u] \in Pids
        /\ phase[u] = "gone" \/ group'[pid[u]] = Free
  BY <1>2, <1>3, <1>4 DEF Term, Exists
<1>7. worker' = "record" => group'[pid["pool"]].leader # "gone"
  BY DEF IInv, Held, Term
<1> QED
  BY <1>1, <1>3, <1>5, <1>6, <1>7, Frame DEF Term

\* SIGKILL.
LEMMA KillStep ==
  ASSUME IInv, NEW t \in Tasks, Kill(t)
  PROVE  IInv'
<1> USE Facts
<1>1. pid[t] \in Pids /\ group[pid[t]] \in Groups
  BY DEF Kill
<1>2. PICK h \in Groups : /\ Shrunk(group[pid[t]], h)
                          /\ group' = [group EXCEPT ![pid[t]] = h]
                          /\ h = Free \/ phase' = [phase EXCEPT ![t] = "failed"]
  <2>1. CASE /\ group' = [group EXCEPT ![pid[t]] = Free]
             /\ phase' = [phase EXCEPT ![t] = "gone"]
    BY <2>1, FreeType DEF Shrunk
  <2>2. CASE /\ group' = [group EXCEPT ![pid[t]] =
                            IF t = "stale" THEN group[pid[t]] ELSE Reaped(group[pid[t]])]
             /\ phase' = [phase EXCEPT ![t] = "failed"]
    <3>1. CASE t = "stale"
      BY <3>1, <2>2, <1>1 DEF Shrunk
    <3>2. CASE t # "stale"
      BY <3>2, <2>2, <1>1, ReapedFact
    <3> QED
      BY <3>1, <3>2
  <2> QED
    BY <2>1, <2>2 DEF Kill
<1>3. Shrinks /\ group'[pid[t]] = h
  BY <1>1, <1>2, ShrinksOne
<1>4. Rest' /\ phase'[t] \in {"gone", "failed"} /\ \A u \in Tasks : u # t => phase'[u] = phase[u]
  BY DEF Kill, Rest
<1>5. phase'[t] = "gone" => h = Free
  BY <1>2 DEF Rest
<1>6. ControlInv'
  BY <1>4 DEF IInv, ControlInv, Kill, Tasks
<1>7. \A u \in Tasks : phase'[u] = "gone" =>
        /\ pid'[u] = pid[u] /\ pid[u] \in Pids
        /\ phase[u] = "gone" \/ group'[pid[u]] = Free
  BY <1>1, <1>3, <1>4, <1>5 DEF Kill
<1>8. worker' = "record" => group'[pid["pool"]].leader # "gone"
  <2> SUFFICES ASSUME worker' = "record" PROVE group'[pid["pool"]].leader # "gone"
    OBVIOUS
  <2>1. t # "pool" /\ pid["stale"] = NoPid /\ worker = "record" /\ pid["pool"] \in Pids
    BY DEF IInv, ControlInv, Kill
  <2>2. pid["pool"] # pid[t]
    BY <2>1, <1>1, NoPidAssumption DEF IInv, ControlInv, Tasks
  <2> QED
    BY <1>2, <2>1, <2>2 DEF IInv, Held
<1> QED
  BY <1>3, <1>4, <1>6, <1>7, <1>8, Frame DEF Kill
-----------------------------------------------------------------------------
(***************************************************************************)
(* Startup                                                                 *)
(***************************************************************************)
\* The start goes on: it is past the file and no recorded child is left.
LEMMA PastFile ==
  ASSUME IInv, UNCHANGED <<group, binary, spawned, recorded>>,
         file' \in {file, NoFile}, worker' = "idle", Rest', ControlInv',
         \A t \in Tasks : pid'[t] \in {pid[t], NoPid},
         \A t \in Tasks : phase'[t] \in {phase[t], "none"},
         \A t \in Tasks : phase'[t] = "gone" => pid'[t] = pid[t],
         \A p \in Pids : ~Recorded(p)
  PROVE  IInv'
<1> USE Facts
<1>1. Shrinks
  BY ShrinksNone
<1>2. TypeOK'
  BY TypeSplit DEF TypeOK, Rest
<1>3. RunsUnique' /\ Known'
  BY <1>1, KeepsRuns, KeepsKnown DEF IInv
<1>4. Held'
  BY <1>1, KeepsHeld DEF IInv
<1>5. Alone'
  BY <1>1, KeepsAlone
<1> QED
  BY <1>2, <1>3, <1>4, <1>5 DEF IInv

\* The five steps of the start.
LEMMA StartStep ==
  ASSUME IInv, StartNext
  PROVE  IInv'
<1> USE Facts
<1>1. CASE StartWorker
  <2>1. Rest' /\ Shrinks
    BY <1>1, ShrinksNone DEF StartWorker, Rest, WorkerStates
  <2>2. ControlInv'
    BY <1>1 DEF StartWorker, IInv, ControlInv, Tasks
  <2>3. CASE file = NoFile
    <3>1. \A p \in Pids : ~Recorded(p)
      BY <2>3, NoPidAssumption DEF IInv, Known, Recorded, NoFile
    <3> QED
      BY <1>1, <2>1, <2>2, <2>3, <3>1, PastFile DEF StartWorker
  <2>4. CASE file # NoFile
    BY <1>1, <2>1, <2>2, <2>4, Frame DEF StartWorker
  <2> QED
    BY <2>3, <2>4
<1>2. CASE ReadMarker
  <2>1. Rest' /\ Shrinks
    BY <1>2, ShrinksNone, NoFileType DEF ReadMarker, Rest, WorkerStates
  <2>2. CASE group[file.pid].leader = "gone" /\ file' = NoFile /\ worker' = "idle"
    <3>1. \A p \in Pids : ~Recorded(p)
      BY <2>2 DEF IInv, Known, Recorded
    <3>2. ControlInv'
      BY <1>2, <2>2 DEF ReadMarker, IInv, ControlInv, Tasks
    <3> QED
      BY <1>2, <2>1, <2>2, <3>1, <3>2, PastFile DEF ReadMarker
  <2>3. CASE ~MarkerMatches /\ file' = file /\ worker' = "idle"
    <3>1. \A p \in Pids : ~Recorded(p)
      BY <2>3 DEF IInv, Known, Recorded, MarkerMatches
    <3>2. ControlInv'
      BY <1>2, <2>3 DEF ReadMarker, IInv, ControlInv, Tasks
    <3> QED
      BY <1>2, <2>1, <2>3, <3>1, <3>2, PastFile DEF ReadMarker
  <2>4. CASE MarkerMatches /\ file' = file /\ worker' = "corroborate"
    <3>1. file.pid \in Pids /\ group[file.pid].kind = "pool"
      BY <1>2, <2>4 DEF ReadMarker, MarkerMatches, IInv, ControlInv, RunsUnique
    <3>2. file.pid # pid["probe"]
      BY <3>1, NoPidAssumption, FreeType DEF IInv, Held, Tasks
    <3>3. ControlInv'
      BY <1>2, <2>4, <3>2 DEF ReadMarker, IInv, ControlInv, Tasks
    <3>4. RunsUnique' /\ Known'
      BY <1>2, <2>1, <2>4, KeepsRuns, KeepsKnown DEF ReadMarker, IInv
    <3>5. Held' /\ Alone'
      BY <1>2, <2>4, <3>1 DEF ReadMarker, IInv, Held, Alone
    <3>6. TypeOK'
      BY <1>2, <2>1 DEF ReadMarker, TypeOK, Rest
    <3> QED
      BY <3>3, <3>4, <3>5, <3>6 DEF IInv
  <2> QED
    BY <1>2, <2>2, <2>3, <2>4 DEF ReadMarker
<1>3. CASE Corroborate
  <2>1. Rest' /\ Shrinks
    BY <1>3, ShrinksNone DEF Corroborate, Rest, WorkerStates
  <2>2. CASE CommandLineCorroborates /\ file.binary = binary
    <3>1. /\ worker' = "cleanup"
          /\ pid'["stale"] = file.pid /\ phase'["stale"] = "signal"
          /\ \A t \in {"pool", "probe"} : pid'[t] = pid[t] /\ phase'[t] = phase[t]
      BY <1>3, <2>2 DEF Corroborate, Rest, Tasks
    <3>2. ControlInv'
      BY <1>3, <3>1, NoPidAssumption DEF Corroborate, IInv, ControlInv, Tasks
    <3>3. RunsUnique' /\ Known'
      BY <1>3, <2>1, KeepsRuns, KeepsKnown DEF Corroborate, IInv
    <3>4. Held' /\ Alone'
      BY <1>3, <3>1 DEF Corroborate, IInv, Held, Alone, Tasks
    <3>5. TypeOK'
      BY <1>3, <2>1 DEF Corroborate, TypeOK, Rest
    <3> QED
      BY <3>2, <3>3, <3>4, <3>5 DEF IInv
  <2>3. CASE ~(CommandLineCorroborates /\ file.binary = binary)
    <3>1. \A p \in Pids : ~Recorded(p)
      BY <2>3 DEF IInv, Known, Recorded, CommandLineCorroborates
    <3>2. ControlInv'
      BY <1>3, <2>3 DEF Corroborate, IInv, ControlInv, Tasks
    <3> QED
      BY <1>3, <2>1, <2>3, <3>1, <3>2, PastFile DEF Corroborate
  <2> QED
    BY <2>2, <2>3
<1>4. CASE StaleDone
  <2>1. Rest'
    BY <1>4, NoFileType DEF StaleDone, LetGo, Rest, WorkerStates, Tasks
  <2>2. /\ pid'["stale"] = NoPid /\ phase'["stale"] = "none"
        /\ \A t \in {"pool", "probe"} : pid'[t] = pid[t] /\ phase'[t] = phase[t]
    BY <1>4 DEF StaleDone, LetGo, Rest, Tasks
  <2>3. ControlInv'
    BY <1>4, <2>2, NoPidAssumption DEF StaleDone, IInv, ControlInv, Tasks
  <2>4. group[file.pid] = Free
    BY <1>4 DEF StaleDone, IInv, Held, ControlInv, Tasks
  <2>5. \A p \in Pids : ~Recorded(p)
    BY <2>4, FreeType DEF IInv, Known, Recorded
  <2> QED
    BY <1>4, <2>1, <2>2, <2>3, <2>5, PastFile DEF StaleDone, Tasks
<1>5. CASE StaleFailed
  <2>1. Rest' /\ Shrinks
    BY <1>5, ShrinksNone DEF StaleFailed, LetGo, Rest, WorkerStates
  <2>2. /\ pid'["stale"] = NoPid /\ phase'["stale"] = "none"
        /\ \A t \in {"pool", "probe"} : pid'[t] = pid[t] /\ phase'[t] = phase[t]
    BY <1>5 DEF StaleFailed, LetGo, Rest, Tasks
  <2>3. ControlInv'
    BY <1>5, <2>2, NoPidAssumption DEF StaleFailed, IInv, ControlInv, Tasks
  <2> QED
    BY <1>5, <2>1, <2>2, <2>3, Frame DEF StaleFailed, Tasks
<1> QED
  BY <1>1, <1>2, <1>3, <1>4, <1>5 DEF StartNext
-----------------------------------------------------------------------------
(***************************************************************************)
(* A new process                                                           *)
(***************************************************************************)
\* A child gets a serial number that was never used, a stranger none, and
\* neither is recorded.
LEMMA NewProcess ==
  ASSUME IInv, NEW p \in Pids, NEW h \in Groups, ~Exists(p),
         group' = [group EXCEPT ![p] = h], UNCHANGED <<file, binary, recorded>>,
         \/ /\ h.kind \in {"pool", "probe"} /\ h.run = spawned + 1
            /\ spawned' = spawned + 1 /\ spawned < MaxSpawns
         \/ h.kind = "foreign" /\ h.run = 0 /\ spawned' = spawned
  PROVE  /\ group' \in [Pids -> Groups] /\ group'[p] = h
         /\ \A q \in Pids : q # p => group'[q] = group[q]
         /\ spawned' \in 0..MaxSpawns
         /\ h.kind = "pool" => recorded[h.run] = 0
         /\ RunsUnique' /\ Known'
         /\ \A q \in Pids : Recorded(q)' => Recorded(q) /\ q # p
<1> USE Facts
<1>1. /\ group' \in [Pids -> Groups] /\ group'[p] = h
      /\ \A q \in Pids : q # p => group'[q] = group[q]
  OBVIOUS
<1>2. spawned \in Nat /\ MaxSpawns \in Nat /\ spawned' \in 0..MaxSpawns
  BY ProcessesAssumption DEF Rest
<1>3. h.kind = "pool" => recorded[h.run] = 0 /\ recorded'[h.run] # binary
  BY <1>2 DEF IInv, RunsUnique, Rest
<1>4. \A q \in Pids : group[q].run \in 0..spawned
  BY <1>2 DEF IInv, RunsUnique
<1>5. (\A q \in Pids : IF group[q].kind \in {"pool", "probe"}
                       THEN group[q].run \in 1..spawned ELSE group[q].run = 0)'
  <2> SUFFICES ASSUME NEW q \in Pids
               PROVE  IF group'[q].kind \in {"pool", "probe"}
                      THEN group'[q].run \in 1..spawned' ELSE group'[q].run = 0
    OBVIOUS
  <2>1. CASE q = p
    BY <2>1, <1>1, <1>2
  <2>2. CASE q # p
    BY <2>2, <1>1, <1>2 DEF IInv, RunsUnique
  <2> QED
    BY <2>1, <2>2
<1>6. (\A q, r \in Pids : group[q].run = group[r].run /\ group[q].run # 0 => q = r)'
  <2>1. \A q \in Pids : q # p => group'[q].run # h.run \/ h.run = 0
    BY <1>1, <1>2, <1>4
  <2> QED
    BY <2>1, <1>1 DEF IInv, RunsUnique
<1>7. (\A n \in 1..MaxSpawns : recorded[n] <= binary /\ (n > spawned => recorded[n] = 0))'
  BY <1>2 DEF IInv, RunsUnique
<1>8. (file # NoFile =>
         /\ file.pid \in Pids /\ file.run \in 1..spawned
         /\ recorded[file.run] = file.binary
         /\ \A q \in Pids : group[q].run = file.run => group[q].kind = "pool")'
  <2> SUFFICES ASSUME file # NoFile
               PROVE  /\ file.pid \in Pids /\ file.run \in 1..spawned'
                      /\ recorded[file.run] = file.binary
                      /\ \A q \in Pids : group'[q].run = file.run => group'[q].kind = "pool"
    OBVIOUS
  <2>1. file.run \in 1..spawned /\ file.run # h.run /\ file.run \in 1..spawned'
    BY <1>2 DEF IInv, RunsUnique
  <2> QED
    BY <2>1, <1>1 DEF IInv, RunsUnique
<1>9. \A q \in Pids : Recorded(q)' => Recorded(q) /\ q # p
  BY <1>1, <1>3 DEF Recorded
<1>10. Known'
  <2> SUFFICES ASSUME NEW q \in Pids, Recorded(q)'
               PROVE  (file.pid = q /\ file.run = group[q].run /\ file.binary = binary)'
    BY DEF Known, Recorded
  <2> QED
    BY <1>1, <1>9 DEF IInv, Known, Recorded
<1> QED
  BY <1>1, <1>2, <1>3, <1>5, <1>6, <1>7, <1>8, <1>9, <1>10 DEF RunsUnique

\* The entry of a child just spawned.
LEMMA SpawnedType ==
  ASSUME IInv, spawned < MaxSpawns, NEW k \in {"pool", "probe"}
  PROVE  /\ Spawned(k) \in Groups
         /\ Spawned(k).kind = k /\ Spawned(k).run = spawned + 1 /\ Spawned(k).leader = "alive"
<1>1. FALSE \in BOOLEAN
  BY Zenon
<1>2. spawned + 1 \in 0..MaxSpawns
  BY Facts, ProcessesAssumption DEF Rest
<1> QED
  BY <1>1, <1>2 DEF Spawned, Groups

\* A stranger's.
LEMMA ForeignType ==
  LET h == [kind |-> "foreign", run |-> 0, leader |-> "alive", helper |-> FALSE]
  IN  h \in Groups /\ h.kind = "foreign" /\ h.run = 0
<1>1. FALSE \in BOOLEAN
  BY Zenon
<1>2. 0 \in 0..MaxSpawns
  BY ProcessesAssumption
<1> QED
  BY <1>1, <1>2 DEF Groups

\* Spawn.
LEMMA SpawnStep ==
  ASSUME IInv, ~FastReuse, NEW p \in Pids, Spawn(p)
  PROVE  IInv'
<1> USE Facts
<1>1. /\ group'[p] = Spawned("pool") /\ group' \in [Pids -> Groups]
      /\ \A q \in Pids : q # p => group'[q] = group[q]
      /\ spawned' \in 0..MaxSpawns
      /\ recorded[group'[p].run] = 0
      /\ RunsUnique' /\ Known'
      /\ \A q \in Pids : Recorded(q)' => Recorded(q) /\ q # p
  BY NewProcess, SpawnedType DEF Spawn, Available
<1>2. /\ pid'["pool"] = p /\ \A t \in {"stale", "probe"} : pid'[t] = pid[t]
      /\ pid["pool"] = NoPid /\ pid["stale"] = NoPid /\ \A t \in Tasks : pid[t] # p
  BY DEF Spawn, Available, IInv, ControlInv, Rest, Tasks
<1>3. Rest'
  BY <1>1 DEF Spawn, Rest, WorkerStates
<1>4. ControlInv'
  BY <1>2, NoPidAssumption DEF Spawn, IInv, ControlInv, Tasks
<1>5. Held'
  <2>1. \A t \in {"stale", "probe"} : pid[t] # NoPid => group'[pid'[t]] = group[pid[t]]
    BY <1>1, <1>2 DEF Tasks
  <2>2. spawned < MaxSpawns
    BY DEF Spawn
  <2>3. group'[p].kind = "pool" /\ group'[p].leader # "gone"
    BY <1>1, <2>2, SpawnedType
  <2>4. phase["pool"] = "none" /\ phase' = phase /\ worker' = "record"
    BY DEF Spawn, IInv, ControlInv
  <2>5. \A t \in Tasks : phase[t] # "none" => pid[t] # NoPid
    BY DEF IInv, ControlInv
  <2>6. (\A t \in Tasks : pid[t] # NoPid =>
           \/ group[pid[t]] = Free
           \/ group[pid[t]].kind = IF t = "probe" THEN "probe" ELSE "pool")'
    BY <1>2, <2>1, <2>3 DEF IInv, Held, Tasks
  <2>7. (\A t \in Tasks : phase[t] = "gone" => group[pid[t]] = Free)'
    BY <1>2, <2>1, <2>4, <2>5 DEF IInv, Held, Tasks
  <2> QED
    BY <1>1, <1>2, <2>3, <2>4, <2>6, <2>7 DEF Held, Spawn
<1>6. Alone'
  <2>1. \A q \in Pids : ~Recorded(q)' \/ q = p
    BY <1>1, <1>2, NoPidAssumption DEF IInv, Alone, Recorded, Spawn
  <2> QED
    BY <1>2, <2>1 DEF Alone, Recorded
<1>7. TypeOK'
  BY <1>1, <1>3 DEF TypeOK, Groups, Rest
<1> QED
  BY <1>1, <1>4, <1>5, <1>6, <1>7 DEF IInv

\* ProbeSpawn.
LEMMA ProbeSpawnStep ==
  ASSUME IInv, ~FastReuse, NEW p \in Pids, ProbeSpawn(p)
  PROVE  IInv'
<1> USE Facts
<1>1. /\ group'[p] = Spawned("probe") /\ group' \in [Pids -> Groups]
      /\ \A q \in Pids : q # p => group'[q] = group[q]
      /\ spawned' \in 0..MaxSpawns
      /\ RunsUnique' /\ Known'
      /\ \A q \in Pids : Recorded(q)' => Recorded(q) /\ q # p
  BY NewProcess, SpawnedType DEF ProbeSpawn, Available
<1>2. /\ pid'["probe"] = p /\ \A t \in {"stale", "pool"} : pid'[t] = pid[t]
      /\ pid["probe"] = NoPid /\ \A t \in Tasks : pid[t] # p
      /\ worker = "corroborate" => file.pid # p
  BY DEF ProbeSpawn, Available, Rest, Tasks
<1>3. Rest'
  BY <1>1 DEF ProbeSpawn, Rest
<1>4. ControlInv'
  BY <1>2, NoPidAssumption DEF ProbeSpawn, IInv, ControlInv, Tasks
<1>5. Held'
  <2>1. \A t \in {"stale", "pool"} : pid[t] # NoPid => group'[pid'[t]] = group[pid[t]]
    BY <1>1, <1>2 DEF Tasks
  <2>2. spawned < MaxSpawns
    BY DEF ProbeSpawn
  <2>3. group'[p].kind = "probe"
    BY <1>1, <2>2, SpawnedType
  <2>4. phase["probe"] = "none" /\ phase' = phase /\ worker' = worker /\ file' = file
    BY <1>2 DEF ProbeSpawn, IInv, ControlInv, Tasks
  <2>5. \A t \in Tasks : phase[t] # "none" => pid[t] # NoPid
    BY DEF IInv, ControlInv
  <2>6. (\A t \in Tasks : pid[t] # NoPid =>
           \/ group[pid[t]] = Free
           \/ group[pid[t]].kind = IF t = "probe" THEN "probe" ELSE "pool")'
    BY <1>2, <2>1, <2>3 DEF IInv, Held, Tasks
  <2>7. (\A t \in Tasks : phase[t] = "gone" => group[pid[t]] = Free)'
    BY <1>2, <2>1, <2>4, <2>5 DEF IInv, Held, Tasks
  <2>8. (worker = "corroborate" => group[file.pid] = Free \/ group[file.pid].kind = "pool")'
    BY <1>1, <1>2, <2>4 DEF IInv, Held
  <2>9. (worker = "record" => /\ group[pid["pool"]].kind = "pool"
                              /\ group[pid["pool"]].leader # "gone"
                              /\ recorded[group[pid["pool"]].run] = 0)'
    <3> SUFFICES ASSUME worker = "record"
                 PROVE  /\ group'[pid["pool"]].kind = "pool"
                        /\ group'[pid["pool"]].leader # "gone"
                        /\ recorded[group'[pid["pool"]].run] = 0
      BY <1>2, <2>4 DEF ProbeSpawn
    <3> QED
      BY <1>2, <2>1, NoPidAssumption DEF IInv, Held
  <2> QED
    BY <2>6, <2>7, <2>8, <2>9 DEF Held
<1>6. Alone'
  BY <1>1, <1>2 DEF IInv, Alone, Recorded, ProbeSpawn
<1>7. TypeOK'
  BY <1>1, <1>3 DEF TypeOK, Groups, Rest
<1> QED
  BY <1>1, <1>4, <1>5, <1>6, <1>7 DEF IInv
-----------------------------------------------------------------------------
(***************************************************************************)
(* The Pool's child                                                        *)
(***************************************************************************)
\* record_identity_file names the only child that can count as recorded.
LEMMA RecordStep ==
  ASSUME IInv, Record
  PROVE  IInv'
<1> USE Facts
<1> DEFINE p == pid["pool"]
<1>1. /\ p \in Pids /\ group[p].kind = "pool" /\ recorded[group[p].run] = 0
      /\ group[p].run \in 1..spawned /\ group[p].run \in 1..MaxSpawns
  BY ProcessesAssumption DEF Record, IInv, Held, RunsUnique, Rest
<1>2. /\ file' = [pid |-> p, run |-> group[p].run, binary |-> binary]
      /\ file'.pid = p /\ file'.run = group[p].run /\ file'.binary = binary
      /\ recorded' = [recorded EXCEPT ![group[p].run] = binary]
      /\ recorded'[group[p].run] = binary
      /\ \A n \in 1..MaxSpawns : n # group[p].run => recorded'[n] = recorded[n]
  BY <1>1 DEF Record, Rest
<1>3. Rest'
  BY <1>1, <1>2, ProcessesAssumption DEF Record, Rest, WorkerStates
<1>4. file' # NoFile
  BY <1>1, <1>2, NoPidAssumption DEF NoFile
<1>5. ControlInv'
  BY <1>4 DEF Record, IInv, ControlInv, Tasks
<1>6. \A q \in Pids : q # p => group[q].run # group[p].run
  BY <1>1 DEF IInv, RunsUnique, Rest
<1>7. RunsUnique'
  <2>1. (\A n \in 1..MaxSpawns : recorded[n] <= binary /\ (n > spawned => recorded[n] = 0))'
    BY <1>1, <1>2, ProcessesAssumption DEF Record, IInv, RunsUnique, Rest
  <2>2. (file # NoFile =>
           /\ file.pid \in Pids /\ file.run \in 1..spawned
           /\ recorded[file.run] = file.binary
           /\ \A q \in Pids : group[q].run = file.run => group[q].kind = "pool")'
    BY <1>1, <1>2, <1>6 DEF Record
  <2> QED
    BY <2>1, <2>2 DEF Record, IInv, RunsUnique
<1>8. \A q \in Pids : q # p => ~Recorded(q)'
  <2> SUFFICES ASSUME NEW q \in Pids, q # p, group[q].kind = "pool", group[q].leader = "alive"
               PROVE  recorded'[group[q].run] # binary
    BY DEF Recorded, Record
  <2>1. group[q].run \in 1..MaxSpawns
    BY ProcessesAssumption DEF IInv, RunsUnique, Rest
  <2> QED
    BY <1>2, <1>6, <2>1 DEF IInv, Alone, Record
<1>9. Known'
  BY <1>2, <1>8 DEF Known, Recorded, Record
<1>10. Alone'
  BY <1>8 DEF Alone, Recorded, Record
<1>11. Held'
  BY DEF Held, IInv, Record
<1>12. TypeOK'
  BY <1>3 DEF TypeOK, Rest, Groups, Record
<1> QED
  BY <1>5, <1>7, <1>9, <1>10, <1>11, <1>12 DEF IInv

\* The Pool's other steps but Spawn, Record and StopDone.
LEMMA PoolStep ==
  ASSUME IInv,
         \/ RecordFails \/ (\E reap \in BOOLEAN : StopChild(reap))
         \/ Shutdown \/ StopFailed \/ StopInterrupted \/ Crash
  PROVE  IInv'
<1> USE Facts
<1>1. CASE RecordFails
  <2>1. Rest' /\ Shrinks /\ ControlInv'
    BY <1>1, ShrinksNone DEF RecordFails, Rest, WorkerStates, IInv, ControlInv, Tasks
  <2> QED
    BY <1>1, <2>1, Frame DEF RecordFails
<1>2. ASSUME NEW reap \in BOOLEAN, StopChild(reap) PROVE IInv'
  <2>1. pid["pool"] \in Pids /\ group[pid["pool"]] \in Groups
    BY <1>2 DEF StopChild
  <2>2. PICK h \in Groups : Shrunk(group[pid["pool"]], h)
                              /\ group' = [group EXCEPT ![pid["pool"]] = h]
    <3>1. CASE reap
      BY <1>2, <2>1, <3>1, ReapedFact DEF StopChild
    <3>2. CASE ~reap
      BY <1>2, <2>1, <3>2 DEF StopChild, Shrunk
    <3> QED
      BY <3>1, <3>2
  <2>3. Shrinks
    BY <2>1, <2>2, ShrinksOne
  <2>4. phase'["pool"] = "signal" /\ \A t \in {"stale", "probe"} : phase'[t] = phase[t]
    BY <1>2 DEF StopChild, Rest, Tasks
  <2>5. Rest' /\ ControlInv'
    BY <1>2, <2>1, <2>4, NoPidAssumption DEF StopChild, Rest, IInv, ControlInv, Tasks
  <2> QED
    BY <1>2, <2>3, <2>4, <2>5, Frame DEF StopChild, Tasks
<1>3. CASE Shutdown
  <2>1. Rest' /\ Shrinks
    BY <1>3, ShrinksNone DEF Shutdown, Rest, WorkerStates
  <2>2. \A t \in Tasks : \/ phase'[t] = phase[t]
                         \/ /\ t = "pool" /\ phase'[t] = "signal"
                            /\ worker = "child" /\ worker' = "closing"
    BY <1>3 DEF Shutdown, Rest, Tasks
  <2>3. ControlInv'
    BY <1>3, <2>2, NoPidAssumption DEF Shutdown, IInv, ControlInv, Tasks
  <2> QED
    BY <1>3, <2>1, <2>2, <2>3, Frame DEF Shutdown
<1>4. CASE StopFailed
  <2>1. /\ phase'["pool"] = "none" /\ \A t \in {"stale", "probe"} : phase'[t] = phase[t]
        /\ pid'["pool"] = IF worker = "closing" THEN NoPid ELSE pid["pool"]
        /\ \A t \in {"stale", "probe"} : pid'[t] = pid[t]
        /\ worker \in {"child", "closing"}
    BY <1>4 DEF StopFailed, Rest, Tasks, IInv, ControlInv
  <2>2. Rest' /\ Shrinks
    BY <1>4, ShrinksNone DEF StopFailed, Rest, WorkerStates
  <2>3. ControlInv'
    BY <1>4, <2>1, NoPidAssumption DEF StopFailed, IInv, ControlInv, Tasks
  <2> QED
    BY <1>4, <2>1, <2>2, <2>3, Frame DEF StopFailed, Tasks
<1>5. CASE StopInterrupted
  <2>1. phase'["pool"] = "none" /\ \A t \in {"stale", "probe"} : phase'[t] = phase[t]
    BY <1>5 DEF StopInterrupted, Rest, Tasks
  <2>2. Rest' /\ Shrinks
    BY <1>5, ShrinksNone DEF StopInterrupted, Rest
  <2>3. ControlInv'
    BY <1>5, <2>1 DEF StopInterrupted, IInv, ControlInv, Tasks
  <2> QED
    BY <1>5, <2>1, <2>2, <2>3, Frame DEF StopInterrupted, Tasks
<1>6. CASE Crash
  <2>1. /\ \A t \in {"stale", "pool"} : pid'[t] = NoPid /\ phase'[t] = "none"
        /\ pid'["probe"] = pid["probe"] /\ phase'["probe"] = phase["probe"]
        /\ worker' = "down"
    BY <1>6 DEF Crash, Rest, Tasks
  <2>2. Shrinks
    <3>1. \A p \in Pids : /\ group[p] \in Groups
                          /\ group'[p] = IF p = pid["pool"] THEN Reaped(group[p]) ELSE group[p]
      BY <1>6 DEF Crash
    <3>2. \A p \in Pids : group'[p] \in Groups /\ Shrunk(group[p], group'[p])
      BY <3>1, ReapedFact DEF Shrunk
    <3>3. group' = [p \in Pids |-> group'[p]]
      BY <1>6 DEF Crash
    <3> QED
      BY <3>2, <3>3 DEF Shrinks
  <2>3. Rest'
    BY <1>6 DEF Crash, Rest, WorkerStates
  <2>4. ControlInv'
    BY <1>6, <2>1, NoPidAssumption DEF Crash, IInv, ControlInv, Tasks
  <2> QED
    BY <1>6, <2>1, <2>2, <2>3, <2>4, Frame DEF Crash, Tasks
<1> QED
  BY <1>1, <1>2, <1>3, <1>4, <1>5, <1>6

\* terminate_tree removes the file only once no recorded child is left.
LEMMA StopDoneStep ==
  ASSUME IInv, StopDone
  PROVE  IInv' /\ \A p \in Pids : ~Recorded(p)
<1> USE Facts
<1>1. pid["pool"] \in Pids /\ group[pid["pool"]] = Free /\ worker \in {"child", "closing"}
  BY DEF StopDone, IInv, Held, ControlInv, Tasks
<1>2. \A p \in Pids : ~Recorded(p)
  BY <1>1, FreeType DEF IInv, Alone, Recorded
<1>3. /\ pid'["pool"] = NoPid /\ phase'["pool"] = "none"
      /\ \A t \in {"stale", "probe"} : pid'[t] = pid[t] /\ phase'[t] = phase[t]
  BY DEF StopDone, LetGo, Rest, Tasks
<1>4. Rest' /\ Shrinks
  BY ShrinksNone, NoFileType DEF StopDone, LetGo, Rest, WorkerStates, Tasks
<1>5. ControlInv'
  BY <1>1, <1>3, NoPidAssumption DEF StopDone, IInv, ControlInv, Tasks
<1>6. RunsUnique' /\ Known'
  BY <1>2, <1>4, KeepsRuns, KeepsKnown DEF StopDone, IInv
<1>7. Held'
  BY <1>3, <1>4, <1>1, KeepsHeld DEF StopDone, IInv, Tasks
<1>8. Alone'
  BY <1>2, <1>4, KeepsAlone DEF StopDone
<1>9. TypeOK'
  BY <1>4 DEF StopDone, TypeOK, Rest
<1> QED
  BY <1>2, <1>5, <1>6, <1>7, <1>8, <1>9 DEF IInv
-----------------------------------------------------------------------------
(***************************************************************************)
(* gpq worker diagnose                                                     *)
(***************************************************************************)
\* The probe lets go of its group, what is left of it reaped or as it was.
LEMMA ProbeEnds ==
  ASSUME IInv, NEW h \in Groups, pid["probe"] \in Pids, Shrunk(group[pid["probe"]], h),
         group' = [group EXCEPT ![pid["probe"]] = h], LetGo("probe"),
         UNCHANGED <<file, binary, worker, spawned, recorded>>
  PROVE  IInv'
<1> USE Facts
<1>1. Shrinks /\ \A q \in Pids : q # pid["probe"] => group'[q] = group[q]
  BY ShrinksOne
<1>2. /\ pid'["probe"] = NoPid /\ phase'["probe"] = "none"
      /\ \A t \in {"stale", "pool"} : pid'[t] = pid[t] /\ phase'[t] = phase[t]
  BY DEF LetGo, Rest, Tasks
<1>3. Rest'
  BY DEF LetGo, Rest, Tasks
<1>4. ControlInv'
  BY <1>2, NoPidAssumption DEF IInv, ControlInv, Tasks
<1>5. worker = "record" => group'[pid["pool"]].leader # "gone"
  <2> SUFFICES ASSUME worker = "record" PROVE group'[pid["pool"]].leader # "gone"
    OBVIOUS
  <2>1. pid["pool"] \in Pids /\ pid["pool"] # pid["probe"]
    BY NoPidAssumption DEF IInv, ControlInv
  <2> QED
    BY <1>1, <2>1 DEF IInv, Held
<1> QED
  BY <1>1, <1>2, <1>3, <1>4, <1>5, Frame DEF Tasks

\* The probe's steps but ProbeSpawn.
LEMMA ProbeStep ==
  ASSUME IInv, ProbeExited \/ ProbeTimeout \/ ProbeDone \/ ProbeDropped \/ ProbeQuit
  PROVE  IInv'
<1> USE Facts
<1>1. CASE ProbeExited
  <2>1. pid["probe"] \in Pids /\ group[pid["probe"]] \in Groups
    BY <1>1 DEF ProbeExited, Tasks
  <2> QED
    BY <1>1, <2>1, ReapedFact, ProbeEnds DEF ProbeExited
<1>2. CASE ProbeTimeout \/ ProbeDropped
  <2>1. /\ phase'["probe"] = "signal" /\ \A t \in {"stale", "pool"} : phase'[t] = phase[t]
        /\ pid["probe"] # NoPid
    BY <1>2 DEF ProbeTimeout, ProbeDropped, Rest, Tasks, IInv, ControlInv
  <2>2. Rest' /\ Shrinks
    BY <1>2, ShrinksNone DEF ProbeTimeout, ProbeDropped, Rest
  <2>3. ControlInv'
    BY <1>2, <2>1 DEF ProbeTimeout, ProbeDropped, IInv, ControlInv, Tasks
  <2>4. worker' = "record" => group'[pid["pool"]].leader # "gone"
    BY <1>2 DEF ProbeTimeout, ProbeDropped, IInv, Held
  <2> QED
    BY <1>2, <2>1, <2>2, <2>3, <2>4, Frame DEF ProbeTimeout, ProbeDropped, Tasks
<1>3. CASE ProbeDone
  <2>1. pid["probe"] \in Pids /\ group[pid["probe"]] \in Groups
    BY <1>3 DEF ProbeDone, Tasks
  <2>2. PICK h \in Groups : /\ Shrunk(group[pid["probe"]], h)
                            /\ group' = [group EXCEPT ![pid["probe"]] = h]
    <3>1. CASE phase["probe"] = "gone"
      BY <1>3, <2>1, <3>1 DEF ProbeDone, Shrunk
    <3>2. CASE phase["probe"] # "gone"
      BY <1>3, <2>1, <3>2, ReapedFact DEF ProbeDone
    <3> QED
      BY <3>1, <3>2
  <2> QED
    BY <1>3, <2>1, <2>2, ProbeEnds DEF ProbeDone
<1>4. CASE ProbeQuit
  <2>1. pid["probe"] \in Pids /\ group[pid["probe"]] \in Groups
    BY <1>4 DEF ProbeQuit, Tasks
  <2> QED
    BY <1>4, <2>1, ReapedFact, ProbeEnds DEF ProbeQuit
<1> QED
  BY <1>1, <1>2, <1>3, <1>4
-----------------------------------------------------------------------------
(***************************************************************************)
(* The system                                                              *)
(***************************************************************************)
\* A group changes by itself, the leader of the Pool's not reaped.
LEMMA GroupChanges ==
  ASSUME IInv, NEW p \in Pids, NEW h \in Groups, Shrunk(group[p], h),
         group' = [group EXCEPT ![p] = h],
         p = pid["pool"] /\ group[p].leader # "gone" => h.leader # "gone",
         UNCHANGED <<file, binary, worker, pid, phase, spawned, recorded>>
  PROVE  IInv'
<1> USE Facts
<1>1. Shrinks /\ group'[p] = h /\ \A q \in Pids : q # p => group'[q] = group[q]
  BY ShrinksOne
<1>2. Rest' /\ ControlInv'
  BY DEF Rest, IInv, ControlInv
<1>3. worker = "record" => group'[pid["pool"]].leader # "gone"
  BY <1>1 DEF IInv, Held
<1> QED
  BY <1>1, <1>2, <1>3, Frame

\* What the system and the operator do.
LEMMA SystemStep ==
  ASSUME IInv, ~FastReuse, SystemNext
  PROVE  IInv'
<1> USE Facts
<1>1. ASSUME NEW p \in Pids, LeaderExits(p) PROVE IInv'
  <2>1. group[p] \in Groups /\ group[p] # Free
    BY <1>1, FreeType DEF LeaderExits
  <2>2. p = pid["pool"] => Exited(p, group[p]).leader # "gone"
    BY <2>1, LeaderType DEF Exited
  <2> QED
    BY <1>1, <2>1, <2>2, ExitedFact, GroupChanges DEF LeaderExits
<1>2. ASSUME NEW p \in Pids, HelperStarts(p) PROVE IInv'
  <2>1. group[p] \in Groups /\ group[p] # Free /\ TRUE \in BOOLEAN
    BY <1>2, FreeType DEF HelperStarts
  <2>2. group' = [group EXCEPT ![p] = [group[p] EXCEPT !.helper = TRUE]]
    BY <1>2 DEF HelperStarts
  <2> QED
    BY <1>2, <2>1, <2>2, HelperType, GroupChanges DEF HelperStarts, Shrunk
<1>3. ASSUME NEW p \in Pids, HelperExits(p) PROVE IInv'
  <2>1. group[p] \in Groups
    OBVIOUS
  <2>2. CASE group[p].leader = "gone"
    BY <1>3, <2>1, <2>2, FreeType, GroupChanges DEF HelperExits, Shrunk
  <2>3. CASE group[p].leader # "gone"
    <3>1. FALSE \in BOOLEAN
      BY Zenon
    <3>2. group[p] # Free
      BY <2>3, FreeType
    <3>3. group' = [group EXCEPT ![p] = [group[p] EXCEPT !.helper = FALSE]]
      BY <1>3, <2>3 DEF HelperExits
    <3> DEFINE h == [group[p] EXCEPT !.helper = FALSE]
    <3>4. h \in Groups /\ Shrunk(group[p], h) /\ h.leader = group[p].leader
      BY <2>1, <3>1, <3>2, HelperType DEF Shrunk
    <3>5. group' = [group EXCEPT ![p] = h]
      BY <3>3
    <3> HIDE DEF h
    <3> QED
      BY <1>3, <2>3, <3>4, <3>5, GroupChanges DEF HelperExits
  <2> QED
    BY <2>2, <2>3
<1>4. ASSUME NEW p \in Pids, ForeignStart(p) PROVE IInv'
  <2>1. /\ group' \in [Pids -> Groups]
        /\ \A q \in Pids : q # p => group'[q] = group[q]
        /\ RunsUnique' /\ Known'
        /\ \A q \in Pids : Recorded(q)' => Recorded(q) /\ q # p
    BY <1>4, NewProcess, ForeignType DEF ForeignStart, Available
  <2>2. (\A t \in Tasks : pid[t] # p) /\ (worker = "corroborate" => file.pid # p)
    BY <1>4 DEF ForeignStart, Available
  <2>3. Rest' /\ ControlInv'
    BY <1>4 DEF ForeignStart, Rest, IInv, ControlInv
  <2>4. \A t \in Tasks : pid[t] # NoPid => group'[pid[t]] = group[pid[t]]
    BY <2>1, <2>2
  <2>5. worker = "corroborate" => group'[file.pid] = group[file.pid]
    BY <2>1, <2>2
  <2>6. /\ \A t \in Tasks : phase[t] # "none" => pid[t] # NoPid
        /\ worker = "record" => pid["pool"] # NoPid
    BY DEF IInv, ControlInv
  <2>7. Held'
    BY <1>4, <2>4, <2>5, <2>6 DEF ForeignStart, IInv, Held, Tasks
  <2>8. Alone'
    BY <1>4, <2>1 DEF ForeignStart, IInv, Alone, Recorded
  <2>9. TypeOK'
    BY <2>1, <2>3 DEF TypeOK, Groups, Rest
  <2> QED
    BY <2>1, <2>3, <2>7, <2>8, <2>9 DEF IInv
<1>5. CASE Upgrade
  <2>1. Rest'
    BY <1>5, ProcessesAssumption DEF Upgrade, Rest
  <2>2. \A n \in 1..MaxSpawns : recorded[n] < binary'
    <3> SUFFICES ASSUME NEW n \in 1..MaxSpawns PROVE recorded[n] < binary + 1
      BY <1>5 DEF Upgrade
    <3>1. recorded[n] \in Nat /\ binary \in Nat
      BY ProcessesAssumption DEF Rest
    <3>2. recorded[n] <= binary
      BY DEF IInv, RunsUnique
    <3> QED
      BY <3>1, <3>2
  <2>3. \A p \in Pids : ~Recorded(p)'
    <3> SUFFICES ASSUME NEW p \in Pids, group[p].kind = "pool"
                 PROVE  recorded[group[p].run] # binary'
      BY <1>5 DEF Upgrade, Recorded
    <3>1. group[p].run \in 1..MaxSpawns
      BY ProcessesAssumption DEF IInv, RunsUnique, Rest
    <3> QED
      BY <2>1, <2>2, <3>1 DEF Rest
  <2>4. Known' /\ Alone'
    BY <2>3 DEF Known, Alone, Recorded
  <2>5. RunsUnique'
    <3>1. \A n \in 1..MaxSpawns : recorded[n] <= binary'
      BY <2>1, <2>2, ProcessesAssumption DEF Rest
    <3> QED
      BY <1>5, <3>1 DEF Upgrade, IInv, RunsUnique
  <2>6. ControlInv' /\ Held'
    BY <1>5 DEF Upgrade, IInv, ControlInv, Held
  <2>7. TypeOK'
    BY <1>5, <2>1 DEF Upgrade, TypeOK, Rest
  <2> QED
    BY <2>4, <2>5, <2>6, <2>7 DEF IInv
<1> QED
  BY <1>1, <1>2, <1>3, <1>4, <1>5 DEF SystemNext
-----------------------------------------------------------------------------
(***************************************************************************)
(* The theorems                                                            *)
(***************************************************************************)
\* Nothing runs and nothing is recorded at first.
LEMMA InitIInv == Init => IInv
<1> SUFFICES ASSUME Init PROVE IInv
  OBVIOUS
<1>1. \A p \in Pids : group[p] = Free
  BY DEF Init
<1>2. group \in [Pids -> Groups] /\ Rest
  BY FreeType, NoFileType, ProcessesAssumption DEF Init, Rest, WorkerStates
<1>3. TypeOK
  BY <1>2, TypeSplit
<1>4. ControlInv
  BY DEF Init, ControlInv, Tasks
<1>5. RunsUnique
  BY <1>1, FreeType, ProcessesAssumption DEF Init, RunsUnique
<1>6. Held /\ Known /\ Alone
  BY <1>1, FreeType DEF Init, Held, Known, Alone, Tasks
<1> QED
  BY <1>3, <1>4, <1>5, <1>6 DEF IInv

\* IInv is inductive while no number is used again too soon.
LEMMA NextIInv ==
  ASSUME IInv, ~FastReuse, [Next]_vars
  PROVE  IInv'
<1>1. ASSUME NEW t \in Tasks, Term(t) \/ Kill(t) PROVE IInv'
  BY <1>1, TermStep, KillStep
<1>2. CASE PoolNext
  BY <1>2, SpawnStep, RecordStep, PoolStep, StopDoneStep DEF PoolNext
<1>3. CASE ProbeNext
  BY <1>3, ProbeSpawnStep, ProbeStep DEF ProbeNext
<1>4. CASE UNCHANGED vars
  BY <1>4 DEF vars, IInv, TypeOK, ControlInv, RunsUnique, Held, Known, Alone
<1> QED
  BY <1>1, <1>2, <1>3, <1>4, StartStep, SystemStep DEF Next

(***************************************************************************)
(* A group is signalled only by the task it was started for, and never on  *)
(* the word of a pid alone (verify_ownership, terminate_group), for every  *)
(* number of processes, children and upgrades.  FastReuse is excluded: the *)
(* code reads the marker and signals later, and nothing holds the number   *)
(* in between, so with an immediate reuse the statement is false.          *)
(***************************************************************************)
THEOREM SignalsCorrect ==
  ASSUME ~FastReuse
  PROVE  Spec => []SignalInv
<1>1. IInv => SignalInv
  <2> SUFFICES ASSUME IInv PROVE NeverBlind
    BY DEF IInv, SignalInv
  <2> QED
    BY DEF IInv, Held, ControlInv, NeverBlind
<1> QED
  BY <1>1, InitIInv, NextIInv, PTL DEF Spec

(***************************************************************************)
(* Next to the Pool's child no other child recorded under this binary      *)
(* runs (kill_stale, record_identity_file), whatever crashed or failed.    *)
(***************************************************************************)
THEOREM OrphansCorrect ==
  ASSUME ~FastReuse
  PROVE  Spec => []OrphansExplained
<1>1. IInv => OrphansExplained
  BY DEF IInv, Alone, ControlInv, OrphansExplained
<1> QED
  BY <1>1, InitIInv, NextIInv, PTL DEF Spec

\* A file of this binary that still names its live child names a recorded one.
LEMMA FileRecorded ==
  ASSUME IInv, file # NoFile, file.binary = binary, group[file.pid].run = file.run,
         group[file.pid].leader = "alive"
  PROVE  file.pid \in Pids /\ Recorded(file.pid)
  BY DEF IInv, RunsUnique, Recorded

\* Only four steps change the file, none of them over a live child.
LEMMA RecordKeptStep ==
  ASSUME IInv, [Next]_vars, file # NoFile, file' # file, file.binary = binary
  PROVE  ~(group'[file.pid].run = file.run /\ group'[file.pid].leader = "alive")
<1> USE Facts
<1> SUFFICES ASSUME group'[file.pid].run = file.run, group'[file.pid].leader = "alive"
             PROVE  FALSE
  OBVIOUS
<1>1. ReadMarker \/ StaleDone \/ Record \/ StopDone
  BY DEF Next, Term, Kill, StartNext, StartWorker, Corroborate, StaleFailed, PoolNext, Spawn,
         RecordFails, StopChild, Shutdown, StopFailed, StopInterrupted, Crash, ProbeNext,
         ProbeSpawn, ProbeExited, ProbeTimeout, ProbeDone, ProbeDropped, ProbeQuit, SystemNext,
         LeaderExits, HelperStarts, HelperExits, ForeignStart, Upgrade, vars
<1>2. group' = group
  BY <1>1 DEF ReadMarker, StaleDone, Record, StopDone
<1>3. file.pid \in Pids /\ Recorded(file.pid)
  BY <1>2, FileRecorded
<1>4. CASE ReadMarker
  BY <1>2, <1>4 DEF ReadMarker
<1>5. CASE StaleDone
  <2>1. group[file.pid] = Free
    BY <1>5 DEF StaleDone, IInv, Held, ControlInv, Tasks
  <2> QED
    BY <1>2, <2>1, FreeType
<1>6. CASE Record
  <2>1. file.pid = pid["pool"]
    BY <1>3, <1>6 DEF Record, IInv, Alone, Recorded
  <2>2. recorded[group[pid["pool"]].run] = 0
    BY <1>6 DEF Record, IInv, Held
  <2> QED
    BY <1>3, <2>1, <2>2 DEF Recorded, Rest
<1>7. CASE StopDone
  BY <1>3, <1>7, StopDoneStep
<1> QED
  BY <1>1, <1>4, <1>5, <1>6, <1>7

(***************************************************************************)
(* The record of a live child of this binary is neither removed nor        *)
(* overwritten by any step (kill_stale, terminate_tree,                    *)
(* record_identity_file), so a crash at any later moment still finds it.   *)
(***************************************************************************)
THEOREM RecordKeptCorrect ==
  ASSUME ~FastReuse
  PROVE  Spec => RecordKept
<1>1. IInv /\ [Next]_vars =>
        [(file # NoFile /\ file' # file /\ file.binary = binary)
           => ~(group'[file.pid].run = file.run /\ group'[file.pid].leader = "alive")]_vars
  BY RecordKeptStep
<1> QED
  BY <1>1, InitIInv, NextIInv, PTL DEF Spec, RecordKept
=============================================================================
