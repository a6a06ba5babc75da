------------------------------ MODULE Processes -----------------------------
(***************************************************************************)
(* The native child of one Pool as the operating system sees it: process   *)
(* groups, the identity file that lets the next run of the Worker find the *)
(* child of the last one, and the three callers that signal a group by its *)
(* number: the start of the Worker (kill_stale), the Pool supervisor       *)
(* (terminate_managed_process) and `gpq worker diagnose`.                  *)
(*                                                                         *)
(* PoolSupervisor says when the supervisor starts and stops a child; here  *)
(* it may do so at any time, and what matters is which processes are left. *)
(* Unix only.  A process is named by a serial number; what `ps` tells of   *)
(* it (start time and command line) differs between any two processes that *)
(* had the same pid.  The group of a process whose leader has exited lives *)
(* on while a helper does, and its number is not given out again.          *)
(***************************************************************************)
EXTENDS Naturals

CONSTANTS Pids,       \* numbers of processes and of their groups
          MaxSpawns,  \* children spawned, by the Pool and by diagnose together
          MaxBinary,  \* versions of the gpq executable installed, one by one
          FastReuse   \* a number may be used again while the Worker, having
                      \* verified it or owning its process, has yet to signal it

ASSUME ProcessesAssumption ==
    /\ MaxSpawns \in Nat /\ MaxBinary \in Nat \ {0}
    /\ FastReuse \in BOOLEAN

NoPid == "no pid"

ASSUME NoPidAssumption == NoPid \notin Pids

Free == [kind |-> "free", run |-> 0, leader |-> "gone", helper |-> FALSE]
NoFile == [pid |-> NoPid, run |-> 0, binary |-> 0]

\* Who signals groups: kill_stale, the Pool supervisor, diagnose.
Tasks == {"stale", "pool", "probe"}

VARIABLES
    group,    \* the process table, by group
    file,     \* process-identity.json: the ProcessIdentity, the marker as a serial
    binary,   \* size and mtime of the gpq executable, as a version
    worker,   \* the Worker process and where it is with its child
    pid,      \* the process each task is responsible for
    phase,    \* its progress through terminate_group
    spawned,  \* children spawned so far
    recorded  \* ghost: the version recorded for each child, 0 for none

vars == <<group, file, binary, worker, pid, phase, spawned, recorded>>

-----------------------------------------------------------------------------
WorkerStates == {"down", "marker", "corroborate", "cleanup", "idle", "record",
                 "child", "closing"}

TypeOK ==
  /\ group \in [Pids -> [kind : {"free", "pool", "probe", "foreign"},
                         run : 0..MaxSpawns,
                         leader : {"alive", "zombie", "gone"},
                         helper : BOOLEAN]]
  /\ file \in [pid : Pids \cup {NoPid}, run : 0..MaxSpawns, binary : 0..MaxBinary]
  /\ binary \in 1..MaxBinary
  /\ worker \in WorkerStates
  /\ pid \in [Tasks -> Pids \cup {NoPid}]
  /\ phase \in [Tasks -> {"none", "signal", "grace", "gone", "failed"}]
  /\ spawned \in 0..MaxSpawns
  /\ recorded \in [1..MaxSpawns -> 0..MaxBinary]

Init ==
  /\ group = [p \in Pids |-> Free]
  /\ file = NoFile
  /\ binary = 1
  /\ worker = "down"
  /\ pid = [t \in Tasks |-> NoPid]
  /\ phase = [t \in Tasks |-> "none"]
  /\ spawned = 0
  /\ recorded = [n \in 1..MaxSpawns |-> 0]
-----------------------------------------------------------------------------
(***************************************************************************)
(* Process groups                                                          *)
(***************************************************************************)
Exists(p) == group[p] # Free

\* Numbers the system may give to a new process: not at once, unless
\* FastReuse, the ones a task still relies on.
Available(p) ==
  /\ ~Exists(p)
  /\ \/ FastReuse
     \/ /\ \A t \in Tasks : pid[t] # p
        /\ ~(worker = "corroborate" /\ file.pid = p)

\* The group without its leader, or nothing.
WithoutLeader(g) == IF g.helper THEN [g EXCEPT !.leader = "gone"] ELSE Free

\* try_wait and wait: a leader that has exited leaves the process table.
Reaped(g) == IF g.leader = "zombie" THEN WithoutLeader(g) ELSE g

\* What becomes of an exited leader: its parent has to wait for it, and if
\* the parent is gone init does.
Exited(p, g) ==
  IF p \in {pid["pool"], pid["probe"]} THEN [g EXCEPT !.leader = "zombie"]
  ELSE WithoutLeader(g)

Spawned(kind) ==
  [kind |-> kind, run |-> spawned + 1, leader |-> "alive", helper |-> FALSE]
-----------------------------------------------------------------------------
(***************************************************************************)
(* terminate_group, for each of its callers                                *)
(***************************************************************************)
\* SIGTERM to the group; ESRCH means that it is gone.
Term(t) ==
  /\ phase[t] = "signal"
  /\ phase' = [phase EXCEPT ![t] = IF Exists(pid[t]) THEN "grace" ELSE "gone"]
  /\ UNCHANGED <<group, file, binary, worker, pid, spawned, recorded>>

\* After the grace: our own leader is reaped and the group probed; if any of
\* it is left it gets SIGKILL, which ends it, or does not within 5 seconds.
Kill(t) ==
  LET p == pid[t]
      left == IF t = "stale" THEN group[p] ELSE Reaped(group[p])
  IN /\ phase[t] = "grace"
     /\ \/ /\ group' = [group EXCEPT ![p] = Free]
           /\ phase' = [phase EXCEPT ![t] = "gone"]
        \/ /\ left # Free
           /\ group' = [group EXCEPT ![p] = left]
           /\ phase' = [phase EXCEPT ![t] = "failed"]
     /\ UNCHANGED <<file, binary, worker, pid, spawned, recorded>>

\* The task lets go of its process.
LetGo(t) ==
  /\ pid' = [pid EXCEPT ![t] = NoPid]
  /\ phase' = [phase EXCEPT ![t] = "none"]
-----------------------------------------------------------------------------
(***************************************************************************)
(* Startup: PoolSupervisor::start calls kill_stale                         *)
(***************************************************************************)
StartWorker ==
  /\ worker = "down"
  /\ worker' = IF file = NoFile THEN "idle" ELSE "marker"
  /\ UNCHANGED <<group, file, binary, pid, phase, spawned, recorded>>

\* Seeded fault: the pid alone proves ownership.
MarkerIgnored == TRUE

\* The start time `ps` reports is the recorded one.
MarkerMatches == group[file.pid].run = file.run

\* verify_ownership, first part: `ps` asks for the start time of the leader.
\* Gone removes the file; Foreign leaves it.
ReadMarker ==
  /\ worker = "marker"
  /\ \/ /\ group[file.pid].leader = "gone"
        /\ file' = NoFile
        /\ worker' = "idle"
     \/ /\ group[file.pid].leader # "gone"
        /\ worker' = IF MarkerMatches THEN "corroborate" ELSE "idle"
        /\ UNCHANGED file
  /\ UNCHANGED <<group, binary, pid, phase, spawned, recorded>>

\* A live command line without the executable disqualifies; none at all,
\* because the process has exited since, does not.
CommandLineCorroborates ==
  group[file.pid].leader # "gone" => group[file.pid].kind \in {"pool", "probe"}

\* verify_ownership, second part: the command line and the executable.
Corroborate ==
  LET owned == CommandLineCorroborates /\ file.binary = binary IN
  /\ worker = "corroborate"
  /\ \/ /\ owned
        /\ worker' = "cleanup"
        /\ pid' = [pid EXCEPT !["stale"] = file.pid]
        /\ phase' = [phase EXCEPT !["stale"] = "signal"]
     \/ /\ ~owned
        /\ worker' = "idle"
        /\ UNCHANGED <<pid, phase>>
  /\ UNCHANGED <<group, file, binary, spawned, recorded>>

\* kill_stale returns; the file goes with the child.
StaleDone ==
  /\ worker = "cleanup" /\ phase["stale"] = "gone"
  /\ LetGo("stale")
  /\ file' = NoFile
  /\ worker' = "idle"
  /\ UNCHANGED <<group, binary, spawned, recorded>>

\* Seeded fault: the start goes on although the child is still there.
StaleIgnored ==
  /\ worker = "cleanup" /\ phase["stale"] = "failed"
  /\ LetGo("stale")
  /\ worker' = "idle"
  /\ UNCHANGED <<group, file, binary, spawned, recorded>>

\* kill_stale fails, and with it the start of the Worker.
StaleFailed ==
  /\ worker = "cleanup" /\ phase["stale"] = "failed"
  /\ LetGo("stale")
  /\ worker' = "down"
  /\ UNCHANGED <<group, file, binary, spawned, recorded>>
-----------------------------------------------------------------------------
(***************************************************************************)
(* The Pool's own child                                                    *)
(***************************************************************************)
\* start_infer_child up to the hand-over of the handle: there is no await
\* between spawn and disarm, so the ProcessGuard never fires here.
Spawn(p) ==
  /\ worker = "idle"
  /\ Available(p) /\ spawned < MaxSpawns
  /\ group' = [group EXCEPT ![p] = Spawned("pool")]
  /\ pid' = [pid EXCEPT !["pool"] = p]
  /\ worker' = "record"
  /\ spawned' = spawned + 1
  /\ UNCHANGED <<file, binary, phase, recorded>>

\* record_identity_file: marker and metadata are read, a temporary file is
\* written and renamed.  `ps` also finds a leader that has exited, since it
\* has not been waited for.
Record ==
  LET run == group[pid["pool"]].run IN
  /\ worker = "record"
  /\ file' = [pid |-> pid["pool"], run |-> run, binary |-> binary]
  /\ recorded' = [recorded EXCEPT ![run] = binary]
  /\ worker' = "child"
  /\ UNCHANGED <<group, binary, pid, phase, spawned>>

\* It fails: the Pool keeps the child, its termination pending.
RecordFails ==
  /\ worker = "record"
  /\ worker' = "child"
  /\ UNCHANGED <<group, file, binary, pid, phase, spawned, recorded>>

\* A caller of terminate_managed_process takes the process.  The recovery
\* and liveness checks have reaped its leader if it exited.
StopChild(reap) ==
  LET p == pid["pool"] IN
  /\ worker = "child" /\ phase["pool"] = "none"
  /\ reap => group[p].leader = "zombie"
  /\ group' = [group EXCEPT ![p] = IF reap THEN Reaped(@) ELSE @]
  /\ phase' = [phase EXCEPT !["pool"] = "signal"]
  /\ UNCHANGED <<file, binary, worker, pid, spawned, recorded>>

\* PoolSupervisor::shutdown.
Shutdown ==
  /\ \/ /\ worker = "idle" /\ worker' = "down"
        /\ UNCHANGED phase
     \/ /\ worker = "child" /\ phase["pool"] = "none"
        /\ worker' = "closing"
        /\ phase' = [phase EXCEPT !["pool"] = "signal"]
  /\ UNCHANGED <<group, file, binary, pid, spawned, recorded>>

\* terminate_tree succeeds and removes the file.
StopDone ==
  /\ phase["pool"] = "gone"
  /\ LetGo("pool")
  /\ file' = NoFile
  /\ worker' = IF worker = "closing" THEN "down" ELSE "idle"
  /\ UNCHANGED <<group, binary, spawned, recorded>>

\* Seeded fault: the file goes although the termination failed.
StopFailedForgets ==
  /\ phase["pool"] = "failed"
  /\ phase' = [phase EXCEPT !["pool"] = "none"]
  /\ pid' = IF worker = "closing" THEN [pid EXCEPT !["pool"] = NoPid] ELSE pid
  /\ worker' = IF worker = "closing" THEN "down" ELSE worker
  /\ file' = NoFile
  /\ UNCHANGED <<group, binary, spawned, recorded>>

\* It fails: TerminatingProcessGuard puts the process back; shutdown drops
\* the handle, which kills nothing.  Either way the file stays.
StopFailed ==
  /\ phase["pool"] = "failed"
  /\ phase' = [phase EXCEPT !["pool"] = "none"]
  /\ pid' = IF worker = "closing" THEN [pid EXCEPT !["pool"] = NoPid] ELSE pid
  /\ worker' = IF worker = "closing" THEN "down" ELSE worker
  /\ UNCHANGED <<group, file, binary, spawned, recorded>>

\* The task that terminates is dropped; the guard puts the process back.
StopInterrupted ==
  /\ worker = "child" /\ phase["pool"] \in {"signal", "grace"}
  /\ phase' = [phase EXCEPT !["pool"] = "none"]
  /\ UNCHANGED <<group, file, binary, worker, pid, spawned, recorded>>

\* The Worker is killed; init adopts, and reaps, its children.
Crash ==
  /\ worker # "down"
  /\ worker' = "down"
  /\ pid' = [pid EXCEPT !["stale"] = NoPid, !["pool"] = NoPid]
  /\ phase' = [phase EXCEPT !["stale"] = "none", !["pool"] = "none"]
  /\ group' = [p \in Pids |-> IF p = pid["pool"] THEN Reaped(group[p])
                              ELSE group[p]]
  /\ UNCHANGED <<file, binary, spawned, recorded>>
-----------------------------------------------------------------------------
(***************************************************************************)
(* gpq worker diagnose: run_accelerator_probe, its child never recorded    *)
(***************************************************************************)
ProbeSpawn(p) ==
  /\ pid["probe"] = NoPid
  /\ Available(p) /\ spawned < MaxSpawns
  /\ group' = [group EXCEPT ![p] = Spawned("probe")]
  /\ pid' = [pid EXCEPT !["probe"] = p]
  /\ spawned' = spawned + 1
  /\ UNCHANGED <<file, binary, worker, phase, recorded>>

\* The probe exits by itself and is disarmed; what it started is left.
ProbeExited ==
  LET p == pid["probe"] IN
  /\ p # NoPid /\ phase["probe"] = "none"
  /\ group[p].leader = "zombie"
  /\ group' = [group EXCEPT ![p] = Reaped(@)]
  /\ LetGo("probe")
  /\ UNCHANGED <<file, binary, worker, spawned, recorded>>

\* It exceeds startup_timeout: stop_diagnostic_process.
ProbeTimeout ==
  /\ pid["probe"] # NoPid /\ phase["probe"] = "none"
  /\ phase' = [phase EXCEPT !["probe"] = "signal"]
  /\ UNCHANGED <<group, file, binary, worker, pid, spawned, recorded>>

\* The termination succeeded, or failed with the leader gone: disarmed.
ProbeDone ==
  LET p == pid["probe"] IN
  /\ \/ phase["probe"] = "gone"
     \/ phase["probe"] = "failed" /\ group[p].leader # "alive"
  /\ group' = [group EXCEPT ![p] = IF phase["probe"] = "gone" THEN @ ELSE Reaped(@)]
  /\ LetGo("probe")
  /\ UNCHANGED <<file, binary, worker, spawned, recorded>>

\* It failed with the leader alive: the guard is dropped, and a task of its
\* own tries terminate_tree once more.
ProbeDropped ==
  /\ phase["probe"] = "failed" /\ group[pid["probe"]].leader = "alive"
  /\ phase' = [phase EXCEPT !["probe"] = "signal"]
  /\ UNCHANGED <<group, file, binary, worker, pid, spawned, recorded>>

\* The command ends or is interrupted, whatever it was doing.
ProbeQuit ==
  LET p == pid["probe"] IN
  /\ p # NoPid
  /\ group' = [group EXCEPT ![p] = Reaped(@)]
  /\ LetGo("probe")
  /\ UNCHANGED <<file, binary, worker, spawned, recorded>>
-----------------------------------------------------------------------------
(***************************************************************************)
(* The operating system and the operator                                   *)
(***************************************************************************)
LeaderExits(p) ==
  /\ group[p].leader = "alive"
  /\ group' = [group EXCEPT ![p] = Exited(p, @)]
  /\ UNCHANGED <<file, binary, worker, pid, phase, spawned, recorded>>

\* Native code forks, and the process it forked exits.
HelperStarts(p) ==
  /\ group[p].kind \in {"pool", "probe"} /\ group[p].leader = "alive"
  /\ ~group[p].helper
  /\ group' = [group EXCEPT ![p].helper = TRUE]
  /\ UNCHANGED <<file, binary, worker, pid, phase, spawned, recorded>>

HelperExits(p) ==
  /\ group[p].helper
  /\ group' = [group EXCEPT ![p] = IF @.leader = "gone" THEN Free
                                   ELSE [@ EXCEPT !.helper = FALSE]]
  /\ UNCHANGED <<file, binary, worker, pid, phase, spawned, recorded>>

\* An unrelated process that leads a group of its own.
ForeignStart(p) ==
  /\ Available(p)
  /\ group' = [group EXCEPT ![p] = [kind |-> "foreign", run |-> 0,
                                    leader |-> "alive", helper |-> FALSE]]
  /\ UNCHANGED <<file, binary, worker, pid, phase, spawned, recorded>>

Upgrade ==
  /\ binary < MaxBinary
  /\ binary' = binary + 1
  /\ UNCHANGED <<group, file, worker, pid, phase, spawned, recorded>>
-----------------------------------------------------------------------------
StartNext == StartWorker \/ ReadMarker \/ Corroborate \/ StaleDone \/ StaleFailed

PoolNext ==
  \/ \E p \in Pids : Spawn(p)
  \/ Record \/ RecordFails
  \/ \E reap \in BOOLEAN : StopChild(reap)
  \/ Shutdown \/ StopDone \/ StopFailed \/ StopInterrupted \/ Crash

ProbeNext ==
  \/ \E p \in Pids : ProbeSpawn(p)
  \/ ProbeExited \/ ProbeTimeout \/ ProbeDone \/ ProbeDropped \/ ProbeQuit

SystemNext ==
  \/ \E p \in Pids : \/ LeaderExits(p) \/ HelperStarts(p) \/ HelperExits(p)
                     \/ ForeignStart(p)
  \/ Upgrade

Next ==
  \/ \E t \in Tasks : Term(t) \/ Kill(t)
  \/ StartNext \/ PoolNext \/ ProbeNext \/ SystemNext

Spec == Init /\ [][Next]_vars
-----------------------------------------------------------------------------
(***************************************************************************)
(* Properties                                                              *)
(***************************************************************************)
(***************************************************************************)
(* A group about to get a signal is one this program started, and started  *)
(* for the task that signals it, although the number comes from a file     *)
(* that may be older than many restarts and the process it names may have  *)
(* ended since (verify_ownership; ADR 0005, "Do not adopt or kill an       *)
(* unrelated process by PID alone").  This needs ~FastReuse.               *)
(***************************************************************************)
NeverBlind ==
  \A t \in Tasks :
    phase[t] \in {"signal", "grace"} =>
      group[pid[t]] = Free
        \/ group[pid[t]].kind = IF t = "probe" THEN "probe" ELSE "pool"

\* NeverBlind, with the types it presupposes.
SignalInv == TypeOK /\ NeverBlind

(***************************************************************************)
(* While the Pool has a child, no other one that was recorded runs: a      *)
(* crash, a failed stop or a failed shutdown leaves a record, and the next *)
(* start does not get past it (kill_stale).  What escapes is a child that  *)
(* was never recorded and one recorded under another binary.               *)
(***************************************************************************)
OrphansExplained ==
  pid["pool"] # NoPid =>
    \A p \in Pids \ {pid["pool"]} :
      (group[p].kind = "pool" /\ group[p].leader = "alive")
        => recorded[group[p].run] # binary

(***************************************************************************)
(* The record of a running child of this binary is neither removed nor     *)
(* overwritten, so a crash at any later moment still finds it              *)
(* (kill_stale, terminate_tree, record_identity_file).                     *)
(***************************************************************************)
RecordKept ==
  [][(file # NoFile /\ file' # file /\ file.binary = binary)
       => ~(group'[file.pid].run = file.run /\ group'[file.pid].leader = "alive")]_vars

(***************************************************************************)
(* One child at a time (ADR 0005, "runs one private inference child at a   *)
(* time").  It does not hold: a Worker that crashes between spawn and      *)
(* record_identity_file leaves a child its next run does not know of.      *)
(***************************************************************************)
OneChild ==
  \A p, q \in Pids :
    (\A r \in {p, q} : group[r].kind = "pool" /\ group[r].leader = "alive") => p = q
=============================================================================
