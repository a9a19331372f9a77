--------------------------- MODULE SpawnRecovery ----------------------------
(***************************************************************************)
(* How a child comes to life, and what a daemon can tell about it after a   *)
(* crash: spawn() and nativeExecStart() (src/src/daemon/supervisor.ts),     *)
(* WorkerClient.prepare, start and rollback (worker-client.ts), the worker  *)
(* up to the point where it serves (worker/src/main.rs, main), and the next *)
(* daemon's initialize and reconcileWorker.  The daemon may crash between   *)
(* any two of its writes and messages; the worker lives on.                 *)
(*                                                                          *)
(* The session has one worker process in its whole life, so a receipt, a    *)
(* descriptor or a reference either is that worker's or is not there.       *)
(* Frames go to the worker over its stdin; answers come back over stdout    *)
(* and, once there is a child, over RPC.                                    *)
(***************************************************************************)
EXTENDS LifecycleReducer, Naturals, Sequences

CONSTANTS MaxCrashes, MaxFaults
ASSUME RecoveryBoundsAssumption == MaxCrashes \in Nat /\ MaxFaults \in Nat

VARIABLES
    rec, known,       \* the record the daemon works on; records still has it
    disk,             \* session.json, or Absent
    pc,               \* where the daemon stands
    cleanup,          \* the SpawnCleanup of a failed start
    channel,          \* the worker's stdin: open, closed, or its daemon is dead
    pipe, ready, receipt,   \* frames on stdin, the two lines on stdout
    worker, child,    \* the processes
    files,            \* worker.json and the receipts
    persistent,       \* the lifecycle of the session
    crashes, faults

daemon == <<rec, known, disk, pc, cleanup>>
channels == <<channel, pipe, ready, receipt>>
processes == <<worker, child, files>>
bounds == <<persistent, crashes, faults>>
vars == <<daemon, channels, processes, bounds>>

\* attempted: workerStartAttempted, which a new record does not have.
Records == [life : FlatRecords, prestart : BOOLEAN, reference : BOOLEAN,
            attempted : {"unset", "no", "yes"}]
Fresh == [life |-> NewRecord, prestart |-> FALSE, reference |-> FALSE, attempted |-> "unset"]
Absent == [Fresh EXCEPT !.attempted = "absent"]

Files == [descriptor : BOOLEAN, prestart : BOOLEAN, failure : {"none", "noChild", "child"}]
NoFiles == [descriptor |-> FALSE, prestart |-> FALSE, failure |-> "none"]

Cleanups == [confirmed : BOOLEAN, noChild : BOOLEAN, noWorker : BOOLEAN]
Unconfirmed == [confirmed |-> FALSE, noChild |-> FALSE, noWorker |-> FALSE]

Spawning == {"prestart", "launch", "bootstrap", "ready", "unready", "reap", "reference", "attempt",
             "start", "health", "activate", "rollback", "receipt", "failed", "remove"}
Recovering == {"load", "reconcile"}
PCs == Spawning \cup Recovering \cup {"idle", "watching", "down"}

TypeOK ==
    /\ rec \in Records /\ known \in BOOLEAN
    /\ disk \in Records \cup {Absent}
    /\ pc \in PCs
    /\ cleanup \in Cleanups
    /\ channel \in {"open", "closed", "orphaned"}
    /\ pipe \in Seq({"bootstrap", "start", "rollback"}) /\ Len(pipe) <= 3
    /\ ready \in BOOLEAN /\ receipt \in BOOLEAN
    /\ worker \in {"none", "booting", "announcing", "waiting", "creating", "serving", "exited"}
    /\ child \in {"none", "live", "gone"}
    /\ files \in Files
    /\ persistent \in BOOLEAN
    /\ crashes \in 0..MaxCrashes /\ faults \in 0..MaxFaults

\* The first record has been written (its reservation is SessionRegistry's).
Init ==
    /\ rec = Fresh /\ known = TRUE /\ disk = Fresh
    /\ pc = "prestart" /\ cleanup = Unconfirmed
    /\ channel = "open" /\ pipe = <<>> /\ ready = FALSE /\ receipt = FALSE
    /\ worker = "none" /\ child = "none" /\ files = NoFiles
    /\ persistent \in BOOLEAN
    /\ crashes = 0 /\ faults = 0

-----------------------------------------------------------------------------
(* Helpers *)

Fault == faults < MaxFaults /\ faults' = faults + 1 /\ UNCHANGED <<persistent, crashes>>
NoFault == UNCHANGED bounds

Stat(r) == Status(r.life.state)
Moved(r, event) == [r EXCEPT !.life = Transition(@, event, @.ev)]

\* writeSession goes well, or throws before or after the file was replaced.
Write(r, well) ==
    \E w \in {[r EXCEPT !.life = Written(@)]} :
        /\ rec' = w
        /\ disk' \in (IF well THEN {w} ELSE {disk, w})
        /\ IF well THEN NoFault ELSE Fault

\* deleteSession removes the directory with all that is in it.
Delete ==
    /\ known' = FALSE /\ disk' = Absent /\ files' = NoFiles

WorkerExits == worker' = "exited"

Fail(outcome) == cleanup' = outcome /\ pc' = "failed"
NoWorker == [confirmed |-> TRUE, noChild |-> TRUE, noWorker |-> TRUE]
Outcome(confirmed, noChild) == [confirmed |-> confirmed, noChild |-> noChild, noWorker |-> FALSE]

\* prestartReceiptAuthority
PrestartAuthority(r) ==
    /\ r.attempted = "no" /\ Stat(r) \in {"starting", "lost", "spawn_failed"}
    /\ r.reference \/ r.prestart

\* postStartNoChildFailureEligible
FailureEligible(r) ==
    r.reference /\ r.attempted = "yes" /\ Stat(r) \in {"spawn_failed", "lost"}

\* hasVerifiedPrestartNoChildReceipt and hasVerifiedNoChildSpawnFailureReceipt
\* with the authority they ask for.
ProvenNoChild(r) ==
    \/ PrestartAuthority(r) /\ files.prestart
    \/ FailureEligible(r) /\ files.descriptor /\ files.failure = "noChild"

\* noChildSpawnFailure
NoChildSpawnFailure(r) == ~r.reference /\ ~r.prestart /\ r.life.ev.noChild

-----------------------------------------------------------------------------
(* prepare *)

\* persistPrestart, before there is a process; what fails here, or while the
\* worker's command is looked up, throws noWorkerSpawned.
PersistPrestart ==
    /\ pc = "prestart"
    /\ \/ \E well \in BOOLEAN :
             /\ Write([rec EXCEPT !.prestart = TRUE, !.attempted = "no"], well)
             /\ IF well THEN pc' = "launch" /\ UNCHANGED cleanup ELSE Fail(NoWorker)
       \/ Fault /\ Fail(NoWorker) /\ UNCHANGED <<rec, disk>>
    /\ UNCHANGED <<known, channels, processes>>

LaunchWorker ==
    /\ pc = "launch"
    /\ \/ worker' = "booting" /\ pc' = "bootstrap" /\ NoFault /\ UNCHANGED cleanup
       \/ Fault /\ Fail(NoWorker) /\ UNCHANGED worker
    /\ UNCHANGED <<rec, known, disk, channels, child, files>>

\* The identity probe, then the bootstrap frame.
SendBootstrap ==
    /\ pc = "bootstrap"
    /\ \/ pipe' = Append(pipe, "bootstrap") /\ pc' = "ready" /\ NoFault
       \/ Fault /\ pc' = "unready" /\ UNCHANGED pipe
    /\ UNCHANGED <<rec, known, disk, cleanup, channel, ready, receipt, processes>>

AwaitReady ==
    /\ pc = "ready"
    /\ \/ ready /\ files.descriptor /\ pc' = "reference" /\ NoFault
       \/ worker = "exited" /\ pc' = "unready" /\ NoFault
       \/ Fault /\ pc' = "unready"
    /\ UNCHANGED <<rec, known, disk, cleanup, channels, processes>>

\* cleanup() of prepare: stdin is closed; a descriptor that was there in time
\* gives the record its reference.
Unready ==
    /\ pc = "unready" /\ pc' = "reap"
    /\ channel' = "closed"
    /\ rec' \in {rec} \cup (IF files.descriptor THEN {[rec EXCEPT !.reference = TRUE]} ELSE {})
    /\ UNCHANGED <<known, disk, cleanup, pipe, ready, receipt, processes, bounds>>

\* The worker exits by itself, or it is killed, or neither is seen in time.
\* One with a descriptor is left to exit by itself.
Reap ==
    /\ pc = "reap"
    /\ \/ worker = "exited" /\ NoFault /\ Fail(Outcome(TRUE, FALSE)) /\ UNCHANGED worker
       \/ ~files.descriptor /\ WorkerExits /\ NoFault /\ Fail(Outcome(TRUE, FALSE))
       \/ Fault /\ Fail(Unconfirmed) /\ UNCHANGED worker
    /\ UNCHANGED <<rec, known, disk, channels, child, files>>

-----------------------------------------------------------------------------
(* spawn, from the worker's reference to the start *)

PersistReference ==
    /\ pc = "reference"
    /\ \E well \in BOOLEAN :
          /\ Write([rec EXCEPT !.reference = TRUE, !.attempted = "no"], well)
          /\ pc' = IF well THEN "attempt" ELSE "rollback"
    /\ UNCHANGED <<known, cleanup, channels, processes>>

\* A variant that sends the start first and notes it afterwards.
PersistAttemptLater ==
    /\ pc = "attempt"
    /\ pc' = "start"
    /\ UNCHANGED <<rec, known, disk, cleanup, channels, processes, bounds>>

\* workerStartAttempted is taken back when its write fails.
PersistAttempt ==
    /\ pc = "attempt"
    /\ \E well \in BOOLEAN, w \in {[rec EXCEPT !.attempted = "yes", !.life = Written(@)]} :
          /\ disk' \in (IF well THEN {w} ELSE {disk, w})
          /\ rec' = IF well THEN w ELSE [w EXCEPT !.attempted = "no"]
          /\ pc' = IF well THEN "start" ELSE "rollback"
          /\ IF well THEN NoFault ELSE Fault
    /\ UNCHANGED <<known, cleanup, channels, processes>>

SendStart ==
    /\ pc = "start"
    /\ pipe' = Append(pipe, "start")
    /\ pc' = "health"
    /\ UNCHANGED <<rec, known, disk, cleanup, channel, ready, receipt, processes, bounds>>

\* health and snapshot answer once there is a child; a start that failed is
\* first looked up in spawn-failure.json, then rolled back.
AwaitHealth ==
    /\ pc = "health"
    /\ \/ worker = "serving" /\ pc' = "activate" /\ NoFault /\ UNCHANGED cleanup
       \/ /\ IF worker = "exited" THEN NoFault ELSE Fault
          /\ IF files.failure = "none" THEN pc' = "rollback" /\ UNCHANGED cleanup
             ELSE \E confirmed \in BOOLEAN :
                     /\ files.failure = "noChild" => confirmed
                     /\ Fail(Outcome(confirmed, files.failure = "noChild"))
    /\ UNCHANGED <<rec, known, disk, channels, processes>>

\* The record says running once it is saved; the monitor takes over.
Activate ==
    /\ pc = "activate"
    /\ \E well \in BOOLEAN :
          /\ Write(Moved(rec, "worker_ready"), well)
          /\ pc' = IF well THEN "watching" ELSE "rollback"
    /\ UNCHANGED <<known, cleanup, channels, processes>>

\* rollback(): the frame, then the end of stdin.
SendRollback ==
    /\ pc = "rollback"
    /\ pipe' = IF worker = "exited" THEN pipe ELSE Append(pipe, "rollback")
    /\ channel' = "closed"
    /\ pc' = "receipt"
    /\ UNCHANGED <<rec, known, disk, cleanup, ready, receipt, processes, bounds>>

\* A variant that takes a worker's silence for the absence of a child.
AwaitReceiptTrusting ==
    /\ pc = "receipt"
    /\ receipt \/ worker = "exited"
    /\ Fail(Outcome(TRUE, ~receipt))
    /\ UNCHANGED <<rec, known, disk, channels, processes, bounds>>

\* The receipt on stdout, the receipts on disk, or neither in time.
AwaitReceipt ==
    /\ pc = "receipt"
    /\ \/ files.failure = "noChild" /\ NoFault /\ Fail(Outcome(TRUE, TRUE))
       \/ /\ files.failure = "child" /\ NoFault
          /\ \E confirmed \in BOOLEAN : Fail(Outcome(confirmed, FALSE))
       \/ receipt /\ NoFault /\ Fail(Outcome(TRUE, FALSE))
       \/ files.prestart /\ NoFault /\ Fail(Outcome(TRUE, TRUE))
       \/ /\ ~receipt /\ ~files.prestart /\ files.failure = "none"
          /\ IF worker = "exited" THEN NoFault ELSE Fault
          /\ Fail(Unconfirmed)
    /\ UNCHANGED <<rec, known, disk, channels, processes>>

\* The catch of spawn: the evidence, the transition, the write; only a
\* session without a worker process is deleted at once.
SpawnFailed ==
    /\ pc = "failed"
    /\ LET failed == [rec EXCEPT !.life.ev.confirmed = cleanup.confirmed,
                                 !.life.ev.noChild = cleanup.noChild]
           event  == IF cleanup.noChild THEN "spawn_failed" ELSE "unreachable"
       IN  \E well \in BOOLEAN :
              /\ Write(Moved(failed, event), well)
              /\ pc' = IF well /\ cleanup.noWorker THEN "remove" ELSE "idle"
    /\ cleanup' = Unconfirmed
    /\ UNCHANGED <<known, channels, processes>>

RemoveFailed ==
    /\ pc = "remove" /\ pc' = "idle"
    /\ \/ known /\ Delete /\ NoFault
       \/ ~known /\ NoFault /\ UNCHANGED <<known, disk, files>>
       \/ Fault /\ UNCHANGED <<known, disk, files>>
    /\ UNCHANGED <<rec, cleanup, channels, worker, child>>

-----------------------------------------------------------------------------
(* The worker, worker/src/main.rs *)

Receives(frame) == pipe # <<>> /\ Head(pipe) = frame
EndOfInput == pipe = <<>> /\ channel # "open"

\* The bootstrap frame, then worker.json; without the frame it just exits.
Boot ==
    /\ worker = "booting"
    /\ \/ /\ Receives("bootstrap") /\ pipe' = Tail(pipe)
          /\ IF disk = Absent THEN WorkerExits /\ UNCHANGED files
             ELSE worker' = "announcing" /\ files' = [files EXCEPT !.descriptor = TRUE]
       \/ EndOfInput /\ WorkerExits /\ UNCHANGED <<pipe, files>>
    /\ UNCHANGED <<daemon, channel, ready, receipt, child, bounds>>

\* Nobody reads the stdout of an orphan: its println panics.
Announce ==
    /\ worker = "announcing"
    /\ IF channel = "orphaned" THEN WorkerExits /\ UNCHANGED ready
       ELSE worker' = "waiting" /\ ready' = TRUE
    /\ UNCHANGED <<daemon, channel, pipe, receipt, child, files, bounds>>

\* A variant for which the end of stdin means nothing, before the start too.
ControlIgnoresEnd ==
    /\ worker = "waiting"
    /\ pipe # <<>> /\ pipe' = Tail(pipe)
    /\ \/ Receives("start") /\ worker' = "creating" /\ UNCHANGED files
       \/ Receives("rollback") /\ WorkerExits /\ files' = [files EXCEPT !.prestart = disk # Absent]
    /\ UNCHANGED <<daemon, channel, ready, receipt, child, bounds>>

\* The one frame that lets it create the child is a start; anything else, the
\* end of stdin included, makes it write prestart-no-child.json and exit.
Control ==
    /\ worker = "waiting"
    /\ \/ /\ Receives("start") /\ pipe' = Tail(pipe)
          /\ worker' = "creating" /\ UNCHANGED files
       \/ /\ Receives("rollback") \/ EndOfInput
          /\ pipe' = <<>> /\ WorkerExits
          /\ files' = [files EXCEPT !.prestart = disk # Absent]
    /\ UNCHANGED <<daemon, channel, ready, receipt, child, bounds>>

\* The child is there, or no child could be created, or one was created that
\* could not be contained and may have survived its killing.
CreateChild ==
    /\ worker = "creating"
    /\ \/ worker' = "serving" /\ child' = "live" /\ UNCHANGED files
       \/ /\ WorkerExits /\ UNCHANGED child
          /\ files' = [files EXCEPT !.failure = "noChild"]
       \/ /\ WorkerExits /\ child' \in {"live", "gone"}
          /\ \E kept \in {files.descriptor, FALSE} :
                files' = [files EXCEPT !.failure = "child", !.descriptor = kept]
    /\ UNCHANGED <<daemon, channels, bounds>>

\* A serving worker obeys a rollback and ignores the end of stdin.
ObeyRollback ==
    /\ worker = "serving" /\ Receives("rollback")
    /\ pipe' = Tail(pipe) /\ WorkerExits
    /\ child' \in {child, "gone"}
    /\ receipt' = TRUE
    /\ files' = [files EXCEPT !.descriptor = FALSE]
    /\ UNCHANGED <<daemon, channel, ready, bounds>>

ChildExits ==
    /\ child = "live" /\ child' = "gone"
    /\ UNCHANGED <<daemon, channels, worker, files, bounds>>

WorkerDies ==
    /\ worker \notin {"none", "exited"}
    /\ Fault /\ WorkerExits
    /\ UNCHANGED <<daemon, channels, child, files>>

-----------------------------------------------------------------------------
(* cleanup(id), and the next daemon *)

\* A worker is shut down over RPC, after which its descriptor is gone too, or
\* killed; its child may survive.
Terminate ==
    /\ rec.reference /\ files.descriptor
    /\ worker \notin {"none", "exited"} /\ WorkerExits
    /\ child' \in (IF child = "live" THEN {"live", "gone"} ELSE {child})

\* The worker of a lost session is asked to shut down, and the session goes
\* with the proof of that; or it is killed as an orphan.
CleanupLost ==
    /\ Stat(rec) = "lost"
    /\ Terminate
    /\ \/ worker = "serving" /\ child' = "gone" /\ Delete
       \/ files' \in {files, [files EXCEPT !.descriptor = FALSE]} /\ UNCHANGED <<known, disk>>

\* Called by a client while a spawn or a recovery is going on, too.
Cleanup ==
    /\ pc \notin {"down", "load", "watching"} /\ known
    /\ IF NoChildSpawnFailure(rec) \/ ProvenNoChild(rec)
       THEN Delete /\ UNCHANGED <<worker, child>>
       ELSE CleanupLost
    /\ UNCHANGED <<rec, pc, cleanup, channels, bounds>>

Crash ==
    /\ pc # "down" /\ crashes < MaxCrashes
    /\ crashes' = crashes + 1
    /\ pc' = "down" /\ cleanup' = Unconfirmed
    /\ rec' = Fresh /\ known' = FALSE
    /\ channel' = "orphaned"
    /\ UNCHANGED <<disk, pipe, ready, receipt, processes, persistent, faults>>

\* A variant that takes every starting record for one without a worker.
NeverLaunchedStarting(r) == Stat(r) = "starting"

NeverLaunched(r) == Stat(r) = "starting" /\ ~r.reference /\ ~r.prestart

\* initialize, then markConversationRecoveryCleanup.
Initialize ==
    /\ pc = "down"
    /\ \E loaded \in {[disk EXCEPT !.life = Loaded(@.state)]} :
       \E marked \in {[loaded EXCEPT !.life = Written([@ EXCEPT !.pendingCleanup = TRUE])]} :
          CASE disk = Absent ->
                   pc' = "idle" /\ UNCHANGED <<rec, known, disk, files>>
            [] disk # Absent /\ (NoChildSpawnFailure(loaded) \/ NeverLaunched(loaded)) ->
                   Delete /\ pc' = "idle" /\ UNCHANGED rec
            [] OTHER ->
                   /\ known' = TRUE /\ pc' = "reconcile" /\ UNCHANGED files
                   /\ IF ~persistent /\ Stat(loaded) \in ActiveStatuses \cup {"lost"}
                      THEN rec' = marked /\ disk' = marked
                      ELSE rec' = loaded /\ UNCHANGED disk
    /\ UNCHANGED <<cleanup, channels, worker, child, bounds>>

\* The filter of reconcileWorkers.  (A conversation was marked for cleanup.)
Pending(r) ==
    PrestartAuthority(r) \/ FailureEligible(r) \/ Stat(r) \in ActiveStatuses \cup {"lost"}

\* reconcileWorker: a record that a prestart receipt would settle waits for
\* that and nothing else; another one is settled by its receipt, taken over
\* with its worker, or lost.
ReconcileProven ==
    /\ pc = "reconcile" /\ ProvenNoChild(rec)
    /\ Delete /\ pc' = "idle"
    /\ UNCHANGED <<rec, cleanup, channels, worker, child, bounds>>

ReconcileGivesUp ==
    /\ pc = "reconcile" /\ pc' = "idle"
    /\ ~Pending(rec) \/ (PrestartAuthority(rec) /\ ~files.prestart)
    /\ UNCHANGED <<rec, known, disk, cleanup, channels, processes, bounds>>

Reachable == rec.reference /\ files.descriptor /\ worker = "serving"
Unsettled == Pending(rec) /\ ~PrestartAuthority(rec) /\ ~ProvenNoChild(rec)

\* A lost record is only taken over if it may recover or is to be cleaned up.
Reconnect ==
    /\ pc = "reconcile" /\ Unsettled /\ Reachable
    /\ \E r \in {Moved(rec, "recovered")} :
          IF rec.life.pendingCleanup \/ Stat(rec) # "lost"
          THEN pc' = "watching" /\ UNCHANGED rec
          ELSE rec' = r /\ pc' = IF Stat(r) = "running" THEN "watching" ELSE "idle"
    /\ UNCHANGED <<known, disk, cleanup, channels, processes, bounds>>

\* terminateOrphanWorker is for the sessions that nobody will come back to.
ReconnectFails ==
    /\ pc = "reconcile" /\ Unsettled
    /\ \/ /\ ~persistent \/ rec.life.pendingCleanup
          /\ Terminate
          /\ files' \in {files, [files EXCEPT !.descriptor = FALSE]}
       \/ UNCHANGED processes
    /\ \E r \in {Moved(rec, "unreachable")} :
       \E w \in {[r EXCEPT !.life = Written([@ EXCEPT !.ev.noChild = FALSE])]} :
          rec' = w /\ disk' = w
    /\ IF Reachable THEN Fault ELSE NoFault
    /\ pc' = "idle"
    /\ UNCHANGED <<known, cleanup, channels>>

-----------------------------------------------------------------------------
SpawnStep ==
    \/ PersistPrestart \/ LaunchWorker \/ SendBootstrap \/ AwaitReady \/ Unready \/ Reap
    \/ PersistReference \/ PersistAttempt \/ SendStart \/ AwaitHealth \/ Activate
    \/ SendRollback \/ AwaitReceipt \/ SpawnFailed \/ RemoveFailed
WorkerStep == Boot \/ Announce \/ Control \/ CreateChild \/ ObeyRollback
RecoveryStep == Initialize \/ ReconcileProven \/ ReconcileGivesUp \/ Reconnect \/ ReconnectFails

Next ==
    \/ SpawnStep \/ WorkerStep \/ RecoveryStep
    \/ Cleanup \/ Crash \/ ChildExits \/ WorkerDies

\* The worker runs; nothing else is owed.
Spec == Init /\ [][Next]_vars /\ WF_vars(WorkerStep)

-----------------------------------------------------------------------------
(* Properties *)

\* A child may still come into being.
MayCreate ==
    \/ worker = "creating"
    \/ worker \in {"booting", "announcing", "waiting"} /\ \E i \in DOMAIN pipe : pipe[i] = "start"

\* A session directory is only deleted when its child is gone, or never was
\* and never will be (initialize, reconcileWorker, cleanup, spawn).
DeletedNeverRuns == disk = Absent => child # "live" /\ ~MayCreate

\* "A child is not eligible to start until the daemon has persisted the
\* verified worker reference": whenever there may be a child, session.json
\* names the worker and says that a start was attempted.
ChildIsTraceable ==
    (child = "live" \/ MayCreate) /\ disk # Absent => disk.reference /\ disk.attempted = "yes"

\* A record that claims that no child was created is right, for good, however
\* late the worker's receipts came (noChildCleanup).
NoChildIsTrue ==
    rec.life.ev.noChild \/ (disk # Absent /\ disk.life.ev.noChild) =>
        child = "none" /\ ~MayCreate

\* A worker that its daemon gave up or left behind before the start ends by
\* itself (control, write_prestart_no_child).
AbandonedWorkerEnds ==
    (worker \in {"booting", "announcing", "waiting"} /\ channel # "open") ~>
        (worker \notin {"booting", "announcing", "waiting"})
=============================================================================
