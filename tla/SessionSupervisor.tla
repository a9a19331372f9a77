------------------------- MODULE SessionSupervisor --------------------------
(***************************************************************************)
(* One conversation session during one life of the daemon: spawn(), the     *)
(* monitor of its worker, a client's calls (get, stop, cleanup) and the     *)
(* deletion of its conversation, interleaved at every await                 *)
(* (src/src/daemon/supervisor.ts).  Mutations queue in the session's lane   *)
(* (session-router.ts): `lane` holds the queued jobs, of which the head     *)
(* runs, one `step` per await.  The persist lane is only entered from       *)
(* inside this one and is not modelled.  Metadata writes to one path go in  *)
(* call order (writeAtomic), and without a crash nobody reads them back, so *)
(* a write is part of the step that makes it.                               *)
(*                                                                          *)
(* RPC calls and metadata writes fail at will, at most MaxFaults times; a   *)
(* call to a worker that is down always fails.                              *)
(***************************************************************************)
EXTENDS LifecycleReducer, Naturals, Sequences

CONSTANTS MaxCalls, MaxFaults
ASSUME BoundsAssumption == MaxCalls \in Nat /\ MaxFaults \in Nat

VARIABLES
    rec, stored,    \* the record, and whether its session.json exists
    present,        \* records.get(id) is this record
    attached,       \* nativeWorkers has the worker
    version,        \* the snapshot version of the router
    finalization,   \* nativeFinalizations: none, or the one that failed
    proof,          \* confirmedWorkerShutdowns has the id
    lane, step,     \* the mutation lane and how far its head has come
    laneSnap,       \* the snapshot the head works with
    pc,             \* where each actor stands
    child, out,     \* the direct child, and its output as the worker sees it
    worker,         \* the worker process
    noted,          \* the version that a get noted before it asked
    calls, faults   \* calls made and faults met so far

daemon == <<rec, stored, present, attached, version, finalization, proof>>
queue == <<lane, step, laneSnap>>
native == <<child, out, worker>>
vars == <<daemon, queue, pc, native, noted, calls, faults>>

Actors == {"spawn", "monitor", "caller", "deletion"}

\* A snapshot: its status, its evidence, and whether it reports an output
\* that could not be stored or read to its end.
Snapshots == [status : {"running", "exited", "lost"}, ev : Evidence, damaged : BOOLEAN]
NoSnapshot == [status |-> "running", ev |-> NoEvidence, damaged |-> FALSE]

Jobs == [by : Actors, op : {"finish", "finalize", "rollback", "stop", "delete", "mark"},
         snap : Snapshots, version : Nat]
Job(by, op, snap, v) == [by |-> by, op |-> op, snap |-> snap, version |-> v]

PCs == {"off", "starting", "watching", "failed", "idle", "syncing", "marked", "cleanup",
        "shutdown", "freshShutdown", "lostShutdown", "queued", "done"}
Steps == {"begin", "stopRpc", "finalRpc", "finish", "shutdownRpc", "rollbackRpc", "rm"}

TypeOK ==
    /\ rec \in FlatRecords
    /\ stored \in BOOLEAN /\ present \in BOOLEAN /\ attached \in BOOLEAN /\ proof \in BOOLEAN
    /\ version \in Nat
    /\ finalization \in {"none", "failed"}
    /\ lane \in Seq(Jobs) /\ Len(lane) <= 4
    /\ step \in Steps
    /\ laneSnap \in Snapshots
    /\ pc \in [Actors -> PCs]
    /\ child \in {"none", "live", "residue", "gone"}
    /\ out \in {"open", "complete", "incomplete"}
    /\ worker \in {"none", "up", "down"}
    /\ noted \in Nat
    /\ calls \in 0..MaxCalls /\ faults \in 0..MaxFaults

-----------------------------------------------------------------------------
(* The worker, as its snapshots show it (worker/src/main.rs, snapshot) *)

CurrentSnapshot(c, o) ==
    [status  |-> CASE c = "gone" /\ o = "complete"                  -> "exited"
                   [] c \in {"residue", "gone"} /\ o = "incomplete" -> "lost"
                   [] OTHER                                         -> "running",
     ev      |-> [NoEvidence EXCEPT !.confirmed = c = "gone",
                                    !.directExited = c \in {"residue", "gone"},
                                    !.drained = c = "gone"],
     damaged |-> c = "gone" /\ o = "incomplete"]

NativeTerminalProof(s) ==
    s.ev.confirmed /\ s.status # "running" /\ s.ev.directExited /\ s.ev.drained
NativeTerminal(s) == s.status = "lost" \/ NativeTerminalProof(s)

WorkerEvent(s) ==
    CASE s.status = "lost"    -> "unreachable"
      [] s.status = "running" -> "worker_ready"
      [] OTHER                -> "child_exited"

\* What the child and its output have come to when a kill was answered.
Killed == IF child \in {"none", "gone"} THEN {<<child, out>>}
          ELSE {<<"residue", "incomplete">>, <<"gone", "complete">>, <<"gone", "incomplete">>}

Fault == faults < MaxFaults /\ faults' = faults + 1
NoFault == UNCHANGED faults
RpcFails == IF worker = "up" THEN Fault ELSE NoFault

\* writeSession: the record is refreshed, the file is there unless the write
\* fails.  (Bound variables below make TLC compute a record once.)
Save(r, written) ==
    \E w \in {Written(r)} :
        /\ rec' = w
        /\ stored' = (stored \/ written)

\* What persistNativeFinalizationFailure makes of a record.
GivenUp(r) == [Transition(r, "unreachable", r.ev) EXCEPT !.ev.noChild = FALSE]

\* With an injected failure counted, or without one.
Writes(written) == IF written THEN NoFault ELSE Fault

-----------------------------------------------------------------------------
(* The lane *)

Head1 == Head(lane)
Enqueue(job) ==
    /\ lane' = Append(lane, job)
    /\ UNCHANGED <<step, laneSnap>>

\* A job ends: its actor goes on at `next`, the following job begins.
Leave(next) ==
    /\ lane' = Tail(lane)
    /\ step' = "begin" /\ laneSnap' = NoSnapshot
    /\ pc' = [pc EXCEPT ![Head1.by] = next]

\* Where an actor goes on after its job, done or thrown.
Returned(job) ==
    CASE job.by = "monitor"  -> IF job.op = "finish" THEN "watching" ELSE "done"
      [] job.by = "deletion" ->
             IF job.op = "mark" /\ Status(rec.state) \in ActiveStatuses THEN "marked"
             ELSE IF job.op \in {"mark", "stop"} THEN "cleanup" ELSE "done"
      [] job.by = "spawn"    -> "done"
      [] OTHER               -> "idle"
Thrown(job) ==
    CASE job.by = "monitor"  -> IF job.op = "rollback" THEN "done" ELSE "failed"
      [] job.by = "caller"   -> "idle"
      [] OTHER               -> "done"

\* An actor outside the lane returns, goes on, or queues the deletion.
Ended(a) == IF a = "caller" THEN "idle" ELSE "done"
EnqueueDelete(a) ==
    /\ Enqueue(Job(a, "delete", NoSnapshot, 0))
    /\ pc' = [pc EXCEPT ![a] = "queued"]
Quit(a) == pc' = [pc EXCEPT ![a] = Ended(a)] /\ UNCHANGED queue
GoTo(a, where) == pc' = [pc EXCEPT ![a] = where] /\ UNCHANGED queue

Begins(op) == lane # <<>> /\ step = "begin" /\ Head1.op = op
At(s) == lane # <<>> /\ step = s

-----------------------------------------------------------------------------
Init ==
    /\ rec = NewRecord /\ stored = TRUE
    /\ present = TRUE /\ attached = FALSE /\ proof = FALSE
    /\ version = 0 /\ finalization = "none"
    /\ lane = <<>> /\ step = "begin" /\ laneSnap = NoSnapshot
    /\ pc = [a \in Actors |-> CASE a = "spawn" -> "starting" [] a = "monitor" -> "off"
                                [] OTHER -> "idle"]
    /\ child = "none" /\ out = "open" /\ worker = "none"
    /\ noted = 0 /\ calls = 0 /\ faults = 0

\* ---- The world outside the daemon

ChildExits ==
    /\ child = "live"
    /\ child' \in {"residue", "gone"}
    /\ UNCHANGED <<daemon, queue, pc, out, worker, noted, calls, faults>>

DescendantsExit ==
    /\ child = "residue"
    /\ child' = "gone"
    /\ UNCHANGED <<daemon, queue, pc, out, worker, noted, calls, faults>>

\* The readers reach the end, or the drain deadline passes.
OutputSettles ==
    /\ out = "open" /\ child \in {"residue", "gone"}
    /\ out' \in (IF child = "gone" THEN {"complete", "incomplete"} ELSE {"incomplete"})
    /\ UNCHANGED <<daemon, queue, pc, child, worker, noted, calls, faults>>

WorkerDies ==
    /\ worker = "up"
    /\ worker' = "down"
    /\ Fault
    /\ UNCHANGED <<daemon, queue, pc, child, out, noted, calls>>

\* ---- spawn

SpawnSucceeds ==
    /\ pc["spawn"] = "starting"
    /\ child' = "live" /\ worker' = "up"
    /\ attached' = TRUE
    /\ \E r \in {Transition(rec, "worker_ready", rec.ev)} : Save(r, TRUE)
    /\ pc' = [pc EXCEPT !["spawn"] = "done", !["monitor"] = "watching"]
    /\ UNCHANGED <<present, version, finalization, proof, queue, out, noted, calls, faults>>

\* The start failed and its cleanup evidence is all there is.  A session
\* whose worker process was never created is deleted at once.
SpawnFails ==
    /\ pc["spawn"] = "starting"
    /\ \E now \in {"none", "live", "residue", "gone"}, confirmed, noChild, noWorker \in BOOLEAN :
          LET r == [rec EXCEPT !.ev.confirmed = confirmed, !.ev.noChild = noChild]
          IN  /\ noChild => confirmed /\ now = "none"
              /\ noWorker => noChild
              /\ child' = now
              /\ worker' = IF noWorker \/ (~confirmed /\ now = "none") THEN "none"
                           ELSE IF confirmed THEN "down" ELSE "up"
              /\ \E t \in {Transition(r, IF noChild THEN "spawn_failed" ELSE "unreachable", r.ev)} :
                    Save(t, TRUE)
              /\ IF noWorker THEN Enqueue(Job("spawn", "delete", NoSnapshot, 0))
                 ELSE UNCHANGED queue
              /\ pc' = [pc EXCEPT !["spawn"] = IF noWorker THEN "queued" ELSE "done",
                                  !["monitor"] = "done"]
    /\ UNCHANGED <<present, attached, version, finalization, proof, out, noted, calls, faults>>

\* The child runs but the record could not be saved: the catch rolls the
\* worker back and leaves it in nativeWorkers, with no monitor.
SpawnSaveFails ==
    /\ pc["spawn"] = "starting"
    /\ attached' = TRUE
    /\ \E confirmed \in BOOLEAN, r \in {Transition(rec, "worker_ready", rec.ev)} :
          LET q == [r EXCEPT !.ev.confirmed = confirmed]
          IN  /\ child' \in {"live", "residue", "gone"}
              /\ worker' \in (IF confirmed THEN {"down"} ELSE {"up", "down"})
              /\ \E u \in {Transition(q, "unreachable", q.ev)} : Save(u, TRUE)
    /\ Fault
    /\ pc' = [pc EXCEPT !["spawn"] = "done", !["monitor"] = "done"]
    /\ UNCHANGED <<present, version, finalization, proof, queue, out, noted, calls>>

\* ---- monitorNative

MonitorObserves ==
    /\ pc["monitor"] = "watching" /\ worker = "up"
    /\ LET snap == CurrentSnapshot(child, out)
       IN  Enqueue(Job("monitor", IF NativeTerminal(snap) THEN "finalize" ELSE "finish",
                       snap, version))
    /\ pc' = [pc EXCEPT !["monitor"] = "queued"]
    /\ UNCHANGED <<daemon, native, noted, calls, faults>>

MonitorLosesWorker ==
    /\ pc["monitor"] = "watching"
    /\ RpcFails
    /\ pc' = [pc EXCEPT !["monitor"] = "failed"]
    /\ UNCHANGED <<daemon, queue, native, noted, calls>>

\* A variant that ends the monitor and leaves the worker attached.
MonitorJustEnds ==
    /\ pc["monitor"] = "failed"
    /\ pc' = [pc EXCEPT !["monitor"] = "done"]
    /\ UNCHANGED <<daemon, queue, native, noted, calls, faults>>

\* The catch of monitorNative.
MonitorCatches ==
    /\ pc["monitor"] = "failed"
    /\ IF attached
       THEN /\ Enqueue(Job("monitor", "rollback", NoSnapshot, 0))
            /\ pc' = [pc EXCEPT !["monitor"] = "queued"]
       ELSE /\ pc' = [pc EXCEPT !["monitor"] = "done"]
            /\ UNCHANGED queue
    /\ UNCHANGED <<daemon, native, noted, calls, faults>>

\* ---- A client's calls

Call ==
    /\ pc["caller"] = "idle" /\ calls < MaxCalls
    /\ calls' = calls + 1
    /\ \/ /\ Enqueue(Job("caller", "stop", NoSnapshot, 0))
          /\ pc' = [pc EXCEPT !["caller"] = "queued"]
       \/ /\ pc' = [pc EXCEPT !["caller"] = "cleanup"]
          /\ UNCHANGED queue
    /\ UNCHANGED <<daemon, native, noted, faults>>

\* get(), execOutput(): syncNative notes the version, then asks the worker; a
\* worker dropped meanwhile makes the answer void.
Get ==
    /\ pc["caller"] = "idle" /\ calls < MaxCalls
    /\ attached
    /\ calls' = calls + 1
    /\ noted' = version
    /\ pc' = [pc EXCEPT !["caller"] = "syncing"]
    /\ UNCHANGED <<daemon, queue, native, faults>>

GetAnswered ==
    /\ pc["caller"] = "syncing" /\ worker = "up"
    /\ LET snap == CurrentSnapshot(child, out)
       IN  IF attached
           THEN /\ Enqueue(Job("caller", IF NativeTerminal(snap) THEN "finalize" ELSE "finish",
                               snap, noted))
                /\ pc' = [pc EXCEPT !["caller"] = "queued"]
           ELSE Quit("caller")
    /\ noted' = 0
    /\ UNCHANGED <<daemon, native, calls, faults>>

GetFails ==
    /\ pc["caller"] = "syncing"
    /\ RpcFails
    /\ Quit("caller")
    /\ noted' = 0
    /\ UNCHANGED <<daemon, native, calls>>

\* ---- session.deleted: cleanupConversation

DeleteConversation ==
    /\ pc["deletion"] = "idle"
    /\ present
    /\ Enqueue(Job("deletion", "mark", NoSnapshot, 0))
    /\ pc' = [pc EXCEPT !["deletion"] = "queued"]
    /\ UNCHANGED <<daemon, native, noted, calls, faults>>

\* A variant that looks for a lost session only.
AfterMarkLost ==
    /\ pc["deletion"] = "marked"
    /\ IF Status(rec.state) = "lost" THEN GoTo("deletion", "cleanup") ELSE Quit("deletion")
    /\ UNCHANGED <<daemon, native, noted, calls, faults>>

\* The session was active when it was marked.
AfterMark ==
    /\ pc["deletion"] = "marked"
    /\ IF Status(rec.state) = "lost"
       THEN GoTo("deletion", "cleanup")
       ELSE IF attached
            THEN /\ Enqueue(Job("deletion", "stop", NoSnapshot, 0))
                 /\ pc' = [pc EXCEPT !["deletion"] = "queued"]
            ELSE Quit("deletion")
    /\ UNCHANGED <<daemon, native, noted, calls, faults>>

\* ---- cleanup(id), for whoever called it

\* A worker that nativeWorkers does not have is asked for over its descriptor.
MayReach == attached \/ worker = "up"

\* A variant that deletes every lost record.
CleanupTrustsLost(a) ==
    /\ pc[a] = "cleanup"
    /\ IF Status(rec.state) = "lost" THEN EnqueueDelete(a) ELSE Quit(a)
    /\ UNCHANGED <<daemon, native, noted, calls, faults>>

\* nativeFinalizations has one under way.
Finalizing == lane # <<>> /\ step \in {"finalRpc", "finish", "shutdownRpc"}

\* Up to the first RPC: a finalization under way is awaited and one that
\* failed thrown again; a lost record needs evidence or a worker to shut
\* down, a terminal one of a conversation a fresh proof unless finalization
\* left one.
Cleanup(a) ==
    /\ pc[a] = "cleanup" /\ ~Finalizing
    /\ LET status == Status(rec.state)
           fresh  == ~attached /\ ~proof /\ worker # "none"
           ask(how) == IF MayReach THEN GoTo(a, how) ELSE Quit(a)
       IN  IF ~present                       THEN Quit(a)
           ELSE IF rec.ev.noChild            THEN EnqueueDelete(a) \/ Quit(a)
           ELSE IF finalization = "failed"   THEN Quit(a)
           ELSE IF status = "lost"           THEN IF DirectChildGone(rec.ev) THEN EnqueueDelete(a)
                                                  ELSE ask("lostShutdown")
           ELSE IF status \in ActiveStatuses THEN Quit(a)
           ELSE IF fresh                     THEN ask("freshShutdown")
           ELSE IF attached                  THEN GoTo(a, "shutdown")
           ELSE EnqueueDelete(a)
    /\ UNCHANGED <<daemon, native, noted, calls, faults>>

Shutdowns == {"shutdown", "freshShutdown", "lostShutdown"}

\* worker.shutdown() was answered; the worker exits, proof or not.
ShutdownAnswered(a) ==
    /\ pc[a] \in Shutdowns /\ worker = "up"
    /\ \E k \in Killed :
          /\ child' = k[1] /\ out' = k[2]
          /\ worker' = "down"
          /\ IF NativeTerminalProof(CurrentSnapshot(k[1], k[2]))
             THEN /\ EnqueueDelete(a)
                  /\ proof' = (proof \/ pc[a] # "lostShutdown")
             ELSE Quit(a) /\ UNCHANGED proof
    /\ UNCHANGED <<rec, stored, present, attached, version, finalization, noted, calls, faults>>

\* It was not: only a terminal record whose worker was attached may do
\* without; the worker of a lost one is shut down or killed as an orphan, if
\* that works.
ShutdownFails(a) ==
    /\ pc[a] \in Shutdowns
    /\ RpcFails
    /\ IF pc[a] = "shutdown" /\ DirectChildGone(rec.ev) THEN EnqueueDelete(a) ELSE Quit(a)
    /\ \/ UNCHANGED native
       \/ /\ pc[a] = "lostShutdown" /\ worker = "up"
          /\ worker' = "down"
          /\ \E k \in Killed \cup {<<child, out>>} : child' = k[1] /\ out' = k[2]
    /\ UNCHANGED <<daemon, noted, calls>>

\* ---- Jobs of the lane

Mark ==
    /\ Begins("mark")
    /\ \E written \in BOOLEAN :
          /\ Writes(written)
          /\ Save([rec EXCEPT !.pendingCleanup = TRUE], written)
          /\ Leave(IF written THEN Returned(Head1) ELSE Thrown(Head1))
    /\ UNCHANGED <<present, attached, version, finalization, proof, native, noted, calls>>

\* Observations enter the record (finishNativeVersion); damaged output or a
\* failed save throws after the record says unreachable
\* (persistNativeFinalizationFailure).
Observed(s, written) ==
    IF Accepted(rec, WorkerEvent(s), s.ev)
    THEN \E seen \in {Transition(rec, WorkerEvent(s), s.ev)} :
         \E r \in {IF written THEN seen ELSE GivenUp(seen)} : Save(r, TRUE)
    ELSE UNCHANGED <<rec, stored>>
Throws(s, written) ==
    /\ Accepted(rec, WorkerEvent(s), s.ev)
    /\ ~written \/ s.damaged

\* Whether a snapshot is still current when its turn comes.
Current(job) == present /\ job.version = version

FinishJob ==
    /\ Begins("finish")
    /\ IF Current(Head1)
       THEN \E written \in BOOLEAN :
               /\ Writes(written)
               /\ Observed(Head1.snap, written)
               /\ Leave(IF Throws(Head1.snap, written) THEN Thrown(Head1) ELSE Returned(Head1))
       ELSE Leave(Returned(Head1)) /\ NoFault /\ UNCHANGED <<rec, stored>>
    /\ UNCHANGED <<present, attached, version, finalization, proof, native, noted, calls>>

\* finalizeNativeInLane: a queued duplicate finds the worker gone, or the
\* failed finalization; otherwise this job finalizes.
StartFinalize(snap) ==
    IF ~attached \/ finalization = "failed"
    THEN /\ Leave(IF attached THEN Thrown(Head1) ELSE Returned(Head1))
         /\ UNCHANGED version
    ELSE /\ version' = version + 1
         /\ step' = IF NativeTerminal(snap) THEN "finalRpc" ELSE "finish"
         /\ laneSnap' = snap
         /\ UNCHANGED <<lane, pc>>

FinalizeJob ==
    /\ Begins("finalize")
    /\ StartFinalize(Head1.snap)
    /\ UNCHANGED <<rec, stored, present, attached, finalization, proof, native, noted, calls, faults>>

StopJob ==
    /\ Begins("stop")
    /\ IF attached
       THEN \E written \in BOOLEAN :
               /\ Writes(written)
               /\ \E r \in {Transition(rec, "stop_requested", rec.ev)} : Save(r, written)
               /\ IF written
                  THEN step' = "stopRpc" /\ UNCHANGED <<lane, laneSnap, pc>>
                  ELSE Leave(Thrown(Head1))
       ELSE Leave(IF present THEN Returned(Head1) ELSE Thrown(Head1))
            /\ NoFault /\ UNCHANGED <<rec, stored>>
    /\ UNCHANGED <<present, attached, version, finalization, proof, native, noted, calls>>

\* A variant that awaits a finalization queued behind itself.
StopAwaitsLane ==
    /\ At("stopRpc") /\ worker = "up"
    /\ \E k \in Killed :
          /\ child' = k[1] /\ out' = k[2]
          /\ lane' = Append(lane, Job(Head1.by, "finalize", CurrentSnapshot(k[1], k[2]), version))
    /\ step' = "waiting"
    /\ UNCHANGED <<daemon, laneSnap, pc, worker, noted, calls, faults>>

StopAnswered ==
    /\ At("stopRpc") /\ worker = "up"
    /\ \E k \in Killed :
          /\ child' = k[1] /\ out' = k[2]
          /\ StartFinalize(CurrentSnapshot(k[1], k[2]))
    /\ UNCHANGED <<rec, stored, present, attached, finalization, proof, worker, noted, calls, faults>>

StopFails ==
    /\ At("stopRpc")
    /\ RpcFails
    /\ Leave(Thrown(Head1))
    /\ UNCHANGED <<daemon, native, noted, calls>>

\* finalizeNativeVersion: the final snapshot, the record, the shutdown.
FinalSnapshot ==
    /\ At("finalRpc") /\ worker = "up"
    /\ laneSnap' = CurrentSnapshot(child, out)
    /\ step' = "finish"
    /\ UNCHANGED <<daemon, lane, pc, native, noted, calls, faults>>

FinalSnapshotFails ==
    /\ At("finalRpc")
    /\ RpcFails
    /\ \E r \in {GivenUp(rec)} : Save(r, TRUE)
    /\ finalization' = "failed"
    /\ step' = "shutdownRpc"
    /\ UNCHANGED <<present, attached, version, proof, lane, laneSnap, pc, native, noted, calls>>

\* Nothing in the lane can have changed the version since StartFinalize.
FinishFinal ==
    /\ At("finish")
    /\ \E written \in BOOLEAN :
          /\ Writes(written)
          /\ IF Throws(laneSnap, written)
             THEN \E seen \in {Transition(rec, WorkerEvent(laneSnap), laneSnap.ev)} :
                  \E r \in {GivenUp(seen)} : Save(r, TRUE)
             ELSE Observed(laneSnap, written)
          /\ finalization' = IF Throws(laneSnap, written) THEN "failed" ELSE finalization
          /\ version' = IF NativeTerminal(laneSnap) THEN version + 1 ELSE version
          /\ IF NativeTerminal(laneSnap)
             THEN step' = "shutdownRpc" /\ UNCHANGED <<lane, laneSnap, pc>>
             ELSE Leave(IF Throws(laneSnap, written) THEN Thrown(Head1) ELSE Returned(Head1))
    /\ UNCHANGED <<present, attached, proof, native, noted, calls>>

\* The worker leaves nativeWorkers whether or not the shutdown was answered.
ShutdownWorker ==
    /\ At("shutdownRpc")
    /\ \/ /\ worker = "up" /\ worker' = "down" /\ NoFault
          /\ \E k \in Killed :
                /\ child' = k[1] /\ out' = k[2]
                /\ proof' = (proof \/ NativeTerminalProof(CurrentSnapshot(k[1], k[2])))
       \/ RpcFails /\ UNCHANGED <<child, out, worker, proof>>
    /\ attached' = FALSE
    /\ Leave(IF finalization = "failed" THEN Thrown(Head1) ELSE Returned(Head1))
    /\ UNCHANGED <<rec, stored, present, version, finalization, noted, calls>>

\* rollbackNativeInLane: the worker kills what it can and exits; its receipt,
\* which may get lost, counts as a confirmation whatever is left behind.
RollbackBegins ==
    /\ Begins("rollback")
    /\ IF attached
       THEN step' = "rollbackRpc" /\ version' = version + 1 /\ UNCHANGED <<lane, laneSnap, pc>>
       ELSE Leave(Returned(Head1)) /\ UNCHANGED version
    /\ UNCHANGED <<rec, stored, present, attached, finalization, proof, native, noted, calls, faults>>

Rollback ==
    /\ At("rollbackRpc")
    /\ \E confirmed \in BOOLEAN, r \in {Transition(rec, "unreachable", rec.ev)} :
          /\ \/ /\ worker = "up" /\ worker' = "down"
                /\ \E k \in Killed \cup {<<child, out>>} : child' = k[1]
             \/ ~confirmed /\ UNCHANGED <<child, worker>>
          /\ Save([r EXCEPT !.ev.confirmed = confirmed, !.ev.noChild = FALSE], TRUE)
    /\ version' = version + 1
    /\ attached' = FALSE
    /\ Leave(Returned(Head1))
    /\ UNCHANGED <<present, finalization, proof, out, noted, calls, faults>>

\* deleteNativeSession: the worker is dropped before the directory is, the
\* record after.
DeleteBegins ==
    /\ Begins("delete")
    /\ IF present
       THEN /\ version' = version + 1 /\ attached' = FALSE
            /\ step' = "rm" /\ UNCHANGED <<lane, laneSnap, pc>>
       ELSE Leave(Returned(Head1)) /\ UNCHANGED <<version, attached>>
    /\ UNCHANGED <<rec, stored, present, finalization, proof, native, noted, calls, faults>>

DeleteEnds ==
    /\ At("rm")
    /\ stored' = FALSE
    /\ present' = FALSE /\ proof' = FALSE
    /\ Leave(Returned(Head1))
    /\ UNCHANGED <<rec, attached, version, finalization, native, noted, calls, faults>>

\* The directory may be half removed by then.
DeleteFails ==
    /\ At("rm")
    /\ Fault
    /\ stored' \in {stored, FALSE}
    /\ Leave(Thrown(Head1))
    /\ UNCHANGED <<rec, present, attached, version, finalization, proof, native, noted, calls>>

LaneStep ==
    \/ Mark \/ FinishJob \/ FinalizeJob \/ StopJob \/ StopAnswered \/ StopFails
    \/ FinalSnapshot \/ FinalSnapshotFails \/ FinishFinal \/ ShutdownWorker
    \/ RollbackBegins \/ Rollback \/ DeleteBegins \/ DeleteEnds \/ DeleteFails

CleanupStep(a) == Cleanup(a) \/ ShutdownAnswered(a) \/ ShutdownFails(a)

MonitorStep == MonitorObserves \/ MonitorLosesWorker \/ MonitorCatches

Next ==
    \/ ChildExits \/ DescendantsExit \/ OutputSettles \/ WorkerDies
    \/ SpawnSucceeds \/ SpawnFails \/ SpawnSaveFails
    \/ MonitorStep \/ Call \/ Get \/ GetAnswered \/ GetFails \/ DeleteConversation \/ AfterMark
    \/ \E a \in {"caller", "deletion"} : CleanupStep(a)
    \/ LaneStep

\* Promise jobs run, awaited calls are answered or fail by their timeout, and
\* the worker's drain deadline passes; clients and children owe nothing.
Fairness ==
    /\ WF_vars(LaneStep) /\ WF_vars(MonitorStep) /\ WF_vars(AfterMark)
    /\ WF_vars(OutputSettles)
    /\ WF_vars(SpawnSucceeds \/ SpawnFails)
    /\ \A a \in {"caller", "deletion"} : WF_vars(CleanupStep(a))

Spec == Init /\ [][Next]_vars /\ Fairness

-----------------------------------------------------------------------------
(* Properties *)

\* Neither a record nor its file is ever deleted unless no child of it is
\* left, whoever asks for the cleanup and whatever the monitor is doing
\* meanwhile (cleanup, deleteNativeSession).
NeverDeleteLive == ~present \/ ~stored => child \in {"none", "gone"}

\* A record shown as running has somebody who will see its end: the worker
\* is attached and its monitor watches, waits in the lane or is about to give
\* the worker up (monitorNative, finalizeNativeInLane, rollbackNativeInLane).
RunningIsWatched ==
    /\ present /\ pc["spawn"] = "done"
    /\ Status(rec.state) \in ActiveStatuses
    => attached /\ pc["monitor"] # "done"

\* Once the child of an attached session is gone the record stops saying
\* that it runs, whatever stops, faults and cleanups come in between.
EndObserved ==
    (attached /\ child = "gone") ~> (Status(rec.state) \notin ActiveStatuses)

\* Every mutation that was queued is answered: no job waits for one behind
\* it (enqueueMutation).
LaneDrains == \A a \in Actors : (pc[a] = "queued") ~> (pc[a] # "queued")

\* "session.deleted stops and removes ... conversation sessions": a child that
\* was started when the deletion of its conversation began does not outlive it,
\* whatever the monitor and other callers do meanwhile, unless a worker, a call
\* or a write fails (cleanupConversation, stop).
DeletionStops ==
    (pc["deletion"] = "queued" /\ pc["spawn"] = "done" /\ attached)
    ~> (child # "live" \/ faults > 0)
=============================================================================
