--------------------------- MODULE SessionRecord ----------------------------
(***************************************************************************)
(* One session record in the daemon's memory and on its disk, under every   *)
(* call site of SessionSupervisor that moves it (src/src/daemon/            *)
(* supervisor.ts) and in every order of them, with daemon restarts and      *)
(* failed metadata writes in between.  The order the lanes impose is left   *)
(* to SessionSupervisor; what holds here holds whatever that order is.      *)
(*                                                                          *)
(* `child` is the truth the evidence speaks of: the direct child was never  *)
(* created, is live, has exited leaving contained descendants (residue), or *)
(* is gone with all of them.  Evidence reaches the record only through the  *)
(* worker's snapshots and cleanup receipts.                                 *)
(***************************************************************************)
EXTENDS LifecycleReducer

CONSTANT ProtocolChanges   \* a restart may install another worker protocol
ASSUME ProtocolChangesAssumption == ProtocolChanges \in BOOLEAN

VARIABLES
    rec,       \* the record in the supervisor's memory
    disk,      \* the state in session.json
    child,     \* what really became of the direct child
    attached,  \* nativeWorkers has a client for the session
    spawning,  \* spawn() has not returned yet
    booting    \* the daemon has loaded the record and not reconciled it yet

vars == <<rec, disk, child, attached, spawning, booting>>

ChildStates == {"none", "live", "residue", "gone"}

TypeOK ==
    /\ rec \in FlatRecords
    /\ disk \in States
    /\ child \in ChildStates
    /\ attached \in BOOLEAN
    /\ spawning \in BOOLEAN
    /\ booting \in BOOLEAN

\* Flat evidence with the fields a handler assigns.
WithConfirmed(ev, confirmed) == [ev EXCEPT !.confirmed = confirmed, !.noChild = FALSE]
WithUnknownExit(ev) == [ev EXCEPT !.noChild = FALSE]

\* storage.writeSession: the record is refreshed in memory whether or not the
\* bytes reach the disk.
Save(r) ==
    /\ rec' = Written(r)
    /\ disk' \in {Written(r).state, disk}

\* A variant of the worker that confirms as soon as the direct child exits.
ConfirmedOnExit == child \in {"residue", "gone"}

\* The worker confirms a termination when the direct child exited and the
\* containment drained (refresh_termination_confirmed, worker/src/main.rs).
TerminationConfirmed == child = "gone"

\* The snapshots a worker can answer with.  A confirmed termination is
\* reported running until the output drained, then exited, or lost when a
\* reader, the journal or the containment scan failed; `report` is whether
\* the scan made for this snapshot succeeded (snapshot, worker/src/main.rs).
SnapshotEvidence(report) ==
    [confirmed    |-> TerminationConfirmed,
     directExited |-> child \in {"residue", "gone"},
     drained      |-> TerminationConfirmed /\ report,
     noChild      |-> FALSE,
     tomb         |-> rec.ev.tomb]

SnapshotStatus(report) ==
    IF child = "none" THEN {}
    ELSE IF child = "live" THEN {"running"}
    ELSE {"running", "lost"} \cup (IF TerminationConfirmed /\ report THEN {"exited"} ELSE {})

\* The lifecycle event of a snapshot (workerEvent).
WorkerEvents(status) ==
    CASE status = "lost"    -> {"unreachable"}
      [] status = "running" -> {"worker_ready"}
      [] OTHER              -> {"child_exited", "timed_out", "output_limited"}

-----------------------------------------------------------------------------
\* A new session, or one that an earlier release left on disk.
LegacyEvidence ==
    {e \in Evidence : e.tomb = None /\ ~e.noChild
                      /\ (e.confirmed => e.directExited) /\ (e.drained => e.directExited)}

Legacy(status, e, pending) ==
    /\ rec = Written(Imported(status, e, pending))
    /\ child \in ChildStates
    /\ e.directExited => child \in {"residue", "gone"}
    /\ DirectChildGone(e) => child = "gone"
    /\ spawning = FALSE

Init ==
    /\ \/ rec = NewRecord /\ child = "none" /\ spawning = TRUE
       \/ \E status \in Outcomes \cup ActiveStatuses \cup {"lost"}, e \in LegacyEvidence,
             pending \in BOOLEAN : Legacy(status, e, pending)
    /\ disk = rec.state
    /\ attached = FALSE
    /\ booting = ~spawning

\* client.start() answered: the child runs and the worker is attached.
SpawnSucceeds ==
    /\ spawning
    /\ child' = "live"
    /\ Save(Transition(rec, "worker_ready", rec.ev))
    /\ attached' = TRUE
    /\ spawning' = FALSE
    /\ UNCHANGED booting

\* The catch of spawn: the cleanup evidence proves that no child was created,
\* or is a receipt that the worker has exited, or proves nothing.
SpawnFails ==
    /\ spawning
    /\ \E now \in ChildStates, confirmed, noChild \in BOOLEAN :
          LET r == [rec EXCEPT !.ev.confirmed = confirmed, !.ev.noChild = noChild]
          IN  /\ noChild => confirmed /\ now = "none"
              /\ child' = now
              /\ Save(Transition(r, IF noChild THEN "spawn_failed" ELSE "unreachable", r.ev))
    /\ spawning' = FALSE
    /\ UNCHANGED <<attached, booting>>

\* The child and its descendants go their own way.
ChildExits ==
    /\ child = "live"
    /\ child' \in {"residue", "gone"}
    /\ UNCHANGED <<rec, disk, attached, spawning, booting>>

DescendantsExit ==
    /\ child = "residue"
    /\ child' = "gone"
    /\ UNCHANGED <<rec, disk, attached, spawning, booting>>

\* finishNativeVersion: a rejected snapshot changes nothing and is not saved.
Observe(event, obs) ==
    IF Accepted(rec, event, obs)
    THEN Save(Transition(rec, event, obs))
    ELSE UNCHANGED <<rec, disk>>

FinishNative ==
    /\ attached
    /\ \E report \in BOOLEAN : \E status \in SnapshotStatus(report) :
          \E event \in WorkerEvents(status) : Observe(event, SnapshotEvidence(report))
    /\ UNCHANGED <<child, attached, spawning, booting>>

\* stop(): the request is recorded before the worker is asked.
Stop ==
    /\ attached
    /\ Save(Transition(rec, "stop_requested", rec.ev))
    /\ UNCHANGED <<child, attached, spawning, booting>>

\* rollbackNativeInLane: the worker's RPC failed and the worker is given up.
\* Its rollback receipt counts as a confirmation, although the worker sends it
\* whether or not it has seen the descendants, or even the child, to their end.
RollbackNative ==
    /\ attached
    /\ LET r == Transition(rec, "unreachable", rec.ev)
       IN  \E confirmed \in BOOLEAN : Save([r EXCEPT !.ev = WithConfirmed(@, confirmed)])
    /\ attached' = FALSE
    /\ UNCHANGED <<child, spawning, booting>>

\* persistNativeFinalizationFailure: storing a final snapshot failed.
FinalizationFails ==
    /\ attached
    /\ LET r == Transition(rec, "unreachable", rec.ev)
       IN  Save([r EXCEPT !.ev = WithUnknownExit(@)])
    /\ attached' = FALSE
    /\ UNCHANGED <<child, spawning, booting>>

\* cleanupConversation and markConversationRecoveryCleanup.
MarkCleanup ==
    /\ Save([rec EXCEPT !.pendingCleanup = TRUE])
    /\ UNCHANGED <<child, attached, spawning, booting>>

\* The daemon dies and the next one loads the record.
Restart ==
    /\ ~spawning
    /\ rec' = Loaded(disk)
    /\ attached' = FALSE
    /\ booting' = TRUE
    /\ UNCHANGED <<disk, child, spawning>>

\* initialize(): a worker of another protocol version can never be asked.
FenceIncompatible ==
    /\ ProtocolChanges
    /\ booting
    /\ ~DirectChildGone(rec.ev)
    /\ LET r == Transition(rec, "unreachable", rec.ev)
       IN  Save([r EXCEPT !.ev = WithConfirmed(@, FALSE)])
    /\ booting' = FALSE
    /\ UNCHANGED <<child, attached, spawning>>

\* reconcileWorker, no worker answered: an outage is one more `unreachable`.
ReconnectFails ==
    /\ booting
    /\ Status(rec.state) \in ActiveStatuses \cup {"lost"}
    /\ LET r == Transition(rec, "unreachable", rec.ev)
       IN  Save([r EXCEPT !.ev = WithUnknownExit(@)])
    /\ booting' = FALSE
    /\ UNCHANGED <<child, attached, spawning>>

\* reconcileWorker, the worker of an active record, or of one that only waits
\* for its cleanup, answered.  The worker of a legacy tombstone speaks an
\* older protocol and is not asked.
Reconnect ==
    /\ booting /\ child # "none"
    /\ rec.ev.tomb = None
    /\ \/ Status(rec.state) \in ActiveStatuses
       \/ Status(rec.state) = "lost" /\ rec.pendingCleanup
    /\ attached' = TRUE
    /\ booting' = FALSE
    /\ UNCHANGED <<rec, disk, child, spawning>>

\* reconcileWorker, the worker of a lost record answered with a snapshot that
\* is not itself lost: the record recovers and takes the snapshot.
Recover ==
    /\ booting /\ ~rec.pendingCleanup
    /\ Status(rec.state) = "lost"
    /\ Accepted(rec, "recovered", rec.ev)
    /\ \E status \in SnapshotStatus(TRUE) \ {"lost"} : \E event \in WorkerEvents(status) :
          Save(Transition(Transition(rec, "recovered", rec.ev), event, SnapshotEvidence(TRUE)))
    /\ attached' = TRUE
    /\ booting' = FALSE
    /\ UNCHANGED <<child, spawning>>

Next ==
    \/ SpawnSucceeds \/ SpawnFails \/ ChildExits \/ DescendantsExit
    \/ FinishNative \/ Stop \/ RollbackNative \/ FinalizationFails \/ MarkCleanup
    \/ Restart \/ FenceIncompatible \/ ReconnectFails \/ Reconnect \/ Recover

Spec == Init /\ [][Next]_vars

-----------------------------------------------------------------------------
(* Properties *)

\* Whatever the order of events, the validator that guards session.json
\* accepts the record: no handler dies of "Refusing to persist" and leaves a
\* record that can no longer be saved (storage.writeSession).
WriteNeverRefused == ValidState(Written(rec).state)

\* A terminal status, in memory or on disk, is never a guess: the direct
\* child was never created or is gone with its contained descendants
\* (terminalOrUnreachable, refreshSessionState).
TerminalMeansGone ==
    \A s \in {rec.state, disk} : Status(s) \in Outcomes => child \in {"none", "gone"}

\* Once an outcome reached the disk it stays the session's outcome, through
\* unreachable observations, cleanup, restarts and late snapshots: a finished
\* session is never reported with another end and never runs again.
OutcomeSticks ==
    [][TerminalPayload(disk) # None => TerminalPayload(disk') = TerminalPayload(disk)]_disk

\* A session marked for cleanup on disk is never resumed: the mark survives
\* every later write (the `cleaning` state absorbs).
CleanupSticks == [][disk.kind = "cleaning" => disk'.kind = "cleaning"]_disk

\* "Persistent records may reconnect and retry after an unreachable
\* observation": a lost session that was never seen to end and is not marked
\* for cleanup is still recoverable while its child lives (reconcileWorker).
\* The code does not keep this: the README has the sequence.
LostLiveSessionRecoverable ==
    /\ Status(disk) = "lost" /\ disk.kind # "cleaning"
    /\ TerminalPayload(disk) = None /\ child = "live"
    => Accepts(disk, "recovered")
=============================================================================
