-------------------------- MODULE SessionRegistry ---------------------------
(***************************************************************************)
(* Admission and accounting of sessions (src/src/daemon/session-registry.ts)*)
(* under the calls SessionSupervisor makes (supervisor.ts): a session is    *)
(* admitted against the limits before its first write, settles when its     *)
(* record proves that no child is left, and is released when it is deleted. *)
(* The registry keeps each count twice, by session and by owner, and the    *)
(* retained-output totals as running sums of differences.                   *)
(*                                                                          *)
(* `gone` is the truth the records speak of: the sessions that have no      *)
(* child and will never have one.  `settled` is what a record can prove of  *)
(* it (the negation of occupiesSlot).  Bytes are counted in units; one      *)
(* session keeps at most OutputLimit of them.                               *)
(***************************************************************************)
EXTENDS Integers, FiniteSets, FiniteSetsExt

CONSTANTS
    Sessions, Owners,
    NoOwner,
    OwnerOf,               \* the ownerKey of each session id
    MaxSessionsPerOwner, MaxActiveSessions,
    MaxRecordsPerOwner, MaxRecords,
    MaxOutputPerOwner, MaxOutput,
    OutputLimit            \* outputLimitBytes of a session

ASSUME OwnersAssumption == OwnerOf \in [Sessions -> Owners] /\ NoOwner \notin Owners
ASSUME LimitsAssumption ==
    /\ MaxSessionsPerOwner \in Nat /\ MaxActiveSessions \in Nat
    /\ MaxRecordsPerOwner \in Nat /\ MaxRecords \in Nat
    /\ MaxOutputPerOwner \in Nat /\ MaxOutput \in Nat
    /\ OutputLimit \in Nat

VARIABLES
    phase,            \* where the supervisor stands with each session
    spawning,         \* sessions whose spawn() has not returned
    releasing,        \* failed spawns that have not reported to the registry yet
    gone, settled, outputBytes,
    ownerSlots, slotOwner,            \* ownerSlots, slotOwnerBySessionId
    recordsByOwner, recordOwner,      \* recordsByOwner, recordOwnerBySessionId
    outputBySession, outputByOwner, outputTotal

supervisor == <<phase, spawning, releasing, gone, settled, outputBytes>>
slots == <<ownerSlots, slotOwner>>
recorded == <<recordsByOwner, recordOwner>>
output == <<outputBySession, outputByOwner, outputTotal>>
vars == <<supervisor, slots, recorded, output>>

Phases == {"absent", "admitted", "starting", "active", "ended", "deleted"}

IndexTypes ==
    /\ phase \in [Sessions -> Phases]
    /\ spawning \subseteq Sessions /\ releasing \subseteq Sessions /\ gone \subseteq Sessions
    /\ settled \in [Sessions -> BOOLEAN]
    /\ outputBytes \in [Sessions -> 0..OutputLimit]
    /\ ownerSlots \in [Owners -> SUBSET Sessions]
    /\ slotOwner \in [Sessions -> Owners \cup {NoOwner}]
    /\ recordsByOwner \in [Owners -> SUBSET Sessions]
    /\ recordOwner \in [Sessions -> Owners \cup {NoOwner}]

TypeOK ==
    /\ IndexTypes
    /\ outputBySession \in [Sessions -> 0..OutputLimit]
    /\ outputByOwner \in [Owners -> 0..(OutputLimit * MaxRecordsPerOwner)]
    /\ outputTotal \in 0..(OutputLimit * MaxRecords)

\* The keys of the supervisor's records map and of the two owner maps.
Records == {s \in Sessions : phase[s] \notin {"absent", "deleted"}}
ActiveSlots == {s \in Sessions : slotOwner[s] # NoOwner}
Recorded == {s \in Sessions : recordOwner[s] # NoOwner}

-----------------------------------------------------------------------------
(* Private helpers of the registry *)

OutputReservation(isSettled, bytes) == IF isSettled THEN bytes ELSE OutputLimit

SetOutput(s, o, bytes) ==
    LET delta == bytes - outputBySession[s]
    IN  /\ outputBySession' = [outputBySession EXCEPT ![s] = bytes]
        /\ outputByOwner' = [outputByOwner EXCEPT ![o] = @ + delta]
        /\ outputTotal' = outputTotal + delta

ReleaseActive(s) ==
    /\ slotOwner' = [slotOwner EXCEPT ![s] = NoOwner]
    /\ ownerSlots' = IF slotOwner[s] = NoOwner
                     THEN ownerSlots
                     ELSE [ownerSlots EXCEPT ![slotOwner[s]] = @ \ {s}]

\* A variant that charges the record's owner even after its release.
UpdateOutputUnchecked(s, isSettled, bytes) ==
    SetOutput(s, OwnerOf[s], OutputReservation(isSettled, bytes))

UpdateOutput(s, isSettled, bytes) ==
    IF recordOwner[s] = NoOwner
    THEN UNCHANGED output
    ELSE SetOutput(s, recordOwner[s], OutputReservation(isSettled, bytes))

\* A variant that frees the slot of every session that reports.
ReleaseUnproven(s, isSettled, bytes) ==
    /\ ReleaseActive(s)
    /\ UpdateOutput(s, isSettled, bytes)

\* releaseIfSettled, of a record with the given proof and bytes.
ReleaseIfSettled(s, isSettled, bytes) ==
    /\ IF isSettled THEN ReleaseActive(s) ELSE UNCHANGED slots
    /\ UpdateOutput(s, isSettled, bytes)

\* A variant of release that forgets the record of the owner.
ReleaseSlotOnly(s) ==
    /\ ReleaseActive(s)
    /\ recordOwner' = [recordOwner EXCEPT ![s] = NoOwner]
    /\ recordsByOwner' = recordsByOwner
    /\ IF recordOwner[s] = NoOwner THEN UNCHANGED output ELSE SetOutput(s, recordOwner[s], 0)

Release(s) ==
    /\ ReleaseActive(s)
    /\ IF recordOwner[s] = NoOwner
       THEN UNCHANGED <<recorded, output>>
       ELSE /\ recordsByOwner' = [recordsByOwner EXCEPT ![recordOwner[s]] = @ \ {s}]
            /\ recordOwner' = [recordOwner EXCEPT ![s] = NoOwner]
            /\ SetOutput(s, recordOwner[s], 0)

\* A variant that compares with > where the code compares with >=.
AdmitsOneMore(s) ==
    LET o == OwnerOf[s]
    IN  /\ Cardinality(ownerSlots[o]) <= MaxSessionsPerOwner
        /\ Cardinality(ActiveSlots) <= MaxActiveSessions
        /\ Cardinality(recordsByOwner[o]) <= MaxRecordsPerOwner
        /\ Cardinality(Recorded) <= MaxRecords

\* The limits reserve() checks before it takes anything.
Admits(s) ==
    LET o == OwnerOf[s]
    IN  /\ Cardinality(ownerSlots[o]) < MaxSessionsPerOwner
        /\ Cardinality(ActiveSlots) < MaxActiveSessions
        /\ Cardinality(recordsByOwner[o]) < MaxRecordsPerOwner
        /\ Cardinality(Recorded) < MaxRecords
        /\ outputByOwner[o] + OutputLimit <= MaxOutputPerOwner
        /\ outputTotal + OutputLimit <= MaxOutput

-----------------------------------------------------------------------------
Init ==
    /\ phase = [s \in Sessions |-> "absent"]
    /\ spawning = {} /\ releasing = {} /\ gone = {}
    /\ settled = [s \in Sessions |-> FALSE]
    /\ outputBytes = [s \in Sessions |-> 0]
    /\ ownerSlots = [o \in Owners |-> {}]
    /\ slotOwner = [s \in Sessions |-> NoOwner]
    /\ recordsByOwner = [o \in Owners |-> {}]
    /\ recordOwner = [s \in Sessions |-> NoOwner]
    /\ outputBySession = [s \in Sessions |-> 0]
    /\ outputByOwner = [o \in Owners |-> 0]
    /\ outputTotal = 0

\* reserve, records.set and commit, in one synchronous stretch of spawn and
\* nativeExecStart; a refused reservation changes nothing.
Reserve(s) ==
    LET o == OwnerOf[s]
    IN  /\ phase[s] = "absent"
        /\ Admits(s)
        /\ phase' = [phase EXCEPT ![s] = "admitted"]
        /\ spawning' = spawning \cup {s}
        /\ ownerSlots' = [ownerSlots EXCEPT ![o] = @ \cup {s}]
        /\ slotOwner' = [slotOwner EXCEPT ![s] = o]
        /\ recordsByOwner' = [recordsByOwner EXCEPT ![o] = @ \cup {s}]
        /\ recordOwner' = [recordOwner EXCEPT ![s] = o]
        /\ SetOutput(s, o, OutputLimit)
        /\ UNCHANGED <<releasing, gone, settled, outputBytes>>

\* The first session.json could not be written: releaseReservation.
FirstWriteFails(s) ==
    /\ phase[s] = "admitted"
    /\ phase' = [phase EXCEPT ![s] = "deleted"]
    /\ spawning' = spawning \ {s}
    /\ Release(s)
    /\ UNCHANGED <<releasing, gone, settled, outputBytes>>

FirstWriteSucceeds(s) ==
    /\ phase[s] = "admitted"
    /\ phase' = [phase EXCEPT ![s] = "starting"]
    /\ UNCHANGED <<spawning, releasing, gone, settled, outputBytes, slots, recorded, output>>

SpawnSucceeds(s) ==
    /\ s \in spawning /\ phase[s] = "starting" /\ s \notin gone
    /\ phase' = [phase EXCEPT ![s] = "active"]
    /\ spawning' = spawning \ {s}
    /\ UNCHANGED <<releasing, gone, settled, outputBytes, slots, recorded, output>>

\* The catch of spawn writes the record outside every lane and only then
\* reports to the registry; a failed write skips the report.  An owner's
\* cleanup may have deleted the session before either.
SpawnFails(s, noChild, saved) ==
    /\ s \in spawning /\ phase[s] \in {"starting", "deleted"}
    /\ noChild => s \in gone
    /\ phase' = IF phase[s] = "starting" THEN [phase EXCEPT ![s] = "ended"] ELSE phase
    /\ spawning' = spawning \ {s}
    /\ releasing' = IF saved THEN releasing \cup {s} ELSE releasing
    /\ settled' = [settled EXCEPT ![s] = noChild]
    /\ UNCHANGED <<gone, outputBytes, slots, recorded, output>>

SpawnFailureReports(s) ==
    /\ s \in releasing
    /\ releasing' = releasing \ {s}
    /\ ReleaseIfSettled(s, settled[s], outputBytes[s])
    /\ UNCHANGED <<phase, spawning, gone, settled, outputBytes, recorded>>

\* The direct child is gone with its descendants, or will never be created.
ChildGone(s) ==
    /\ s \in Records \ gone
    /\ gone' = gone \cup {s}
    /\ UNCHANGED <<phase, spawning, releasing, settled, outputBytes, slots, recorded, output>>

\* finishNativeVersion: the snapshot's proof and bytes enter the record; it
\* reports to the registry once it is saved.  A snapshot may carry the proof
\* while its status is still running (output draining), and a later one may
\* have lost it (a failed containment scan).
Snapshot(s, proof, bytes, now) ==
    /\ phase[s] = "active"
    /\ proof => s \in gone
    /\ settled' = [settled EXCEPT ![s] = proof]
    /\ outputBytes' = [outputBytes EXCEPT ![s] = bytes]
    /\ phase' = [phase EXCEPT ![s] = now]
    /\ ReleaseIfSettled(s, proof, bytes)
    /\ UNCHANGED <<spawning, releasing, gone, recorded>>

\* The save failed (persistNativeFinalizationFailure): the record has changed,
\* the registry is not told.
SnapshotUnsaved(s, proof, bytes) ==
    /\ phase[s] = "active"
    /\ proof => s \in gone
    /\ settled' = [settled EXCEPT ![s] = proof]
    /\ outputBytes' = [outputBytes EXCEPT ![s] = bytes]
    /\ phase' = [phase EXCEPT ![s] = "ended"]
    /\ UNCHANGED <<spawning, releasing, gone, slots, recorded, output>>

\* rollbackNativeInLane: the worker is given up, its receipt replaces the
\* confirmation that the record had; the registry is not told.
RollbackNative(s, proof) ==
    /\ phase[s] = "active"
    /\ proof => s \in gone
    /\ settled' = [settled EXCEPT ![s] = proof]
    /\ phase' = [phase EXCEPT ![s] = "ended"]
    /\ UNCHANGED <<spawning, releasing, gone, outputBytes, slots, recorded, output>>

\* deleteNativeSession, after the proof that cleanup() and reconcileWorker
\* ask for.
Delete(s) ==
    /\ phase[s] \in {"starting", "ended"} /\ s \in gone
    /\ phase' = [phase EXCEPT ![s] = "deleted"]
    /\ Release(s)
    /\ UNCHANGED <<spawning, releasing, gone, settled, outputBytes>>

\* What rebuildSlots derives from the loaded records: the indexes, and the
\* sums of what each record reserves.
RebuildIndexes(kept, proofs) ==
    /\ recordsByOwner' = [o \in Owners |-> {s \in kept : OwnerOf[s] = o}]
    /\ recordOwner' = [s \in Sessions |-> IF s \in kept THEN OwnerOf[s] ELSE NoOwner]
    /\ ownerSlots' = [o \in Owners |-> {s \in kept : ~proofs[s] /\ OwnerOf[s] = o}]
    /\ slotOwner' = [s \in Sessions |-> IF s \in kept /\ ~proofs[s] THEN OwnerOf[s] ELSE NoOwner]

RebuildOutput(kept, proofs) ==
    LET reserved == [s \in Sessions |-> OutputReservation(proofs[s], outputBytes[s])]
    IN  /\ outputBySession' = [s \in Sessions |-> IF s \in kept THEN reserved[s] ELSE 0]
        /\ outputByOwner' = [o \in Owners |->
                                SumFunctionOnSet(reserved, {s \in kept : OwnerOf[s] = o})]
        /\ outputTotal' = SumFunctionOnSet(reserved, kept)

\* What a load makes of a session: an unsaved admission is lost, a record
\* saved before its activation is deleted or, if that fails, retained.
AfterLoad(was) ==
    CASE was = "admitted" -> {"ended", "deleted"}
      [] was = "starting" -> {"ended"}
      [] was = "active"   -> {"active", "ended"}
      [] OTHER            -> {was}

\* A new daemon loads what the disk holds and rebuilds the registry
\* (initialize, rebuildSlots); a proof on disk may be older or newer than the
\* one last held in memory.
Restart(now, proofs) ==
    LET kept == {s \in Records : now[s] # "deleted"}
    IN  /\ \A s \in Sessions : now[s] \in AfterLoad(phase[s])
        /\ \A s \in Sessions : proofs[s] => s \in gone
        /\ phase' = now
        /\ spawning' = {} /\ releasing' = {}
        /\ gone' = gone \cup {s \in Sessions : phase[s] = "admitted"}
        /\ settled' = proofs
        /\ RebuildIndexes(kept, proofs)
        /\ RebuildOutput(kept, proofs)
        /\ UNCHANGED outputBytes

Next ==
    \/ \E s \in Sessions :
          \/ Reserve(s) \/ FirstWriteFails(s) \/ FirstWriteSucceeds(s)
          \/ SpawnSucceeds(s) \/ SpawnFailureReports(s) \/ ChildGone(s) \/ Delete(s)
          \/ \E noChild, saved \in BOOLEAN : SpawnFails(s, noChild, saved)
          \/ \E proof \in BOOLEAN : RollbackNative(s, proof)
          \/ \E proof \in BOOLEAN, bytes \in 0..OutputLimit :
                \/ SnapshotUnsaved(s, proof, bytes)
                \/ \E now \in {"active", "ended"} : Snapshot(s, proof, bytes, now)
    \/ \E now \in [Sessions -> Phases], proofs \in [Sessions -> BOOLEAN] : Restart(now, proofs)

Spec == Init /\ [][Next]_vars

-----------------------------------------------------------------------------
(* Properties *)

\* The two indexes of the registry never drift apart, whatever order
\* reservations, reports and deletions come in, and they hold exactly the
\* sessions of the supervisor's records map (addActive, addRecord, release).
IndexesAgree ==
    /\ \A o \in Owners : ownerSlots[o] = {s \in Sessions : slotOwner[s] = o}
    /\ \A o \in Owners : recordsByOwner[o] = {s \in Sessions : recordOwner[s] = o}
    /\ ActiveSlots \subseteq Recorded
    /\ Recorded = Records
    /\ \A s \in Recorded : recordOwner[s] = OwnerOf[s]

\* The running sums equal what the sessions hold, and nothing stays charged
\* for a session that was deleted, a late report of its failed spawn included
\* (setOutput, updateOutput).
OutputAccounted ==
    /\ outputTotal = SumFunctionOnSet(outputBySession, Recorded)
    /\ \A o \in Owners :
          outputByOwner[o] = SumFunctionOnSet(outputBySession, recordsByOwner[o])
    /\ \A s \in Sessions \ Recorded : outputBySession[s] = 0

\* A session that may have a live child holds its owner's slot: no report,
\* failure or restart frees the slot of a running command (releaseIfSettled).
LiveHoldsSlot == \A s \in Records \ gone : slotOwner[s] = OwnerOf[s]

\* However sessions come and go, no more children live than the limits
\* allow, for the daemon and for each owner, and no more records exist
\* (reserve).
LiveBounded ==
    /\ Cardinality(Records \ gone) <= MaxActiveSessions
    /\ Cardinality(Records) <= MaxRecords
    /\ \A o \in Owners :
          /\ Cardinality({s \in Records \ gone : OwnerOf[s] = o}) <= MaxSessionsPerOwner
          /\ Cardinality({s \in Records : OwnerOf[s] = o}) <= MaxRecordsPerOwner
=============================================================================
