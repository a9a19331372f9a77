------------------------ MODULE SessionRecordProofs -------------------------
(***************************************************************************)
(* A record that any order of events, restarts and failed writes can make   *)
(* passes the validator, a terminal status rests on a child that is gone,   *)
(* and neither an outcome nor a cleanup mark that reached the disk is ever  *)
(* lost again.  The argument is in two halves: what the reducer and the     *)
(* refresh do to one state (Sound, Fits, Follows), and that the evidence    *)
(* which the handlers put into a record is true of the child.               *)
(***************************************************************************)
EXTENDS SessionRecord, LifecycleReducerProofs, TLAPS

\* What the evidence says of a child is so.
EvidenceTrue(ev, c) ==
    /\ ev.directExited /\ ev.drained => c = "gone"
    /\ ev.noChild => c = "none"

\* The inductive invariant.  The disk may lag behind the memory, after a
\* failed write, but memory follows it: nothing settled there is undone here.
IndInv ==
    /\ TypeOK
    /\ Settled(rec) /\ Sound(disk)
    /\ Follows(disk, rec.state)
    /\ EvidenceTrue(rec.ev, child) /\ EvidenceTrue(disk.ev, child)
    /\ attached => child # "none" /\ rec.ev.tomb = None
    /\ spawning => /\ child = "none" /\ ~attached /\ ~booting
                   /\ rec.ev = NoEvidence /\ disk.ev = NoEvidence

-----------------------------------------------------------------------------
(* What the handlers have in common *)

USE DEF None

\* A handler that only touches the evidence leaves a record to be written.
LEMMA LooseEvidence ==
    ASSUME NEW r, Loose(r), NEW e, Fits(e, r.state), NEW q, q = [r EXCEPT !.ev = e]
    PROVE  Loose(q) /\ q.state = r.state /\ q.ev = e /\ q.pendingCleanup = r.pendingCleanup
  BY DEF Loose, Fits, FlatRecords

\* The steps that end in a save: the record they save may be written, follows
\* the record in memory, and carries evidence that is true of the child.
LEMMA SaveStep ==
    ASSUME IndInv, NEW r, Loose(r), Follows(rec.state, r.state), Save(r),
           child' \in ChildStates, EvidenceTrue(r.ev, child'), EvidenceTrue(disk.ev, child'),
           attached' \in BOOLEAN, spawning' \in BOOLEAN, booting' \in BOOLEAN,
           attached' => child' # "none" /\ r.ev.tomb = None,
           spawning' => /\ child' = "none" /\ ~attached' /\ ~booting'
                        /\ r.ev = NoEvidence /\ disk.ev = NoEvidence
    PROVE  IndInv' /\ Follows(disk, disk')
<1> DEFINE w == Written(r)
<1>1. Settled(w) /\ w.ev = r.ev /\ Follows(r.state, w.state)
  BY WrittenSettled
<1>2. rec' = w /\ disk' \in {w.state, disk}
  BY DEF Save
<1> HIDE DEF w
<1>3. Follows(disk, w.state)
  BY <1>1, FollowsTransitive DEF IndInv
<1>4. Sound(w.state) /\ w.state.ev = r.ev /\ w \in FlatRecords
  BY <1>1, SettledIsLoose DEF Loose
<1>5. Sound(disk') /\ Follows(disk, disk') /\ Follows(disk', w.state) /\ disk'.ev \in {r.ev, disk.ev}
  BY <1>2, <1>3, <1>4 DEF Follows, IndInv
<1>6. TypeOK'
  BY <1>2, <1>4, <1>5 DEF TypeOK, Sound
<1> QED BY <1>1, <1>2, <1>5, <1>6 DEF IndInv

\* A handler that reports the session unreachable, and then perhaps changes
\* the evidence to e, saves a record that fits.
LEMMA UnreachableStep ==
    ASSUME IndInv, NEW r, r = Transition(rec, "unreachable", rec.ev)
    PROVE  Loose(r) /\ Follows(rec.state, r.state) /\ r.ev = rec.ev /\ r.state.ev.tomb = rec.ev.tomb
<1>1. Loose(rec)
  BY SettledIsLoose DEF IndInv
<1>2. Fits(rec.ev, rec.state) /\ "unreachable" \in Events
  BY <1>1 DEF Loose, Events
<1> QED BY <1>1, <1>2, TransitionLoose DEF Loose, Fits

-----------------------------------------------------------------------------
(* Initialization: a new record, or one that an earlier release left *)

\* What a V0/V1 record imports as passes the validator (decodeLegacySession).
LEMMA ImportedSettled ==
    ASSUME NEW status \in Outcomes \cup ActiveStatuses \cup {"lost"}, NEW e \in LegacyEvidence,
           NEW pending \in BOOLEAN, NEW r, r = Imported(status, e, pending)
    PROVE  /\ Settled(r)
           /\ r.ev.directExited => DirectChildGone(e)
           /\ ~r.ev.noChild
<1> USE DEF Outcomes, ActiveKinds, Known, Kinds
<1>1. e \in Evidence /\ ~e.noChild /\ e.tomb = None
  BY DEF LegacyEvidence
<1> DEFINE known  == CASE status = "starting" -> "creating"
                       [] status = "lost"     -> "unreachable"
                       [] status \in Outcomes -> "terminal"
                       [] OTHER               -> status
           buried == [e EXCEPT !.confirmed = FALSE, !.directExited = FALSE, !.tomb = known]
<1>2. known \in Known /\ (known = "terminal" <=> status \in Outcomes)
  BY DEF ActiveStatuses
<1>3. /\ buried \in Evidence /\ ~buried.confirmed /\ ~buried.directExited
      /\ ~buried.noChild /\ buried.tomb = known
  <2> HIDE DEF known
  <2> QED BY <1>1, <1>2 DEF Evidence
<1>4. CASE status \in Outcomes /\ DirectChildGone(e)
  <2>1. r = Project(TerminalOrUnreachable(e, status, pending))
    BY <1>4 DEF Imported
  <2>2. TerminalProven(status, e)
    BY <1>4 DEF TerminalProven
  <2>3. CASE pending = TRUE
    <3> DEFINE t == Cleaning("terminal", status, None, None, e)
    <3>1. r = Project(t)
      BY <2>1, <2>2, <2>3 DEF TerminalOrUnreachable
    <3>2. Sound(t) /\ t.ev = e
      BY <1>1, <1>4, <2>2, MarkedClaimSound
    <3> HIDE DEF t
    <3> QED BY <1>1, <1>4, <3>1, <3>2, ProjectSettled
  <2>4. CASE pending = FALSE
    <3> DEFINE t == Terminal(status, e)
    <3>1. r = Project(t)
      BY <2>1, <2>2, <2>4 DEF TerminalOrUnreachable
    <3>2. Sound(t) /\ t.ev = e
      BY <1>1, <1>4, <2>2, OpenClaimSound
    <3> HIDE DEF t
    <3> QED BY <1>1, <1>4, <3>1, <3>2, ProjectSettled
  <2> QED BY <2>3, <2>4
<1>5. CASE status \in Outcomes /\ ~DirectChildGone(e)
  <2> DEFINE t == Cleaning("unreachable", None, "terminal", status, buried)
  <2>1. ~TerminalProven(status, buried)
    BY <1>3 DEF TerminalProven, DirectChildGone
  <2>2. r = Project(t)
    BY <1>5, <2>1 DEF Imported, TerminalOrUnreachable
  <2>3. Sound(t) /\ t.ev = buried
    <3>1. buried.tomb = "terminal"
      BY <1>2, <1>3, <1>5
    <3> HIDE DEF buried
    <3> QED BY <1>3, <1>5, <2>1, <3>1, MarkedClaimSound
  <2> HIDE DEF t, buried
  <2> QED BY <1>3, <2>2, <2>3, ProjectSettled
<1>6. CASE status \notin Outcomes
  <2> DEFINE t == Cleaning("unreachable", None, known, None, buried)
  <2>1. r = Project(t)
    BY <1>6 DEF Imported
  <2> HIDE DEF known, buried
  <2>2. /\ t \in States /\ t.kind = "cleaning" /\ t.target = "unreachable" /\ t.outcome = None
        /\ t.lastKnown = known /\ t.terminal = None /\ t.ev = buried
    BY <1>2, <1>3 DEF Cleaning, States
  <2> HIDE DEF t
  <2>3. Sound(t)
    BY <1>2, <1>3, <1>6, <2>2 DEF Sound, ValidState, Status
  <2> QED BY <1>3, <2>1, <2>2, <2>3, ProjectSettled
<1> QED BY <1>4, <1>5, <1>6

LEMMA InitIndInv == Init => IndInv
<1> SUFFICES ASSUME Init PROVE IndInv
  OBVIOUS
<1> USE DEF Init
<1>1. CASE rec = NewRecord /\ child = "none" /\ spawning = TRUE
  <2> DEFINE s == Plain("creating", NoEvidence)
  <2>1. NoEvidence \in Evidence /\ ~NoEvidence.noChild /\ NoEvidence.tomb = None
        /\ ~NoEvidence.drained
    BY DEF NoEvidence, Evidence
  <2>2. /\ s \in States /\ s.kind = "creating" /\ s.target = None /\ s.outcome = None
        /\ s.lastKnown = None /\ s.terminal = None /\ s.ev = NoEvidence
    BY <2>1 DEF Plain, States, Kinds, Known, ActiveKinds
  <2>3. rec = Project(s)
    BY <1>1 DEF NewRecord
  <2> HIDE DEF s
  <2>4. Sound(s)
    BY <2>1, <2>2 DEF Sound, ValidState
  <2>5. Settled(rec) /\ disk = s /\ rec.ev = NoEvidence
    BY <2>2, <2>3, <2>4, ProjectSettled
  <2>6. rec \in FlatRecords
    BY <2>5, SettledIsLoose DEF Loose
  <2> QED BY <1>1, <2>1, <2>2, <2>3, <2>4, <2>5, <2>6, ProjectSettled
          DEF IndInv, TypeOK, EvidenceTrue, Follows, ChildStates
<1>2. ASSUME NEW status \in Outcomes \cup ActiveStatuses \cup {"lost"}, NEW e \in LegacyEvidence,
             NEW pending \in BOOLEAN, Legacy(status, e, pending)
      PROVE  IndInv
  <2> DEFINE r == Imported(status, e, pending)
  <2>1. Settled(r) /\ (r.ev.directExited => DirectChildGone(e)) /\ ~r.ev.noChild
    BY ImportedSettled
  <2>2. rec = Written(r) /\ (DirectChildGone(e) => child = "gone") /\ child \in ChildStates /\ ~spawning
    BY <1>2 DEF Legacy
  <2> HIDE DEF r
  <2>3. Settled(rec) /\ rec.ev = r.ev
    BY <2>1, <2>2, SettledIsLoose, WrittenSettled
  <2>4. rec \in FlatRecords /\ Sound(rec.state) /\ rec.ev = rec.state.ev
    BY <2>3, SettledIsLoose DEF Loose
  <2>5. TypeOK
    BY <1>2, <2>2, <2>4 DEF TypeOK, Sound, Legacy
  <2> QED BY <2>1, <2>2, <2>3, <2>4, <2>5 DEF IndInv, EvidenceTrue, Follows
<1> QED BY <1>1, <1>2

-----------------------------------------------------------------------------
(* The steps *)

\* A snapshot's evidence fits the record and is true of the child.
LEMMA SnapshotFits ==
    ASSUME IndInv, rec.ev.tomb = None, NEW report \in BOOLEAN, NEW obs, obs = SnapshotEvidence(report)
    PROVE  Fits(obs, rec.state) /\ EvidenceTrue(obs, child) /\ obs.tomb = None
<1>1. Loose(rec) /\ rec.ev = rec.state.ev
  BY SettledIsLoose DEF IndInv
<1>2. obs \in Evidence /\ ~obs.noChild /\ obs.tomb = None /\ (obs.drained => child = "gone")
  <2> DEFINE confirmed == child = "gone"
             exited    == child \in {"residue", "gone"}
             drained   == child = "gone" /\ report
  <2>1. confirmed \in BOOLEAN /\ exited \in BOOLEAN /\ drained \in BOOLEAN
    OBVIOUS
  <2>2. obs = [confirmed |-> confirmed, directExited |-> exited, drained |-> drained,
               noChild |-> FALSE, tomb |-> None]
    BY DEF SnapshotEvidence, TerminationConfirmed
  <2>3. drained => child = "gone"
    OBVIOUS
  <2> HIDE DEF confirmed, exited, drained
  <2> QED BY <2>1, <2>2, <2>3 DEF Evidence
<1> QED BY <1>1, <1>2 DEF Fits, EvidenceTrue

\* Every step keeps the inductive invariant, and what the disk has settled.
LEMMA StepIndInv ==
    ASSUME IndInv, [Next]_vars
    PROVE  IndInv' /\ Follows(disk, disk')
<1>1. /\ Loose(rec) /\ rec.ev = rec.state.ev /\ Fits(rec.ev, rec.state)
      /\ rec.pendingCleanup \in BOOLEAN /\ (rec.pendingCleanup <=> rec.state.kind = "cleaning")
  BY SettledIsLoose DEF IndInv, Loose, FlatRecords
<1>2. /\ child \in ChildStates /\ attached \in BOOLEAN /\ spawning \in BOOLEAN /\ booting \in BOOLEAN
      /\ EvidenceTrue(rec.ev, child) /\ EvidenceTrue(disk.ev, child)
      /\ attached => child # "none" /\ rec.ev.tomb = None
      /\ spawning => /\ child = "none" /\ ~attached /\ ~booting
                     /\ rec.ev = NoEvidence /\ disk.ev = NoEvidence
  BY DEF IndInv, TypeOK
<1>3. Follows(disk, disk) /\ Follows(rec.state, rec.state)
  BY DEF Follows
<1>4. ~NoEvidence.noChild /\ ~NoEvidence.directExited /\ NoEvidence.tomb = None
  BY DEF NoEvidence
<1>5. CASE SpawnSucceeds
  <2> DEFINE r == Transition(rec, "worker_ready", rec.ev)
  <2>1. Save(r) /\ child' = "live" /\ attached' = TRUE /\ spawning' = FALSE /\ booting' = booting
    BY <1>5 DEF SpawnSucceeds
  <2>2. Loose(r) /\ Follows(rec.state, r.state) /\ r.ev = rec.ev
    BY <1>1, TransitionLoose DEF Events
  <2> HIDE DEF r
  <2> QED BY <1>2, <1>4, <1>5, <2>1, <2>2, SaveStep DEF EvidenceTrue, ChildStates, SpawnSucceeds
<1>6. CASE SpawnFails
  <2>1. PICK now \in ChildStates, confirmed \in BOOLEAN, noChild \in BOOLEAN :
          LET r == [rec EXCEPT !.ev.confirmed = confirmed, !.ev.noChild = noChild]
          IN  /\ noChild => confirmed /\ now = "none"
              /\ child' = now
              /\ Save(Transition(r, IF noChild THEN "spawn_failed" ELSE "unreachable", r.ev))
    BY <1>6 DEF SpawnFails
  <2>2. spawning /\ spawning' = FALSE /\ attached' = attached /\ booting' = booting
    BY <1>6 DEF SpawnFails
  <2> DEFINE e     == [rec.ev EXCEPT !.confirmed = confirmed, !.noChild = noChild]
             r     == [rec EXCEPT !.ev = e]
             event == IF noChild THEN "spawn_failed" ELSE "unreachable"
             t     == Transition(r, event, r.ev)
  <2>3. /\ e \in Evidence /\ e.noChild = noChild /\ e.confirmed = confirmed
        /\ ~e.directExited /\ e.tomb = rec.ev.tomb /\ e.tomb = None
    BY <1>1, <1>2, <1>4, <2>2 DEF Evidence, Fits
  <2>4. Fits(e, rec.state)
    BY <1>1, <2>1, <2>3 DEF Fits
  <2>5. [rec EXCEPT !.ev.confirmed = confirmed, !.ev.noChild = noChild] = r
    BY <1>1, <2>3 DEF Loose, FlatRecords, Evidence, Fits
  <2>6. Save(t) /\ event \in Events
    BY <2>1, <2>5 DEF Events
  <2> HIDE DEF e
  <2>7. Loose(r) /\ r.state = rec.state /\ r.ev = e
    BY <1>1, <2>4, LooseEvidence
  <2> HIDE DEF r, event
  <2>8. Loose(t) /\ Follows(rec.state, t.state) /\ t.ev = e
    BY <2>4, <2>6, <2>7, TransitionLoose
  <2> HIDE DEF t
  <2>9. child' \in ChildStates /\ EvidenceTrue(e, child') /\ EvidenceTrue(disk.ev, child')
    BY <1>2, <1>4, <2>1, <2>2, <2>3 DEF EvidenceTrue
  <2> QED BY <1>2, <2>2, <2>6, <2>8, <2>9, SaveStep
<1>7. CASE ChildExits \/ DescendantsExit
  <2>1. /\ child' \in {"residue", "gone"} /\ child \in {"live", "residue"}
        /\ UNCHANGED <<rec, disk, attached, spawning, booting>>
    BY <1>7 DEF ChildExits, DescendantsExit
  <2> QED BY <1>2, <1>3, <2>1 DEF IndInv, TypeOK, EvidenceTrue, ChildStates
<1>8. CASE FinishNative
  <2>1. PICK report \in BOOLEAN, event \in Events : Observe(event, SnapshotEvidence(report))
    <3>1. PICK report \in BOOLEAN : \E status \in SnapshotStatus(report) :
            \E event \in WorkerEvents(status) : Observe(event, SnapshotEvidence(report))
      BY <1>8 DEF FinishNative
    <3>2. PICK status \in SnapshotStatus(report) :
            \E event \in WorkerEvents(status) : Observe(event, SnapshotEvidence(report))
      BY <3>1
    <3>3. WorkerEvents(status) \subseteq Events
      BY DEF WorkerEvents, Events
    <3> QED BY <3>2, <3>3
  <2>2. attached /\ UNCHANGED <<child, attached, spawning, booting>>
    BY <1>8 DEF FinishNative
  <2> DEFINE obs == SnapshotEvidence(report)
             t   == Transition(rec, event, obs)
  <2>3. Fits(obs, rec.state) /\ EvidenceTrue(obs, child) /\ obs.tomb = None
    BY <1>2, <2>2, SnapshotFits
  <2> HIDE DEF obs
  <2>4. CASE Accepted(rec, event, obs)
    <3>1. Save(t)
      BY <2>1, <2>4 DEF Observe, obs
    <3>2. Loose(t) /\ Follows(rec.state, t.state) /\ t.ev = obs
      BY <1>1, <2>3, <2>4, TransitionLoose
    <3> HIDE DEF t
    <3> QED BY <1>2, <2>2, <2>3, <3>1, <3>2, SaveStep
  <2>5. CASE ~Accepted(rec, event, obs)
    <3>1. UNCHANGED vars
      BY <2>1, <2>2, <2>5 DEF Observe, obs, vars
    <3> QED BY <1>3, <3>1 DEF vars, IndInv, TypeOK
  <2> QED BY <2>4, <2>5
<1>9. CASE Stop
  <2> DEFINE r == Transition(rec, "stop_requested", rec.ev)
  <2>1. Save(r) /\ UNCHANGED <<child, attached, spawning, booting>>
    BY <1>9 DEF Stop
  <2>2. Loose(r) /\ Follows(rec.state, r.state) /\ r.ev = rec.ev
    BY <1>1, TransitionLoose DEF Events
  <2> HIDE DEF r
  <2> QED BY <1>2, <2>1, <2>2, SaveStep
<1>10. CASE RollbackNative
  <2> DEFINE r == Transition(rec, "unreachable", rec.ev)
  <2>1. PICK confirmed \in BOOLEAN : Save([r EXCEPT !.ev = WithConfirmed(@, confirmed)])
    BY <1>10 DEF RollbackNative
  <2>2. attached /\ attached' = FALSE /\ UNCHANGED <<child, spawning, booting>>
    BY <1>10 DEF RollbackNative
  <2>3. Loose(r) /\ Follows(rec.state, r.state) /\ r.ev = rec.ev /\ r.state.ev.tomb = rec.ev.tomb
    BY UnreachableStep
  <2> HIDE DEF r
  <2> DEFINE e == WithConfirmed(r.ev, confirmed)
             q == [r EXCEPT !.ev = e]
  <2>4. /\ e \in Evidence /\ ~e.noChild /\ e.tomb = None
        /\ e.directExited = rec.ev.directExited /\ e.drained = rec.ev.drained
    BY <1>1, <1>2, <2>2, <2>3 DEF WithConfirmed, Evidence, Fits
  <2>5. Save(q)
    BY <2>1, <2>3 DEF Loose, FlatRecords
  <2> HIDE DEF e
  <2>6. Fits(e, r.state)
    BY <1>2, <2>2, <2>3, <2>4 DEF Fits
  <2>7. Loose(q) /\ q.state = r.state /\ q.ev = e
    BY <2>3, <2>6, LooseEvidence
  <2> HIDE DEF q
  <2>8. EvidenceTrue(e, child)
    BY <1>2, <2>4 DEF EvidenceTrue
  <2> QED BY <1>2, <2>2, <2>3, <2>5, <2>7, <2>8, SaveStep
<1>11. CASE FinalizationFails \/ ReconnectFails \/ FenceIncompatible
  <2> DEFINE r == Transition(rec, "unreachable", rec.ev)
  <2>1. PICK e \in {WithUnknownExit(r.ev), WithConfirmed(r.ev, FALSE)} : Save([r EXCEPT !.ev = e])
    BY <1>11 DEF FinalizationFails, ReconnectFails, FenceIncompatible
  <2>2. /\ attached' \in {attached, FALSE} /\ booting' \in {booting, FALSE}
        /\ UNCHANGED <<child, spawning>>
    BY <1>11 DEF FinalizationFails, ReconnectFails, FenceIncompatible
  <2>3. Loose(r) /\ Follows(rec.state, r.state) /\ r.ev = rec.ev /\ r.state.ev.tomb = rec.ev.tomb
    BY UnreachableStep
  <2> HIDE DEF r
  <2> DEFINE q == [r EXCEPT !.ev = e]
  <2>4. /\ e \in Evidence /\ ~e.noChild /\ e.tomb = rec.ev.tomb /\ (e.confirmed => rec.ev.confirmed)
        /\ e.directExited = rec.ev.directExited /\ e.drained = rec.ev.drained
    BY <1>1, <2>1, <2>3 DEF WithConfirmed, WithUnknownExit, Evidence, Fits
  <2>5. Save(q)
    BY <2>1
  <2>6. Fits(e, r.state)
    BY <1>1, <2>3, <2>4 DEF Fits
  <2>7. Loose(q) /\ q.state = r.state /\ q.ev = e
    BY <2>3, <2>6, LooseEvidence
  <2> HIDE DEF q
  <2>8. EvidenceTrue(e, child)
    BY <1>2, <2>4 DEF EvidenceTrue
  <2>9. ~spawning
    BY <1>2, <1>11 DEF FinalizationFails, ReconnectFails, FenceIncompatible
  <2>10. /\ attached' \in BOOLEAN /\ booting' \in BOOLEAN /\ spawning' = FALSE /\ child' = child
         /\ attached' => child # "none" /\ e.tomb = None
    <3>1. attached' => attached
      BY <2>2
    <3> QED BY <1>2, <2>2, <2>4, <2>9, <3>1
  <2> QED BY <1>2, <2>3, <2>5, <2>7, <2>8, <2>10, SaveStep
<1>12. CASE MarkCleanup
  <2> DEFINE r == [rec EXCEPT !.pendingCleanup = TRUE]
  <2>1. Save(r) /\ UNCHANGED <<child, attached, spawning, booting>>
    BY <1>12 DEF MarkCleanup
  <2>2. Loose(r) /\ r.state = rec.state /\ r.ev = rec.ev
    BY <1>1 DEF Loose, FlatRecords
  <2> HIDE DEF r
  <2> QED BY <1>2, <1>3, <2>1, <2>2, SaveStep
<1>13. CASE Restart
  <2>1. /\ ~spawning /\ rec' = Project(disk) /\ attached' = FALSE /\ booting' = TRUE
        /\ UNCHANGED <<disk, child, spawning>>
    BY <1>13 DEF Restart, Loaded
  <2>2. Settled(rec') /\ rec'.state = disk /\ rec'.ev = disk.ev
    BY <2>1, ProjectSettled DEF IndInv
  <2>3. rec' \in FlatRecords
    BY <2>2, SettledIsLoose DEF Loose
  <2> QED BY <1>2, <1>3, <2>1, <2>2, <2>3 DEF IndInv, TypeOK
<1>14. CASE Reconnect
  BY <1>2, <1>3, <1>14 DEF Reconnect, IndInv, TypeOK
<1>15. CASE Recover
  <2> DEFINE r   == Transition(rec, "recovered", rec.ev)
             obs == SnapshotEvidence(TRUE)
  <2>1. PICK status \in SnapshotStatus(TRUE) : \E event \in WorkerEvents(status) :
          Save(Transition(r, event, obs))
    BY <1>15 DEF Recover
  <2> PICK event \in WorkerEvents(status) : Save(Transition(r, event, obs))
    BY <2>1
  <2>2. /\ ~rec.pendingCleanup /\ attached' = TRUE /\ booting' = FALSE /\ UNCHANGED <<child, spawning>>
        /\ Accepted(rec, "recovered", rec.ev)
    BY <1>15 DEF Recover
  <2>3. child # "none"
    BY <2>1 DEF SnapshotStatus
  <2>4. rec.ev.tomb = None
    BY <1>1, <2>2 DEF Loose, Sound, ValidState
  <2>5. Fits(obs, rec.state) /\ EvidenceTrue(obs, child) /\ obs.tomb = None
    BY <2>4, SnapshotFits
  <2> HIDE DEF obs
  <2>6. Loose(r) /\ Follows(rec.state, r.state) /\ r.ev = rec.ev
    BY <1>1, TransitionLoose DEF Events
  <2> HIDE DEF r
  <2> DEFINE t == Transition(r, event, obs)
  <2>7. event \in Events /\ Fits(obs, r.state)
    BY <2>1, <2>4, <2>5, <2>6 DEF WorkerEvents, Events, Fits, Loose
  <2>8. Loose(t) /\ Follows(r.state, t.state) /\ t.ev \in {rec.ev, obs}
    BY <2>6, <2>7, TransitionLoose
  <2>9. Save(t)
    BY <2>1
  <2> HIDE DEF t
  <2>10. Follows(rec.state, t.state)
    BY <2>6, <2>8, FollowsTransitive
  <2> QED BY <1>2, <2>2, <2>3, <2>4, <2>5, <2>8, <2>9, <2>10, SaveStep
<1>16. CASE UNCHANGED vars
  BY <1>3, <1>16 DEF vars, IndInv, TypeOK
<1> QED BY <1>5, <1>6, <1>7, <1>8, <1>9, <1>10, <1>11, <1>12, <1>13, <1>14, <1>15, <1>16 DEF Next

-----------------------------------------------------------------------------
(* The theorems *)

\* The inductive invariant holds throughout.
THEOREM RecordInvariant == Spec => []IndInv
<1>1. IndInv /\ [Next]_vars => IndInv'
  BY StepIndInv
<1> QED BY <1>1, InitIndInv, PTL DEF Spec

\* Every record in memory and every state on disk has its type, whatever the
\* handlers, a restart or the import of an older record made of it.
THEOREM TypeCorrect == Spec => []TypeOK
<1>1. IndInv => TypeOK
  BY DEF IndInv
<1> QED BY <1>1, RecordInvariant, PTL

\* No order of events and failures makes a record that storage.writeSession
\* refuses to persist.
THEOREM WriteNeverRefusedHolds == Spec => []WriteNeverRefused
<1>1. IndInv => WriteNeverRefused
  BY SettledIsLoose, WrittenSettled DEF IndInv, WriteNeverRefused, Settled, Sound
<1> QED BY <1>1, RecordInvariant, PTL

\* A terminal status, in memory or on disk, means that the child never was or
\* is gone with its descendants.
THEOREM TerminalMeansGoneHolds == Spec => []TerminalMeansGone
<1>1. ASSUME NEW s, Sound(s), EvidenceTrue(s.ev, child), Status(s) \in Outcomes
      PROVE  child \in {"none", "gone"}
  <2>1. s.kind = "terminal" \/ (s.kind = "cleaning" /\ s.target = "terminal")
    BY <1>1 DEF Sound, States, Status, Outcomes, Kinds, Known, ActiveKinds
  <2>2. ValidTerminalProof(s.outcome, s.ev)
    BY <1>1, <2>1 DEF Sound, ValidState
  <2> QED BY <1>1, <2>2 DEF ValidTerminalProof, EvidenceTrue
<1>2. IndInv => TerminalMeansGone
  <2> SUFFICES ASSUME IndInv, NEW s \in {rec.state, disk}, Status(s) \in Outcomes
               PROVE  child \in {"none", "gone"}
    BY DEF TerminalMeansGone
  <2>1. Sound(s) /\ EvidenceTrue(s.ev, child)
    BY SettledIsLoose DEF IndInv, Settled
  <2> QED BY <1>1, <2>1
<1> QED BY <1>2, RecordInvariant, PTL

\* An outcome that reached session.json is the session's outcome for good.
THEOREM OutcomeSticksHolds == Spec => OutcomeSticks
<1>1. IndInv /\ [Next]_vars
        => [TerminalPayload(disk) # None => TerminalPayload(disk') = TerminalPayload(disk)]_disk
  BY StepIndInv DEF Follows
<1> QED BY <1>1, RecordInvariant, PTL DEF Spec, OutcomeSticks

\* A session that session.json marks for cleanup stays marked.
THEOREM CleanupSticksHolds == Spec => CleanupSticks
<1>1. IndInv /\ [Next]_vars => [disk.kind = "cleaning" => disk'.kind = "cleaning"]_disk
  BY StepIndInv DEF Follows
<1> QED BY <1>1, RecordInvariant, PTL DEF Spec, CleanupSticks
=============================================================================
