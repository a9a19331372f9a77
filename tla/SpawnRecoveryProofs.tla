------------------------ MODULE SpawnRecoveryProofs -------------------------
(***************************************************************************)
(* A deleted session has no child and never gets one, a child is always     *)
(* traceable from session.json, and a claim that no child was created is    *)
(* right for good: proved for any number of crashes and faults.             *)
(*                                                                          *)
(* The start frame is sent once, from one place; so a child can only come   *)
(* from that frame, and what session.json says when the frame is sent holds *)
(* for as long as there may be a child.  The rest is about the evidence: a  *)
(* receipt is only ever written by a worker that is about to exit.          *)
(***************************************************************************)
EXTENDS SpawnRecovery, LifecycleReducerProofs, TLAPS

\* The daemon has not sent the start yet, and may still do so.
PreStart == {"prestart", "launch", "bootstrap", "ready", "unready", "reap", "reference",
             "attempt", "start"}

\* The daemon still has to write the record it works on.
Writing == {"health", "activate", "rollback", "receipt", "failed", "reconcile"}

HasStart == \E i \in DOMAIN pipe : pipe[i] = "start"
MayLive == child = "live" \/ MayCreate
Never == child = "none" /\ ~MayCreate
Traceable(r) == r.reference /\ r.attempted = "yes"

RecordOK(r) == r \in Records /\ Settled(r.life) /\ r.life.ev.tomb = None

Types ==
    /\ RecordOK(rec) /\ known \in BOOLEAN
    /\ disk = Absent \/ RecordOK(disk)
    /\ pc \in PCs
    /\ cleanup \in Cleanups
    /\ channel \in {"open", "closed", "orphaned"}
    /\ pipe \in Seq({"bootstrap", "start", "rollback"})
    /\ ready \in BOOLEAN /\ receipt \in BOOLEAN
    /\ worker \in {"none", "booting", "announcing", "waiting", "creating", "serving", "exited"}
    /\ child \in {"none", "live", "gone"}
    /\ files \in Files
    /\ persistent \in BOOLEAN
    /\ crashes \in 0..MaxCrashes /\ faults \in 0..MaxFaults

\* Each frame is sent at most once.
PipeBound ==
    Len(pipe) <= IF pc \in {"prestart", "launch", "bootstrap"} THEN 0
                 ELSE IF pc \in PreStart THEN 1
                 ELSE IF pc \in {"health", "activate", "rollback"} THEN 2
                 ELSE 3

\* Before the start there is no child and nothing that would create one; a
\* session that is deleted then has lost its worker.
BeforeStart ==
    /\ pc \in {"prestart", "launch"} => worker = "none"
    /\ pc \in PreStart => child = "none" /\ ~HasStart /\ worker \notin {"creating", "serving"}
    /\ pc \in PreStart /\ disk = Absent => worker = "exited"
    /\ pc \in PreStart => ~rec.life.ev.noChild /\ ~disk.life.ev.noChild
    /\ pc = "attempt" => rec.reference
    /\ pc = "start" => Traceable(rec) /\ (disk # Absent => Traceable(disk))

\* What the worker has done, and what its receipts say.
WorkerTruth ==
    /\ worker \in {"none", "booting", "announcing", "waiting", "creating"} => child = "none"
    /\ worker = "serving" => child # "none"
    /\ files.prestart \/ files.failure = "noChild" => worker = "exited" /\ child = "none"
    /\ cleanup.noWorker => cleanup.noChild
    /\ cleanup.noChild => pc = "failed" /\ cleanup.confirmed /\ Never
    /\ pc = "remove" => Never

IndInv ==
    /\ Types
    /\ PipeBound
    /\ BeforeStart
    /\ WorkerTruth
    /\ pc \in Writing /\ MayLive => Traceable(rec)
    /\ ChildIsTraceable
    /\ DeletedNeverRuns
    /\ NoChildIsTrue

-----------------------------------------------------------------------------
(* Records *)

\* A record the daemon may write.
Writable(r) == r \in Records /\ Loose(r.life) /\ r.life.ev.tomb = None

\* s differs from r in its life only, and keeps the evidence.
SameSession(r, s) ==
    /\ s.reference = r.reference /\ s.attempted = r.attempted /\ s.prestart = r.prestart
    /\ s.life.ev = r.life.ev

LEMMA RecordIsWritable ==
    ASSUME NEW r, RecordOK(r)
    PROVE  Writable(r) /\ r # Absent /\ r.life.ev = r.life.state.ev
  BY SettledIsLoose DEF RecordOK, Writable, Absent, Fresh, Records

LEMMA WrittenRecord ==
    ASSUME NEW r, Writable(r), NEW w, w = [r EXCEPT !.life = Written(@)]
    PROVE  RecordOK(w) /\ SameSession(r, w) /\ w # Absent
<1> DEFINE life == Written(r.life)
<1>1. Settled(life) /\ life.ev = r.life.ev
  BY WrittenSettled DEF Writable
<1>2. life \in FlatRecords
  BY <1>1, SettledIsLoose DEF Loose
<1>3. w = [r EXCEPT !.life = life]
  OBVIOUS
<1> HIDE DEF life
<1>4. w \in Records /\ w.life = life /\ SameSession(r, w)
  BY <1>1, <1>2, <1>3 DEF Records, Writable, SameSession
<1>5. RecordOK(w)
  BY <1>1, <1>4 DEF RecordOK, Writable
<1> QED BY <1>4, <1>5, RecordIsWritable

LEMMA MovedRecord ==
    ASSUME NEW r, Writable(r), NEW event \in Events, NEW m, m = Moved(r, event)
    PROVE  Writable(m) /\ SameSession(r, m) /\ (RecordOK(r) => RecordOK(m))
<1> DEFINE life == Transition(r.life, event, r.life.ev)
<1>1. Fits(r.life.ev, r.life.state)
  BY DEF Writable, Loose
<1>2. Loose(life) /\ life.ev = r.life.ev /\ (Accepted(r.life, event, r.life.ev) => Settled(life))
  BY <1>1, TransitionLoose DEF Writable
<1>3. ~Accepted(r.life, event, r.life.ev) => life = r.life
  BY DEF Transition
<1>4. m = [r EXCEPT !.life = life]
  BY DEF Moved
<1> HIDE DEF life
<1>5. m \in Records /\ m.life = life /\ SameSession(r, m)
  BY <1>2, <1>4 DEF Records, Writable, SameSession, Loose
<1> QED BY <1>2, <1>3, <1>5 DEF Writable, RecordOK

\* What a write leaves in memory and on disk (writeSession).
LEMMA WriteRecord ==
    ASSUME NEW r, Writable(r), NEW well \in BOOLEAN, Write(r, well)
    PROVE  /\ RecordOK(rec') /\ SameSession(r, rec') /\ disk' \in {disk, rec'}
           /\ well => disk' = rec'
           /\ UNCHANGED <<persistent, crashes>> /\ (faults \in 0..MaxFaults => faults' \in 0..MaxFaults)
<1> DEFINE w == [r EXCEPT !.life = Written(@)]
<1>1. RecordOK(w) /\ SameSession(r, w)
  BY WrittenRecord
<1>2. /\ rec' = w /\ disk' \in (IF well THEN {w} ELSE {disk, w})
      /\ IF well THEN NoFault ELSE Fault
  BY DEF Write
<1> HIDE DEF w
<1> QED BY <1>1, <1>2, RecoveryBoundsAssumption DEF NoFault, Fault, bounds

-----------------------------------------------------------------------------
(* Frames *)

\* A start frame is in the pipe when it was before or has just been sent.
LEMMA StartFrames ==
    ASSUME pipe \in Seq({"bootstrap", "start", "rollback"})
    PROVE  /\ \A f \in {"bootstrap", "rollback"} : pipe' = Append(pipe, f) => (HasStart' => HasStart)
           /\ pipe # <<>> /\ pipe' = Tail(pipe) => (HasStart' => HasStart)
           /\ pipe # <<>> /\ Head(pipe) = "start" => HasStart
           /\ pipe' = <<>> => ~HasStart'
  BY DEF HasStart

\* With the pipe and the processes unchanged, so is what may become of them.
LEMMA SameProcesses ==
    ASSUME UNCHANGED <<pipe, worker, child>>
    PROVE  (MayLive' <=> MayLive) /\ (Never' <=> Never) /\ (HasStart' <=> HasStart)
           /\ (MayCreate' <=> MayCreate)
  BY DEF MayLive, Never, HasStart, MayCreate

\* The record of a new session passes the validator and claims nothing.
LEMMA FreshRecord == RecordOK(Fresh) /\ ~Fresh.life.ev.noChild
<1> DEFINE s == Plain("creating", NoEvidence)
<1>1. NoEvidence \in Evidence /\ ~NoEvidence.noChild /\ NoEvidence.tomb = None
  BY DEF NoEvidence, Evidence, None
<1>2. /\ s \in States /\ s.kind = "creating" /\ s.target = None /\ s.outcome = None
      /\ s.lastKnown = None /\ s.terminal = None /\ s.ev = NoEvidence
  BY <1>1 DEF Plain, States, Kinds, Known, ActiveKinds, None
<1>3. NewRecord = Project(s)
  BY DEF NewRecord
<1> HIDE DEF s
<1>4. Sound(s)
  BY <1>1, <1>2 DEF Sound, ValidState, ActiveKinds
<1>5. Settled(NewRecord) /\ NewRecord.ev = NoEvidence
  BY <1>2, <1>3, <1>4, ProjectSettled
<1>6. NewRecord \in FlatRecords
  BY <1>5, SettledIsLoose DEF Loose
<1> QED BY <1>1, <1>5, <1>6 DEF RecordOK, Fresh, Records

LEMMA InitIndInv == Init => IndInv
<1> SUFFICES ASSUME Init PROVE IndInv
  OBVIOUS
<1>1. rec = Fresh /\ disk = Fresh /\ disk # Absent
  BY DEF Init, Fresh, Absent
<1>2. Types
  <2>1. Unconfirmed \in Cleanups /\ NoFiles \in Files
    BY DEF Cleanups, Unconfirmed, Files, NoFiles
  <2>2. crashes \in 0..MaxCrashes /\ faults \in 0..MaxFaults
    BY RecoveryBoundsAssumption DEF Init
  <2>3. <<>> \in Seq({"bootstrap", "start", "rollback"}) /\ "prestart" \in PCs
    BY DEF PCs, Spawning
  <2> QED BY FreshRecord, <1>1, <2>1, <2>2, <2>3 DEF Types, Init
<1>3. ~HasStart /\ ~MayCreate /\ child = "none" /\ Len(pipe) = 0
  BY DEF HasStart, MayCreate, Init
<1>4. PipeBound /\ BeforeStart /\ WorkerTruth
  BY FreshRecord, <1>1, <1>3 DEF PipeBound, BeforeStart, WorkerTruth, Init, NoFiles, Unconfirmed
<1> QED BY FreshRecord, <1>1, <1>2, <1>3, <1>4
        DEF IndInv, MayLive, ChildIsTraceable, DeletedNeverRuns, NoChildIsTrue

-----------------------------------------------------------------------------
(* Three kinds of steps *)

\* Before the start there may be no child, so nothing has to be traceable.
LEMMA PreStartStep ==
    ASSUME IndInv, pc \in PreStart, child' = "none", ~HasStart',
           worker' \notin {"creating", "serving"},
           Types', PipeBound', BeforeStart', WorkerTruth'
    PROVE  IndInv'
<1>1. ~MayCreate' /\ ~MayLive' /\ Never'
  BY DEF MayCreate, MayLive, Never, HasStart
<1> QED BY <1>1 DEF IndInv, MayLive, Never, ChildIsTraceable, DeletedNeverRuns, NoChildIsTrue

\* After it, a child may only go away, and what is written stays traceable.
LEMMA PostStartStep ==
    ASSUME IndInv, pc' \notin PreStart, Types', PipeBound', WorkerTruth',
           MayLive' => MayLive, Never => Never',
           pc' \in Writing /\ MayLive' => Traceable(rec'),
           disk' # Absent /\ MayLive' => Traceable(disk'),
           disk' = Absent => ~MayLive',
           rec'.life.ev.noChild \/ (disk' # Absent /\ disk'.life.ev.noChild) => Never'
    PROVE  IndInv'
<1>1. BeforeStart'
  BY DEF BeforeStart, PreStart
<1> QED BY <1>1 DEF IndInv, MayLive, Never, ChildIsTraceable, DeletedNeverRuns, NoChildIsTrue, Traceable

\* What the worker does, in whatever state the daemon is.
LEMMA WorkerKeeps ==
    ASSUME IndInv, UNCHANGED daemon, Types', Len(pipe') <= Len(pipe),
           MayLive' => MayLive, Never => Never',
           pc \in PreStart => /\ child' = "none" /\ ~HasStart' /\ worker' \notin {"creating", "serving"}
                              /\ worker \in {"none", "exited"} => worker' = worker,
           worker' \in {"none", "booting", "announcing", "waiting", "creating"} => child' = "none",
           worker' = "serving" => child' # "none",
           files'.prestart \/ files'.failure = "noChild" => worker' = "exited" /\ child' = "none"
    PROVE  IndInv'
<1>1. BeforeStart'
  <2>1. pc' = pc /\ rec' = rec /\ disk' = disk
    BY DEF daemon
  <2>2. CASE pc \in PreStart
    <3>1. /\ worker \in {"none", "exited"} => worker' = worker
          /\ child' = "none" /\ ~HasStart' /\ worker' \notin {"creating", "serving"}
      BY <2>2
    <3> QED BY <2>1, <2>2, <3>1 DEF IndInv, BeforeStart, Traceable
  <2>3. CASE pc \notin PreStart
    BY <2>1, <2>3 DEF BeforeStart, PreStart
  <2> QED BY <2>2, <2>3
<1>2. WorkerTruth'
  BY DEF IndInv, WorkerTruth, daemon
<1>3. PipeBound'
  <2>1. Len(pipe) \in Nat /\ Len(pipe') \in Nat
    BY DEF IndInv, Types
  <2> QED BY <2>1 DEF IndInv, PipeBound, daemon
<1>4. MayLive' => MayLive /\ ~Never
  BY DEF MayLive, Never
<1> QED BY <1>1, <1>2, <1>3, <1>4 DEF IndInv, MayLive, Never, ChildIsTraceable, DeletedNeverRuns,
        NoChildIsTrue, Traceable, daemon

-----------------------------------------------------------------------------
(* The steps up to the start *)

\* What IndInv says of a daemon that has not sent the start.
LEMMA AtPreStart ==
    ASSUME IndInv, pc \in PreStart
    PROVE  /\ child = "none" /\ ~HasStart /\ worker \notin {"creating", "serving"}
           /\ disk = Absent => worker = "exited"
           /\ ~rec.life.ev.noChild /\ ~disk.life.ev.noChild
           /\ RecordOK(rec) /\ Writable(rec)
           /\ ~cleanup.noChild /\ ~cleanup.noWorker
           /\ ~files.prestart \/ worker = "exited"
           /\ Never
<1>1. RecordOK(rec) /\ Writable(rec)
  BY RecordIsWritable DEF IndInv, Types
<1>2. child = "none" /\ ~HasStart /\ worker \notin {"creating", "serving"}
  BY DEF IndInv, BeforeStart
<1>3. Never
  BY <1>2 DEF Never, MayCreate, HasStart
<1> QED BY <1>1, <1>2, <1>3 DEF IndInv, BeforeStart, WorkerTruth, PreStart

\* A step of the daemon alone, within the steps up to the start or out of
\* them with a failure.
LEMMA PreStartDaemon ==
    ASSUME IndInv, pc \in PreStart, UNCHANGED <<pipe, worker, child, files>>,
           Types', PipeBound',
           pc' \in {"prestart", "launch"} => worker = "none",
           disk' \in {disk, rec'}, ~rec'.life.ev.noChild,
           pc' \in PreStart => cleanup' = cleanup,
           pc' = "attempt" => rec'.reference,
           pc' = "start" => Traceable(rec') /\ disk' = rec',
           pc' # "remove",
           cleanup' # cleanup => pc' = "failed" /\ (cleanup'.noWorker => cleanup'.noChild)
                                 /\ (cleanup'.noChild => cleanup'.confirmed)
    PROVE  IndInv'
<1>1. /\ child = "none" /\ ~HasStart /\ worker \notin {"creating", "serving"}
      /\ disk = Absent => worker = "exited"
      /\ ~disk.life.ev.noChild /\ ~cleanup.noChild /\ ~cleanup.noWorker /\ Never
  BY AtPreStart
<1>2. ~HasStart' /\ Never' /\ child' = "none"
  BY <1>1, SameProcesses
<1>3. rec' # Absent
  BY RecordIsWritable DEF Types
<1>4. BeforeStart'
  BY <1>1, <1>2, <1>3 DEF BeforeStart
<1>5. WorkerTruth'
  BY <1>1, <1>2 DEF IndInv, WorkerTruth
<1> QED BY <1>1, <1>2, <1>4, <1>5, PreStartStep

LEMMA PersistPrestartStep == IndInv /\ PersistPrestart => IndInv'
<1> SUFFICES ASSUME IndInv, PersistPrestart PROVE IndInv'
  OBVIOUS
<1>1. /\ pc = "prestart" /\ pc \in PreStart
      /\ UNCHANGED <<known, channel, pipe, ready, receipt, worker, child, files>>
  BY DEF PersistPrestart, PreStart, channels, processes
<1>2. /\ RecordOK(rec) /\ Writable(rec) /\ ~rec.life.ev.noChild /\ worker = "none"
      /\ Len(pipe) = 0
  BY <1>1, AtPreStart DEF IndInv, BeforeStart, PipeBound, Types
<1>3. CASE Fault /\ Fail(NoWorker) /\ UNCHANGED <<rec, disk>>
  <2>1. /\ cleanup' = NoWorker /\ pc' = "failed" /\ UNCHANGED <<persistent, crashes>>
        /\ faults' \in 0..MaxFaults
    BY <1>3, RecoveryBoundsAssumption DEF Fail, Fault, IndInv, Types
  <2>2. NoWorker \in Cleanups /\ NoWorker.noChild /\ NoWorker.confirmed
    BY DEF NoWorker, Cleanups
  <2>3. Types'
    BY <1>1, <1>3, <2>1, <2>2 DEF IndInv, Types, PCs, Spawning
  <2>4. PipeBound'
    BY <1>1, <1>2, <2>1 DEF PipeBound, PreStart
  <2> QED BY <1>1, <1>2, <1>3, <2>1, <2>2, <2>3, <2>4, PreStartDaemon DEF PreStart
<1>4. ASSUME NEW well \in BOOLEAN,
             Write([rec EXCEPT !.prestart = TRUE, !.attempted = "no"], well),
             IF well THEN pc' = "launch" /\ UNCHANGED cleanup ELSE Fail(NoWorker)
      PROVE  IndInv'
  <2> DEFINE r == [rec EXCEPT !.prestart = TRUE, !.attempted = "no"]
  <2>1. Writable(r) /\ r.life = rec.life
    BY <1>2 DEF Writable, Records
  <2>2. /\ RecordOK(rec') /\ SameSession(r, rec') /\ disk' \in {disk, rec'}
        /\ UNCHANGED <<persistent, crashes>> /\ faults' \in 0..MaxFaults
    <3> HIDE DEF r
    <3> QED BY <1>4, <2>1, WriteRecord DEF IndInv, Types, r
  <2>3. ~rec'.life.ev.noChild
    BY <1>2, <2>1, <2>2 DEF SameSession
  <2>4. /\ pc' \in {"launch", "failed"}
        /\ pc' = "launch" => cleanup' = cleanup
        /\ pc' = "failed" => cleanup' = NoWorker
    BY <1>4 DEF Fail
  <2>5. NoWorker \in Cleanups /\ NoWorker.noChild /\ NoWorker.confirmed
    BY DEF NoWorker, Cleanups
  <2>6. Types'
    BY <1>1, <2>2, <2>4, <2>5 DEF IndInv, Types, PCs, Spawning
  <2>7. PipeBound'
    BY <1>1, <1>2, <2>4 DEF PipeBound, PreStart
  <2> QED BY <1>1, <1>2, <2>2, <2>3, <2>4, <2>5, <2>6, <2>7, PreStartDaemon DEF PreStart
<1> QED BY <1>3, <1>4 DEF PersistPrestart

\* NoFault and Fault keep the bounds.
LEMMA Faults ==
    ASSUME IndInv, NoFault \/ Fault
    PROVE  UNCHANGED <<persistent, crashes>> /\ faults' \in 0..MaxFaults
  BY RecoveryBoundsAssumption DEF NoFault, Fault, bounds, IndInv, Types

\* What a failed start reports of its cleanup.
LEMMA CleanupOutcomes ==
    /\ NoWorker \in Cleanups /\ NoWorker.noChild /\ NoWorker.confirmed
    /\ Unconfirmed \in Cleanups /\ ~Unconfirmed.noChild /\ ~Unconfirmed.noWorker
    /\ \A c, n \in BOOLEAN : /\ Outcome(c, n) \in Cleanups /\ ~Outcome(c, n).noWorker
                             /\ Outcome(c, n).noChild = n /\ Outcome(c, n).confirmed = c
  BY DEF NoWorker, Unconfirmed, Outcome, Cleanups

LEMMA LaunchWorkerStep == IndInv /\ LaunchWorker => IndInv'
<1> SUFFICES ASSUME IndInv, LaunchWorker PROVE IndInv'
  OBVIOUS
<1>1. /\ pc = "launch" /\ pc \in PreStart
      /\ UNCHANGED <<rec, known, disk, channel, pipe, ready, receipt, child, files>>
  BY DEF LaunchWorker, PreStart, channels
<1>2. /\ child = "none" /\ ~HasStart /\ ~cleanup.noChild /\ ~cleanup.noWorker
      /\ worker = "none" /\ disk # Absent /\ Len(pipe) = 0
      /\ ~files.prestart /\ files.failure # "noChild"
      /\ ~rec.life.ev.noChild /\ ~disk.life.ev.noChild
  BY <1>1, AtPreStart DEF IndInv, BeforeStart, PipeBound, Types, WorkerTruth
<1>3. CASE Fault /\ Fail(NoWorker) /\ UNCHANGED worker
  <2>1. /\ cleanup' = NoWorker /\ pc' = "failed" /\ UNCHANGED <<persistent, crashes>>
        /\ faults' \in 0..MaxFaults
    BY <1>3, Faults DEF Fail
  <2>2. Types'
    BY <1>1, <1>3, <2>1, CleanupOutcomes DEF IndInv, Types, PCs, Spawning
  <2>3. PipeBound'
    BY <1>1, <1>2, <2>1 DEF PipeBound, PreStart
  <2> QED BY <1>1, <1>2, <1>3, <2>1, <2>2, <2>3, CleanupOutcomes, PreStartDaemon DEF PreStart
<1>4. CASE worker' = "booting" /\ pc' = "bootstrap" /\ NoFault /\ UNCHANGED cleanup
  <2>1. UNCHANGED <<persistent, crashes>> /\ faults' \in 0..MaxFaults
    BY <1>4, Faults
  <2>2. Types'
    BY <1>1, <1>4, <2>1 DEF IndInv, Types, PCs, Spawning
  <2>3. PipeBound' /\ ~HasStart'
    BY <1>1, <1>2, <1>4 DEF PipeBound, HasStart
  <2>4. BeforeStart'
    BY <1>1, <1>2, <1>4, <2>3 DEF BeforeStart
  <2>5. WorkerTruth'
    BY <1>1, <1>2, <1>4 DEF WorkerTruth
  <2> QED BY <1>1, <1>2, <1>4, <2>2, <2>3, <2>4, <2>5, PreStartStep
<1> QED BY <1>3, <1>4 DEF LaunchWorker

LEMMA SendBootstrapStep == IndInv /\ SendBootstrap => IndInv'
<1> SUFFICES ASSUME IndInv, SendBootstrap PROVE IndInv'
  OBVIOUS
<1>1. /\ pc = "bootstrap" /\ pc \in PreStart
      /\ UNCHANGED <<rec, known, disk, cleanup, channel, ready, receipt, worker, child, files>>
  BY DEF SendBootstrap, PreStart, processes
<1>2. /\ child = "none" /\ ~HasStart /\ worker \notin {"creating", "serving"}
      /\ Len(pipe) = 0 /\ pipe \in Seq({"bootstrap", "start", "rollback"})
  BY <1>1, AtPreStart DEF IndInv, PipeBound, Types
<1>3. /\ pc' \in {"ready", "unready"} /\ pc' \in PreStart
      /\ pipe' \in {pipe, Append(pipe, "bootstrap")} /\ (NoFault \/ Fault)
  BY DEF SendBootstrap, PreStart
<1>4. /\ UNCHANGED <<persistent, crashes>> /\ faults' \in 0..MaxFaults
      /\ pipe' \in Seq({"bootstrap", "start", "rollback"}) /\ Len(pipe') <= 1
  <2>1. UNCHANGED <<persistent, crashes>> /\ faults' \in 0..MaxFaults
    BY <1>3, Faults
  <2>2. pipe' \in Seq({"bootstrap", "start", "rollback"}) /\ Len(pipe') <= 1
    <3>1. CASE pipe' = pipe
      BY <1>2, <3>1
    <3>2. CASE pipe' = Append(pipe, "bootstrap")
      BY <1>2, <3>2
    <3> QED BY <1>3, <3>1, <3>2
  <2> QED BY <2>1, <2>2
<1>5. ~HasStart'
  BY <1>2, <1>3, StartFrames DEF HasStart
<1>6. Types'
  BY <1>1, <1>3, <1>4 DEF IndInv, Types, PCs, Spawning
<1>7. PipeBound'
  BY <1>3, <1>4 DEF PipeBound
<1>8. BeforeStart'
  BY <1>1, <1>2, <1>3, <1>5 DEF IndInv, BeforeStart
<1>9. WorkerTruth'
  <2>1. Never' /\ ~cleanup.noChild
    BY <1>1, <1>2, <1>5, AtPreStart DEF Never, MayCreate, HasStart
  <2> QED BY <1>1, <1>3, <2>1 DEF IndInv, WorkerTruth
<1> QED BY <1>1, <1>2, <1>5, <1>6, <1>7, <1>8, <1>9, PreStartStep

LEMMA AwaitReadyStep == IndInv /\ AwaitReady => IndInv'
<1> SUFFICES ASSUME IndInv, AwaitReady PROVE IndInv'
  OBVIOUS
<1>1. /\ pc = "ready" /\ pc \in PreStart /\ pc' \in {"reference", "unready"} /\ pc' \in PreStart
      /\ UNCHANGED <<rec, known, disk, cleanup, channel, pipe, ready, receipt, worker, child, files>>
  BY DEF AwaitReady, PreStart, channels, processes
<1>2. UNCHANGED <<persistent, crashes>> /\ faults' \in 0..MaxFaults
  BY Faults DEF AwaitReady
<1>3. Types'
  BY <1>1, <1>2 DEF IndInv, Types, PCs, Spawning
<1>4. PipeBound'
  BY <1>1 DEF IndInv, PipeBound
<1> QED BY <1>1, <1>3, <1>4, AtPreStart, PreStartDaemon

LEMMA UnreadyStep == IndInv /\ Unready => IndInv'
<1> SUFFICES ASSUME IndInv, Unready PROVE IndInv'
  OBVIOUS
<1>1. /\ pc = "unready" /\ pc \in PreStart /\ pc' = "reap" /\ pc' \in PreStart /\ channel' = "closed"
      /\ rec' \in {rec, [rec EXCEPT !.reference = TRUE]}
      /\ UNCHANGED <<known, disk, cleanup, pipe, ready, receipt, worker, child, files>>
      /\ UNCHANGED <<persistent, crashes, faults>>
  BY DEF Unready, PreStart, processes, bounds
<1>2. RecordOK(rec) /\ ~rec.life.ev.noChild
  BY <1>1, AtPreStart
<1>3. RecordOK(rec') /\ rec'.life = rec.life
  BY <1>1, <1>2 DEF RecordOK, Records
<1>4. Types'
  BY <1>1, <1>3 DEF IndInv, Types, PCs, Spawning
<1>5. PipeBound'
  BY <1>1 DEF IndInv, PipeBound
<1> QED BY <1>1, <1>2, <1>3, <1>4, <1>5, PreStartDaemon

LEMMA ReapStep == IndInv /\ Reap => IndInv'
<1> SUFFICES ASSUME IndInv, Reap PROVE IndInv'
  OBVIOUS
<1>1. /\ pc = "reap" /\ pc \in PreStart /\ pc' = "failed" /\ pc' \notin PreStart
      /\ UNCHANGED <<rec, known, disk, channel, pipe, ready, receipt, child, files>>
      /\ worker' \in {worker, "exited"}
      /\ cleanup' \in {Outcome(TRUE, FALSE), Unconfirmed}
  BY DEF Reap, PreStart, channels, Fail, WorkerExits
<1>2. cleanup' \in Cleanups /\ ~cleanup'.noChild /\ ~cleanup'.noWorker
  BY <1>1, CleanupOutcomes
<1>3. UNCHANGED <<persistent, crashes>> /\ faults' \in 0..MaxFaults
  BY Faults DEF Reap
<1>4. /\ child = "none" /\ ~HasStart /\ worker \notin {"creating", "serving"}
  BY <1>1, AtPreStart
<1>5. Types'
  BY <1>1, <1>2, <1>3 DEF IndInv, Types, PCs, Spawning
<1>6. PipeBound'
  <2>1. Len(pipe) <= 1
    BY <1>1 DEF IndInv, PipeBound
  <2> QED BY <1>1, <2>1 DEF PipeBound, IndInv, Types
<1>7. ~HasStart'
  BY <1>1, <1>4 DEF HasStart
<1>8. BeforeStart'
  BY <1>1 DEF BeforeStart, PreStart
<1>9. WorkerTruth'
  BY <1>1, <1>2, <1>4 DEF IndInv, WorkerTruth
<1> QED BY <1>1, <1>4, <1>5, <1>6, <1>7, <1>8, <1>9, PreStartStep

LEMMA PersistReferenceStep == IndInv /\ PersistReference => IndInv'
<1> SUFFICES ASSUME IndInv, PersistReference PROVE IndInv'
  OBVIOUS
<1> DEFINE r == [rec EXCEPT !.reference = TRUE, !.attempted = "no"]
<1>1. /\ pc = "reference" /\ pc \in PreStart
      /\ UNCHANGED <<known, cleanup, channel, pipe, ready, receipt, worker, child, files>>
  BY DEF PersistReference, PreStart, channels, processes
<1>2. PICK well \in BOOLEAN : Write(r, well) /\ pc' = IF well THEN "attempt" ELSE "rollback"
  BY DEF PersistReference
<1>3. RecordOK(rec) /\ Writable(rec) /\ ~rec.life.ev.noChild
  BY <1>1, AtPreStart
<1>4. Writable(r) /\ r.life = rec.life /\ r.reference
  BY <1>3 DEF Writable, Records
<1> HIDE DEF r
<1>5. /\ RecordOK(rec') /\ SameSession(r, rec') /\ disk' \in {disk, rec'}
      /\ UNCHANGED <<persistent, crashes>> /\ faults' \in 0..MaxFaults
  BY <1>2, <1>4, WriteRecord DEF IndInv, Types
<1>6. ~rec'.life.ev.noChild /\ rec'.reference
  BY <1>3, <1>4, <1>5 DEF SameSession
<1>7. pc' \in {"attempt", "rollback"}
  BY <1>2
<1>8. Types'
  BY <1>1, <1>5, <1>7 DEF IndInv, Types, PCs, Spawning
<1>9. PipeBound'
  <2>1. Len(pipe) <= 1 /\ Len(pipe) \in Nat
    BY <1>1 DEF IndInv, PipeBound, Types
  <2> QED BY <1>1, <1>7, <2>1 DEF PipeBound, PreStart
<1> QED BY <1>1, <1>5, <1>6, <1>7, <1>8, <1>9, PreStartDaemon

LEMMA PersistAttemptStep == IndInv /\ PersistAttempt => IndInv'
<1> SUFFICES ASSUME IndInv, PersistAttempt PROVE IndInv'
  OBVIOUS
<1>1. /\ pc = "attempt" /\ pc \in PreStart
      /\ UNCHANGED <<known, cleanup, channel, pipe, ready, receipt, worker, child, files>>
  BY DEF PersistAttempt, PreStart, channels, processes
<1>2. PICK well \in BOOLEAN, w \in {[rec EXCEPT !.attempted = "yes", !.life = Written(@)]} :
          /\ disk' \in (IF well THEN {w} ELSE {disk, w})
          /\ rec' = IF well THEN w ELSE [w EXCEPT !.attempted = "no"]
          /\ pc' = IF well THEN "start" ELSE "rollback"
          /\ IF well THEN NoFault ELSE Fault
  BY DEF PersistAttempt
<1>3. RecordOK(rec) /\ Writable(rec) /\ ~rec.life.ev.noChild /\ rec.reference
  BY <1>1, AtPreStart DEF IndInv, BeforeStart
<1> DEFINE r == [rec EXCEPT !.attempted = "yes"]
<1>4. Writable(r) /\ r.life = rec.life /\ r.reference /\ r.attempted = "yes"
  BY <1>3 DEF Writable, Records
<1>5. w = [r EXCEPT !.life = Written(@)]
  BY <1>2, <1>3 DEF Writable, Records
<1> HIDE DEF r
<1>6. RecordOK(w) /\ SameSession(r, w) /\ w # Absent
  BY <1>4, <1>5, WrittenRecord
<1>7. w.reference /\ w.attempted = "yes" /\ ~w.life.ev.noChild
  BY <1>3, <1>4, <1>6 DEF SameSession
<1>8. RecordOK(rec') /\ rec'.life = w.life
  BY <1>2, <1>6 DEF RecordOK, Records
<1>9. UNCHANGED <<persistent, crashes>> /\ faults' \in 0..MaxFaults
  BY <1>2, Faults
<1>10. pc' \in {"start", "rollback"} /\ (pc' = "start" => rec' = w /\ disk' = w)
  BY <1>2
<1>11. Types'
  BY <1>1, <1>2, <1>6, <1>8, <1>9, <1>10 DEF IndInv, Types, PCs, Spawning
<1>12. PipeBound'
  <2>1. Len(pipe) <= 1 /\ Len(pipe) \in Nat
    BY <1>1 DEF IndInv, PipeBound, Types
  <2> QED BY <1>1, <1>10, <2>1 DEF PipeBound, PreStart
<1>13. /\ child = "none" /\ ~HasStart /\ worker \notin {"creating", "serving"}
       /\ disk = Absent => worker = "exited"
       /\ ~disk.life.ev.noChild /\ ~cleanup.noChild
  BY <1>1, AtPreStart
<1>14. ~HasStart' /\ child' = "none" /\ worker' = worker
  BY <1>1, <1>13, SameProcesses
<1>15. BeforeStart'
  BY <1>2, <1>6, <1>7, <1>8, <1>10, <1>13, <1>14 DEF BeforeStart, Traceable
<1>16. WorkerTruth'
  BY <1>1, <1>10, <1>13 DEF IndInv, WorkerTruth
<1> QED BY <1>1, <1>11, <1>12, <1>13, <1>14, <1>15, <1>16, PreStartStep

\* The one step from which a child can come: session.json names the worker
\* and the attempt, or it is gone and so is the worker.
LEMMA SendStartStep == IndInv /\ SendStart => IndInv'
<1> SUFFICES ASSUME IndInv, SendStart PROVE IndInv'
  OBVIOUS
<1>1. /\ pc = "start" /\ pc \in PreStart /\ pc' = "health" /\ pc' \notin PreStart
      /\ pipe' = Append(pipe, "start")
      /\ UNCHANGED <<rec, known, disk, cleanup, channel, ready, receipt, worker, child, files>>
      /\ UNCHANGED <<persistent, crashes, faults>>
  BY DEF SendStart, PreStart, processes, bounds
<1>2. /\ child = "none" /\ (disk = Absent => worker = "exited")
      /\ ~rec.life.ev.noChild /\ ~disk.life.ev.noChild /\ ~cleanup.noChild /\ ~cleanup.noWorker
      /\ Traceable(rec) /\ (disk # Absent => Traceable(disk))
  BY <1>1, AtPreStart DEF IndInv, BeforeStart
<1>3. /\ Len(pipe) <= 1 /\ pipe \in Seq({"bootstrap", "start", "rollback"})
  BY <1>1 DEF IndInv, PipeBound, Types
<1>4. Types'
  BY <1>1, <1>3 DEF IndInv, Types, PCs, Spawning
<1>5. PipeBound'
  BY <1>1, <1>3 DEF PipeBound, PreStart
<1>6. BeforeStart'
  BY <1>1 DEF BeforeStart, PreStart
<1>7. WorkerTruth'
  BY <1>1, <1>2 DEF IndInv, WorkerTruth
<1>8. disk = Absent => ~MayLive'
  BY <1>1, <1>2 DEF MayLive, MayCreate
<1> QED BY <1>1, <1>2, <1>4, <1>5, <1>6, <1>7, <1>8
        DEF IndInv, MayLive, ChildIsTraceable, DeletedNeverRuns, NoChildIsTrue, Traceable

-----------------------------------------------------------------------------
(* The steps after the start *)

\* A session that has a receipt has no child and gets none.
LEMMA ProvenMeansNever ==
    ASSUME IndInv, files.prestart \/ files.failure = "noChild"
    PROVE  Never /\ ~MayLive /\ worker = "exited"
  BY DEF IndInv, WorkerTruth, Never, MayLive, MayCreate

LEMMA NeverMeansNotLive == ASSUME Never PROVE ~MayLive
  BY DEF Never, MayLive

\* A step of the daemon that leaves the pipe and the processes alone.
LEMMA PostStartDaemon ==
    ASSUME IndInv, pc' \notin PreStart, UNCHANGED <<pipe, worker, child, files>>,
           Types', PipeBound',
           cleanup'.noWorker => cleanup'.noChild,
           cleanup'.noChild => pc' = "failed" /\ cleanup'.confirmed /\ Never,
           pc' = "remove" => Never,
           pc' \in Writing /\ MayLive => Traceable(rec'),
           disk' # Absent /\ MayLive => Traceable(disk'),
           disk' = Absent => ~MayLive,
           rec'.life.ev.noChild \/ (disk' # Absent /\ disk'.life.ev.noChild) => Never
    PROVE  IndInv'
<1>1. (MayLive' <=> MayLive) /\ (Never' <=> Never)
  BY SameProcesses
<1>2. WorkerTruth'
  BY <1>1 DEF IndInv, WorkerTruth
<1> QED BY <1>1, <1>2, PostStartStep

LEMMA AwaitHealthStep == IndInv /\ AwaitHealth => IndInv'
<1> SUFFICES ASSUME IndInv, AwaitHealth PROVE IndInv'
  OBVIOUS
<1>1. /\ pc = "health" /\ pc \in Writing
      /\ UNCHANGED <<rec, known, disk, channel, pipe, ready, receipt, worker, child, files>>
  BY DEF AwaitHealth, Writing, channels, processes
<1>2. UNCHANGED <<persistent, crashes>> /\ faults' \in 0..MaxFaults
  BY Faults DEF AwaitHealth
<1>3. \/ pc' \in {"activate", "rollback"} /\ cleanup' = cleanup
      \/ /\ pc' = "failed" /\ files.failure = "noChild" /\ cleanup' = Outcome(TRUE, TRUE)
      \/ /\ pc' = "failed" /\ \E c \in BOOLEAN : cleanup' = Outcome(c, FALSE)
  BY DEF AwaitHealth, Fail
<1>4. ~cleanup.noChild /\ ~cleanup.noWorker
  BY <1>1 DEF IndInv, WorkerTruth
<1>5. /\ cleanup' \in Cleanups /\ ~cleanup'.noWorker
      /\ cleanup'.noChild => pc' = "failed" /\ cleanup'.confirmed /\ Never
  BY <1>3, <1>4, CleanupOutcomes, ProvenMeansNever DEF IndInv, Types
<1>6. pc' \in {"activate", "rollback", "failed"}
  BY <1>3
<1>7. Types'
  BY <1>1, <1>2, <1>5, <1>6 DEF IndInv, Types, PCs, Spawning
<1>8. PipeBound'
  <2>1. Len(pipe) <= 2 /\ Len(pipe) \in Nat
    BY <1>1 DEF IndInv, PipeBound, Types, PreStart
  <2> QED BY <1>1, <1>6, <2>1 DEF PipeBound, PreStart
<1>9. /\ MayLive => Traceable(rec) /\ (disk # Absent => Traceable(disk))
      /\ disk = Absent => ~MayLive
      /\ rec.life.ev.noChild \/ (disk # Absent /\ disk.life.ev.noChild) => Never
  BY <1>1 DEF IndInv, MayLive, ChildIsTraceable, DeletedNeverRuns, NoChildIsTrue, Traceable, Never
<1> QED BY <1>1, <1>5, <1>6, <1>7, <1>8, <1>9, PostStartDaemon DEF PreStart

\* What IndInv says of the record and the disk in any state.
LEMMA AtAnyTime ==
    ASSUME IndInv
    PROVE  /\ RecordOK(rec) /\ Writable(rec)
           /\ pc \in Writing /\ MayLive => Traceable(rec)
           /\ disk # Absent /\ MayLive => Traceable(disk)
           /\ disk = Absent => ~MayLive
           /\ rec.life.ev.noChild \/ (disk # Absent /\ disk.life.ev.noChild) => Never
           /\ pipe \in Seq({"bootstrap", "start", "rollback"}) /\ Len(pipe) \in Nat /\ Len(pipe) <= 3
<1>1. RecordOK(rec) /\ Writable(rec)
  BY RecordIsWritable DEF IndInv, Types
<1>2. pipe \in Seq({"bootstrap", "start", "rollback"}) /\ Len(pipe) \in Nat
  BY DEF IndInv, Types
<1>3. Len(pipe) <= 3
  BY <1>2 DEF IndInv, PipeBound
<1> QED BY <1>1, <1>2, <1>3
        DEF IndInv, MayLive, ChildIsTraceable, DeletedNeverRuns, NoChildIsTrue, Traceable, Never

LEMMA ActivateStep == IndInv /\ Activate => IndInv'
<1> SUFFICES ASSUME IndInv, Activate PROVE IndInv'
  OBVIOUS
<1> DEFINE r == Moved(rec, "worker_ready")
<1>1. /\ pc = "activate" /\ pc \in Writing
      /\ UNCHANGED <<known, cleanup, channel, pipe, ready, receipt, worker, child, files>>
  BY DEF Activate, Writing, channels, processes
<1>2. PICK well \in BOOLEAN : Write(r, well) /\ pc' = IF well THEN "watching" ELSE "rollback"
  BY DEF Activate
<1>3. Writable(r) /\ SameSession(rec, r)
  BY AtAnyTime, MovedRecord DEF Events
<1> HIDE DEF r
<1>4. /\ RecordOK(rec') /\ SameSession(r, rec') /\ disk' \in {disk, rec'}
      /\ UNCHANGED <<persistent, crashes>> /\ faults' \in 0..MaxFaults
  BY <1>2, <1>3, WriteRecord DEF IndInv, Types
<1>5. /\ rec'.life.ev.noChild => rec.life.ev.noChild
      /\ Traceable(rec) => Traceable(rec')
      /\ rec' # Absent
  BY <1>3, <1>4, RecordIsWritable DEF SameSession, Traceable
<1>6. pc' \in {"watching", "rollback"}
  BY <1>2
<1>7. Types'
  BY <1>1, <1>4, <1>6 DEF IndInv, Types, PCs, Spawning
<1>8. PipeBound'
  <2>1. Len(pipe) <= 2 /\ Len(pipe) \in Nat
    BY <1>1 DEF IndInv, PipeBound, Types, PreStart
  <2> QED BY <1>1, <1>6, <2>1 DEF PipeBound, PreStart
<1>9. ~cleanup.noChild /\ ~cleanup.noWorker
  BY <1>1 DEF IndInv, WorkerTruth
<1> QED BY <1>1, <1>4, <1>5, <1>6, <1>7, <1>8, <1>9, AtAnyTime, PostStartDaemon DEF PreStart

LEMMA SendRollbackStep == IndInv /\ SendRollback => IndInv'
<1> SUFFICES ASSUME IndInv, SendRollback PROVE IndInv'
  OBVIOUS
<1>1. /\ pc = "rollback" /\ pc \in Writing /\ pc' = "receipt" /\ pc' \notin PreStart
      /\ channel' = "closed" /\ pipe' \in {pipe, Append(pipe, "rollback")}
      /\ UNCHANGED <<rec, known, disk, cleanup, ready, receipt, worker, child, files>>
      /\ UNCHANGED <<persistent, crashes, faults>>
  BY DEF SendRollback, Writing, PreStart, processes, bounds
<1>2. Len(pipe) <= 2 /\ pipe \in Seq({"bootstrap", "start", "rollback"})
  BY <1>1 DEF IndInv, PipeBound, Types, PreStart
<1>3. pipe' \in Seq({"bootstrap", "start", "rollback"}) /\ Len(pipe') <= 3
  <2>1. CASE pipe' = pipe
    BY <1>2, <2>1
  <2>2. CASE pipe' = Append(pipe, "rollback")
    BY <1>2, <2>2
  <2> QED BY <1>1, <2>1, <2>2
<1>4. HasStart' => HasStart
  BY <1>1, <1>2, StartFrames DEF HasStart
<1>5. (MayLive' => MayLive) /\ (Never => Never')
  BY <1>1, <1>4 DEF MayLive, Never, MayCreate, HasStart
<1>6. Types'
  BY <1>1, <1>3 DEF IndInv, Types, PCs, Spawning
<1>7. PipeBound'
  BY <1>1, <1>3 DEF PipeBound, PreStart
<1>8. WorkerTruth'
  BY <1>1, <1>5 DEF IndInv, WorkerTruth
<1> QED BY <1>1, <1>5, <1>6, <1>7, <1>8, AtAnyTime, PostStartStep

LEMMA AwaitReceiptStep == IndInv /\ AwaitReceipt => IndInv'
<1> SUFFICES ASSUME IndInv, AwaitReceipt PROVE IndInv'
  OBVIOUS
<1>1. /\ pc = "receipt" /\ pc \in Writing /\ pc' = "failed" /\ pc' \notin PreStart
      /\ UNCHANGED <<rec, known, disk, channel, pipe, ready, receipt, worker, child, files>>
  BY DEF AwaitReceipt, Fail, Writing, PreStart, channels, processes
<1>2. UNCHANGED <<persistent, crashes>> /\ faults' \in 0..MaxFaults
  BY Faults DEF AwaitReceipt
<1>3. \/ /\ files.prestart \/ files.failure = "noChild"
         /\ cleanup' = Outcome(TRUE, TRUE)
      \/ \E c \in BOOLEAN : cleanup' = Outcome(c, FALSE)
      \/ cleanup' = Unconfirmed
  BY DEF AwaitReceipt, Fail
<1>4. /\ cleanup' \in Cleanups /\ ~cleanup'.noWorker
      /\ cleanup'.noChild => cleanup'.confirmed /\ Never
  BY <1>3, CleanupOutcomes, ProvenMeansNever
<1>5. Types'
  BY <1>1, <1>2, <1>4 DEF IndInv, Types, PCs, Spawning
<1>6. PipeBound'
  BY <1>1, AtAnyTime DEF PipeBound, PreStart
<1> QED BY <1>1, <1>4, <1>5, <1>6, AtAnyTime, PostStartDaemon

LEMMA SpawnFailedStep == IndInv /\ SpawnFailed => IndInv'
<1> SUFFICES ASSUME IndInv, SpawnFailed PROVE IndInv'
  OBVIOUS
<1> DEFINE e      == [rec.life.ev EXCEPT !.confirmed = cleanup.confirmed, !.noChild = cleanup.noChild]
           failed == [rec EXCEPT !.life = [@ EXCEPT !.ev = e]]
           event  == IF cleanup.noChild THEN "spawn_failed" ELSE "unreachable"
           r      == Moved(failed, event)
<1>1. /\ pc = "failed" /\ pc \in Writing /\ cleanup' = Unconfirmed
      /\ UNCHANGED <<known, channel, pipe, ready, receipt, worker, child, files>>
  BY DEF SpawnFailed, Writing, channels, processes
<1>2. /\ Writable(rec) /\ rec.life \in FlatRecords /\ rec.life.ev \in Evidence
      /\ rec.life.ev.tomb = None /\ cleanup \in Cleanups
      /\ cleanup.noChild => cleanup.confirmed /\ Never
      /\ cleanup.noWorker => Never
  BY AtAnyTime DEF Writable, Loose, Fits, IndInv, Types, WorkerTruth
<1>3. [rec EXCEPT !.life.ev.confirmed = cleanup.confirmed, !.life.ev.noChild = cleanup.noChild] = failed
  BY <1>2 DEF Writable, Records, FlatRecords, Evidence
<1>4. PICK well \in BOOLEAN : /\ Write(r, well)
                              /\ pc' = IF well /\ cleanup.noWorker THEN "remove" ELSE "idle"
  BY <1>3 DEF SpawnFailed
<1>5. e \in Evidence /\ e.tomb = None /\ e.noChild = cleanup.noChild /\ e.confirmed = cleanup.confirmed
  BY <1>2 DEF Evidence, Cleanups
<1>6. event \in Events
  BY DEF Events
<1> HIDE DEF e, event
<1>7. /\ Writable(failed) /\ failed.life.ev = e
      /\ failed.reference = rec.reference /\ failed.attempted = rec.attempted
  <2> DEFINE q == [rec.life EXCEPT !.ev = e]
  <2>1. q \in FlatRecords /\ q.state = rec.life.state /\ q.ev = e
    BY <1>2, <1>5 DEF FlatRecords
  <2>2. Fits(e, rec.life.state)
    BY <1>2, <1>5 DEF Fits, Writable, Loose
  <2>3. Loose(q)
    BY <1>2, <2>1, <2>2 DEF Loose, Writable
  <2>4. failed = [rec EXCEPT !.life = q]
    OBVIOUS
  <2> HIDE DEF q
  <2> QED BY <1>2, <1>5, <2>1, <2>3, <2>4 DEF Writable, Records
<1> HIDE DEF failed
<1>8. Writable(r) /\ SameSession(failed, r)
  BY <1>6, <1>7, MovedRecord
<1> HIDE DEF r
<1>9. /\ RecordOK(rec') /\ SameSession(r, rec') /\ disk' \in {disk, rec'}
      /\ UNCHANGED <<persistent, crashes>> /\ faults' \in 0..MaxFaults
  BY <1>4, <1>8, WriteRecord DEF IndInv, Types
<1>10. /\ rec'.life.ev.noChild => Never
       /\ Traceable(rec) => Traceable(rec')
       /\ rec' # Absent
  BY <1>2, <1>5, <1>7, <1>8, <1>9, RecordIsWritable DEF SameSession, Traceable
<1>11. pc' \in {"idle", "remove"} /\ (pc' = "remove" => Never)
  BY <1>2, <1>4
<1>12. Types'
  BY <1>1, <1>9, <1>11, CleanupOutcomes DEF IndInv, Types, PCs, Spawning
<1>13. PipeBound'
  BY <1>1, <1>11, AtAnyTime DEF PipeBound, PreStart
<1> QED BY <1>1, <1>9, <1>10, <1>11, <1>12, <1>13, CleanupOutcomes, AtAnyTime, PostStartDaemon
        DEF PreStart, Writing

-----------------------------------------------------------------------------
(* Deletion *)

LEMMA DeleteTypes ==
    ASSUME IndInv, Delete
    PROVE  /\ disk' = Absent /\ known' = FALSE /\ files' \in Files
           /\ ~files'.prestart /\ files'.failure # "noChild"
  BY DEF Delete, NoFiles, Files

\* A deletion by the spawn, or by a daemon that has loaded the record, is
\* right when there is no child and none is coming.
LEMMA DeletePostStart ==
    ASSUME IndInv, Delete, ~MayLive, pc' = "idle",
           UNCHANGED <<rec, cleanup, channel, pipe, ready, receipt, worker, child, persistent, crashes>>,
           faults' \in 0..MaxFaults, ~cleanup.noChild, ~cleanup.noWorker
    PROVE  IndInv'
<1>1. /\ disk' = Absent /\ known' = FALSE /\ files' \in Files
      /\ ~files'.prestart /\ files'.failure # "noChild"
  BY DeleteTypes
<1>2. (MayLive' <=> MayLive) /\ (Never' <=> Never)
  BY SameProcesses
<1>3. Types'
  BY <1>1 DEF IndInv, Types, PCs
<1>4. PipeBound'
  BY AtAnyTime DEF PipeBound, PreStart
<1>5. WorkerTruth'
  BY <1>1 DEF IndInv, WorkerTruth
<1> QED BY <1>1, <1>2, <1>3, <1>4, <1>5, AtAnyTime, PostStartStep DEF PreStart, Writing

LEMMA RemoveFailedStep == IndInv /\ RemoveFailed => IndInv'
<1> SUFFICES ASSUME IndInv, RemoveFailed PROVE IndInv'
  OBVIOUS
<1>1. /\ pc = "remove" /\ pc' = "idle"
      /\ UNCHANGED <<rec, cleanup, channel, pipe, ready, receipt, worker, child>>
      /\ Delete \/ UNCHANGED <<known, disk, files>>
  BY DEF RemoveFailed, channels
<1>2. UNCHANGED <<persistent, crashes>> /\ faults' \in 0..MaxFaults
  BY Faults DEF RemoveFailed
<1>3. Never /\ ~cleanup.noChild /\ ~cleanup.noWorker
  BY <1>1 DEF IndInv, WorkerTruth
<1>4. CASE Delete
  BY <1>1, <1>2, <1>3, <1>4, NeverMeansNotLive, DeletePostStart
<1>5. CASE UNCHANGED <<known, disk, files>>
  <2>1. Types'
    BY <1>1, <1>2, <1>5 DEF IndInv, Types, PCs
  <2>2. PipeBound'
    BY <1>1, AtAnyTime DEF PipeBound, PreStart
  <2> QED BY <1>1, <1>3, <1>5, <2>1, <2>2, AtAnyTime, PostStartDaemon DEF PreStart, Writing
<1> QED BY <1>1, <1>4, <1>5

LEMMA ReconcileProvenStep == IndInv /\ ReconcileProven => IndInv'
<1> SUFFICES ASSUME IndInv, ReconcileProven PROVE IndInv'
  OBVIOUS
<1>1. /\ pc = "reconcile" /\ pc' = "idle" /\ Delete /\ ProvenNoChild(rec)
      /\ UNCHANGED <<rec, cleanup, channel, pipe, ready, receipt, worker, child>>
      /\ UNCHANGED <<persistent, crashes, faults>>
  BY DEF ReconcileProven, channels, bounds
<1>2. ~MayLive
  BY <1>1, ProvenMeansNever DEF ProvenNoChild
<1>3. ~cleanup.noChild /\ ~cleanup.noWorker /\ faults \in 0..MaxFaults
  BY <1>1 DEF IndInv, WorkerTruth, Types
<1> QED BY <1>1, <1>2, <1>3, DeletePostStart

\* A worker is shut down or killed: it creates nothing any more.
LEMMA TerminateShrinks ==
    ASSUME IndInv, Terminate, UNCHANGED pipe
    PROVE  /\ worker' = "exited" /\ child' \in {"none", "live", "gone"}
           /\ child = "none" => child' = "none"
           /\ MayLive' => MayLive
           /\ Never => Never'
           /\ ~MayCreate'
  BY DEF Terminate, WorkerExits, MayLive, Never, MayCreate, IndInv, Types

LEMMA CleanupStep == IndInv /\ Cleanup => IndInv'
<1> SUFFICES ASSUME IndInv, Cleanup PROVE IndInv'
  OBVIOUS
<1>1. UNCHANGED <<rec, pc, cleanup, channel, pipe, ready, receipt, persistent, crashes, faults>>
  BY DEF Cleanup, channels, bounds
<1>2. PipeBound'
  BY <1>1 DEF IndInv, PipeBound
<1>3. CASE NoChildSpawnFailure(rec) \/ ProvenNoChild(rec)
  <2>1. Delete /\ UNCHANGED <<worker, child>>
    BY <1>3 DEF Cleanup
  <2>2. /\ disk' = Absent /\ known' = FALSE /\ files' \in Files
        /\ ~files'.prestart /\ files'.failure # "noChild"
    BY <2>1, DeleteTypes
  <2>3. Never
    BY <1>3, ProvenMeansNever, AtAnyTime DEF ProvenNoChild, NoChildSpawnFailure
  <2>4. (MayLive' <=> MayLive) /\ (Never' <=> Never) /\ (HasStart' <=> HasStart) /\ ~MayLive
    BY <1>1, <2>1, <2>3, SameProcesses, NeverMeansNotLive
  <2>5. Types'
    BY <1>1, <2>1, <2>2 DEF IndInv, Types
  <2>6. WorkerTruth'
    BY <1>1, <2>1, <2>2, <2>3, <2>4 DEF IndInv, WorkerTruth
  <2>7. CASE pc \in PreStart
    <3>1. /\ child = "none" /\ ~HasStart /\ worker \notin {"creating", "serving"}
          /\ ~rec.life.ev.noChild
      BY <2>7, AtPreStart
    <3>2. worker = "exited"
      BY <1>3, <3>1, ProvenMeansNever DEF ProvenNoChild, NoChildSpawnFailure
    <3>3. ~Absent.life.ev.noChild
      BY <1>1, <2>7 DEF Absent, Fresh, NewRecord, Project, Plain, NoEvidence
    <3>4. BeforeStart'
      BY <1>1, <2>1, <2>2, <2>4, <3>1, <3>2, <3>3 DEF IndInv, BeforeStart
    <3> QED BY <1>2, <2>1, <2>4, <2>5, <2>6, <2>7, <3>1, <3>4, PreStartStep
  <2>8. CASE pc \notin PreStart
    BY <1>1, <1>2, <2>2, <2>3, <2>4, <2>5, <2>6, <2>8, PostStartStep
  <2> QED BY <2>7, <2>8
<1>4. CASE ~(NoChildSpawnFailure(rec) \/ ProvenNoChild(rec))
  <2>1. /\ Terminate
        /\ \/ worker = "serving" /\ child' = "gone" /\ Delete
           \/ files' \in {files, [files EXCEPT !.descriptor = FALSE]} /\ UNCHANGED <<known, disk>>
    BY <1>4 DEF Cleanup, CleanupLost
  <2>2. /\ worker' = "exited" /\ child' \in {"none", "live", "gone"}
        /\ child = "none" => child' = "none"
        /\ MayLive' => MayLive
        /\ Never => Never'
        /\ ~MayCreate'
    BY <1>1, <2>1, TerminateShrinks
  <2>3. /\ files' \in Files /\ (disk' = Absent \/ disk' = disk) /\ known' \in BOOLEAN
        /\ files'.prestart => files.prestart
        /\ files'.failure = "noChild" => files.failure = "noChild"
        /\ disk' = Absent /\ disk # Absent => child' = "gone" /\ worker = "serving"
    BY <2>1, DeleteTypes DEF IndInv, Types, Files
  <2>4. Types'
    BY <1>1, <2>2, <2>3 DEF IndInv, Types
  <2>5. WorkerTruth'
    BY <1>1, <2>2, <2>3 DEF IndInv, WorkerTruth
  <2>6. CASE pc \in PreStart
    <3>1. /\ child = "none" /\ ~HasStart /\ worker \notin {"creating", "serving"}
          /\ ~rec.life.ev.noChild /\ ~disk.life.ev.noChild
      BY <2>6, AtPreStart
    <3>2. disk' = disk /\ child' = "none" /\ ~HasStart'
      BY <1>1, <2>2, <2>3, <3>1 DEF HasStart
    <3>3. worker # "none"
      BY <2>1 DEF Terminate
    <3>4. BeforeStart'
      BY <1>1, <2>2, <3>1, <3>2, <3>3 DEF IndInv, BeforeStart, Traceable
    <3> QED BY <1>2, <2>2, <2>4, <2>5, <2>6, <3>2, <3>4, PreStartStep
  <2>7. CASE pc \notin PreStart
    <3>1. disk' = Absent => ~MayLive'
      BY <2>2, <2>3, AtAnyTime DEF MayLive
    <3> QED BY <1>1, <1>2, <2>2, <2>3, <2>4, <2>5, <2>7, <3>1, AtAnyTime, PostStartStep DEF Traceable
  <2> QED BY <2>6, <2>7
<1> QED BY <1>3, <1>4

-----------------------------------------------------------------------------
(* The crash, and the next daemon *)

LEMMA CrashStep == IndInv /\ Crash => IndInv'
<1> SUFFICES ASSUME IndInv, Crash PROVE IndInv'
  OBVIOUS
<1>1. /\ pc' = "down" /\ cleanup' = Unconfirmed /\ rec' = Fresh /\ known' = FALSE
      /\ channel' = "orphaned" /\ crashes' = crashes + 1 /\ crashes < MaxCrashes
      /\ UNCHANGED <<disk, pipe, ready, receipt, worker, child, files, persistent, faults>>
  BY DEF Crash, processes
<1>2. crashes' \in 0..MaxCrashes
  BY <1>1, RecoveryBoundsAssumption DEF IndInv, Types
<1>3. Types'
  BY <1>1, <1>2, FreshRecord, CleanupOutcomes DEF IndInv, Types, PCs
<1>4. PipeBound'
  BY <1>1, AtAnyTime DEF PipeBound, PreStart
<1> QED BY <1>1, <1>3, <1>4, FreshRecord, CleanupOutcomes, AtAnyTime, PostStartDaemon
        DEF PreStart, Writing

LEMMA InitializeStep == IndInv /\ Initialize => IndInv'
<1> SUFFICES ASSUME IndInv, Initialize PROVE IndInv'
  OBVIOUS
<1> DEFINE loaded == [disk EXCEPT !.life = Loaded(@.state)]
           marked == [loaded EXCEPT !.life = Written([@ EXCEPT !.pendingCleanup = TRUE])]
<1>1. /\ pc = "down" /\ UNCHANGED <<cleanup, channel, pipe, ready, receipt, worker, child>>
      /\ UNCHANGED <<persistent, crashes, faults>>
  BY DEF Initialize, channels, bounds
<1>2. /\ ~cleanup.noChild /\ ~cleanup.noWorker /\ faults \in 0..MaxFaults
      /\ disk = Absent \/ RecordOK(disk)
  BY <1>1 DEF IndInv, WorkerTruth, Types
<1>3. CASE disk = Absent
  <2>1. pc' = "idle" /\ UNCHANGED <<rec, known, disk, files>>
    BY <1>3 DEF Initialize
  <2>2. Types'
    BY <1>1, <2>1 DEF IndInv, Types, PCs
  <2>3. PipeBound'
    BY <1>1, <2>1, AtAnyTime DEF PipeBound, PreStart
  <2> QED BY <1>1, <1>2, <2>1, <2>2, <2>3, AtAnyTime, PostStartDaemon DEF PreStart, Writing
<1>4. CASE disk # Absent
  <2>1. loaded = disk
    <3>1. RecordOK(disk) /\ disk.life = Project(disk.life.state)
      BY <1>2, <1>4 DEF RecordOK, Settled
    <3> QED BY <3>1 DEF RecordOK, Records, Loaded
  <2>2. CASE NoChildSpawnFailure(loaded) \/ NeverLaunched(loaded)
    <3>1. Delete /\ pc' = "idle" /\ UNCHANGED rec
      BY <1>4, <2>2 DEF Initialize
    <3>2. ~MayLive
      BY <1>4, <2>1, <2>2, AtAnyTime DEF Traceable, NoChildSpawnFailure, NeverLaunched
    <3> QED BY <1>1, <1>2, <3>1, <3>2, DeletePostStart
  <2>3. CASE ~(NoChildSpawnFailure(loaded) \/ NeverLaunched(loaded))
    <3>1. /\ known' = TRUE /\ pc' = "reconcile" /\ UNCHANGED files
          /\ \/ rec' = marked /\ disk' = marked
             \/ rec' = loaded /\ disk' = disk
      BY <1>4, <2>3 DEF Initialize
    <3>2. RecordOK(disk) /\ Writable(disk)
      BY <1>2, <1>4, RecordIsWritable
    <3>3. RecordOK(marked) /\ SameSession(disk, marked) /\ marked # Absent
      <4> DEFINE l == [disk.life EXCEPT !.pendingCleanup = TRUE]
                 b == [disk EXCEPT !.life = l]
      <4>1. l \in FlatRecords /\ l.state = disk.life.state /\ l.ev = disk.life.ev
        BY <3>2 DEF Writable, Loose, FlatRecords
      <4>2. Loose(l)
        BY <3>2, <4>1 DEF Writable, Loose
      <4>3. marked = [disk EXCEPT !.life = Written(l)]
        BY <2>1
      <4> HIDE DEF l
      <4>4. b \in Records /\ b.life = l /\ SameSession(disk, b)
        BY <3>2, <4>1 DEF Writable, Records, SameSession
      <4>5. Writable(b)
        BY <3>2, <4>1, <4>2, <4>4 DEF Writable
      <4>6. marked = [b EXCEPT !.life = Written(@)]
        BY <3>2, <4>3, <4>4 DEF Writable, Records
      <4> HIDE DEF b, marked
      <4> QED BY <4>4, <4>5, <4>6, WrittenRecord DEF SameSession
    <3> HIDE DEF marked, loaded
    <3>4. /\ RecordOK(rec') /\ RecordOK(disk') /\ disk' # Absent
          /\ SameSession(disk, rec') /\ SameSession(disk, disk')
      BY <1>4, <2>1, <3>1, <3>2, <3>3 DEF SameSession
    <3>5. Types'
      BY <1>1, <3>1, <3>4 DEF IndInv, Types, PCs, Recovering
    <3>6. PipeBound'
      BY <1>1, <3>1, AtAnyTime DEF PipeBound, PreStart
    <3>7. /\ MayLive => Traceable(rec') /\ Traceable(disk')
          /\ rec'.life.ev.noChild \/ disk'.life.ev.noChild => Never
      BY <1>4, <3>4, AtAnyTime DEF SameSession, Traceable
    <3> QED BY <1>1, <1>2, <3>1, <3>4, <3>5, <3>6, <3>7, PostStartDaemon DEF PreStart
  <2> QED BY <2>2, <2>3
<1> QED BY <1>3, <1>4

LEMMA ReconcileGivesUpStep == IndInv /\ ReconcileGivesUp => IndInv'
<1> SUFFICES ASSUME IndInv, ReconcileGivesUp PROVE IndInv'
  OBVIOUS
<1>1. /\ pc = "reconcile" /\ pc' = "idle"
      /\ UNCHANGED <<rec, known, disk, cleanup, channel, pipe, ready, receipt, worker, child, files>>
      /\ UNCHANGED <<persistent, crashes, faults>>
  BY DEF ReconcileGivesUp, channels, processes, bounds
<1>2. ~cleanup.noChild /\ ~cleanup.noWorker
  BY <1>1 DEF IndInv, WorkerTruth
<1>3. Types'
  BY <1>1 DEF IndInv, Types, PCs
<1>4. PipeBound'
  BY <1>1, AtAnyTime DEF PipeBound, PreStart
<1> QED BY <1>1, <1>2, <1>3, <1>4, AtAnyTime, PostStartDaemon DEF PreStart, Writing

LEMMA ReconnectStep == IndInv /\ Reconnect => IndInv'
<1> SUFFICES ASSUME IndInv, Reconnect PROVE IndInv'
  OBVIOUS
<1> DEFINE r == Moved(rec, "recovered")
<1>1. /\ pc = "reconcile" /\ pc' \in {"watching", "idle"} /\ rec' \in {rec, r}
      /\ UNCHANGED <<known, disk, cleanup, channel, pipe, ready, receipt, worker, child, files>>
      /\ UNCHANGED <<persistent, crashes, faults>>
  BY DEF Reconnect, channels, processes, bounds
<1>2. ~cleanup.noChild /\ ~cleanup.noWorker
  BY <1>1 DEF IndInv, WorkerTruth
<1>3. RecordOK(r) /\ SameSession(rec, r)
  BY AtAnyTime, MovedRecord DEF Events
<1> HIDE DEF r
<1>4. RecordOK(rec') /\ (rec'.life.ev.noChild => Never)
  BY <1>1, <1>3, AtAnyTime DEF SameSession
<1>5. Types'
  BY <1>1, <1>4 DEF IndInv, Types, PCs
<1>6. PipeBound'
  BY <1>1, AtAnyTime DEF PipeBound, PreStart
<1> QED BY <1>1, <1>2, <1>4, <1>5, <1>6, AtAnyTime, PostStartDaemon DEF PreStart, Writing

LEMMA ReconnectFailsStep == IndInv /\ ReconnectFails => IndInv'
<1> SUFFICES ASSUME IndInv, ReconnectFails PROVE IndInv'
  OBVIOUS
<1> DEFINE r == Moved(rec, "unreachable")
           l == [r.life EXCEPT !.ev.noChild = FALSE]
           b == [r EXCEPT !.life = l]
           w == [r EXCEPT !.life = Written([@ EXCEPT !.ev.noChild = FALSE])]
<1>1. /\ pc = "reconcile" /\ pc \in Writing /\ pc' = "idle" /\ rec' = w /\ disk' = w
      /\ UNCHANGED <<known, cleanup, channel, pipe, ready, receipt>>
      /\ \/ Terminate /\ files' \in {files, [files EXCEPT !.descriptor = FALSE]}
         \/ UNCHANGED <<worker, child, files>>
  BY DEF ReconnectFails, channels, processes, Writing
<1>2. UNCHANGED <<persistent, crashes>> /\ faults' \in 0..MaxFaults
  BY Faults DEF ReconnectFails
<1>3. ~cleanup.noChild /\ ~cleanup.noWorker
  BY <1>1 DEF IndInv, WorkerTruth
<1>4. RecordOK(r) /\ Writable(r) /\ SameSession(rec, r)
  BY AtAnyTime, MovedRecord DEF Events
<1>5. w = [b EXCEPT !.life = Written(@)]
  BY <1>4 DEF RecordOK, Records
<1>6. Writable(b) /\ ~b.life.ev.noChild /\ b.reference = rec.reference /\ b.attempted = rec.attempted
  <2> HIDE DEF r
  <2> DEFINE e == [r.life.ev EXCEPT !.noChild = FALSE]
  <2>1. r.life \in FlatRecords /\ r.life.ev \in Evidence /\ Fits(r.life.ev, r.life.state)
    BY <1>4 DEF Writable, Loose, Fits
  <2>2. /\ e \in Evidence /\ ~e.noChild /\ e.tomb = r.life.ev.tomb
        /\ e.confirmed = r.life.ev.confirmed /\ e.directExited = r.life.ev.directExited
    BY <2>1 DEF Evidence
  <2>3. Fits(e, r.life.state)
    BY <2>1, <2>2 DEF Fits
  <2>4. l = [r.life EXCEPT !.ev = e]
    BY <2>1 DEF FlatRecords, Evidence
  <2> HIDE DEF e
  <2>5. l \in FlatRecords /\ l.state = r.life.state /\ l.ev = e
    BY <2>1, <2>2, <2>4 DEF FlatRecords
  <2>6. Loose(l)
    BY <1>4, <2>3, <2>5 DEF Writable, Loose
  <2> HIDE DEF l
  <2> QED BY <1>4, <2>2, <2>5, <2>6 DEF Writable, Records, SameSession
<1> HIDE DEF b, r, w
<1>7. RecordOK(w) /\ SameSession(b, w) /\ w # Absent
  BY <1>5, <1>6, WrittenRecord
<1>8. /\ (MayLive' => MayLive) /\ (Never => Never')
      /\ files' \in Files /\ worker' \in {worker, "exited"} /\ child' \in {"none", "live", "gone"}
      /\ child = "none" => child' = "none"
      /\ files'.prestart => files.prestart
      /\ files'.failure = "noChild" => files.failure = "noChild"
      /\ worker' = "exited" \/ (worker' = worker /\ child' = child)
  <2>1. CASE Terminate /\ files' \in {files, [files EXCEPT !.descriptor = FALSE]}
    <3>1. files' \in Files /\ files'.prestart = files.prestart /\ files'.failure = files.failure
      BY <2>1 DEF IndInv, Types, Files
    <3> QED BY <1>1, <2>1, <3>1, TerminateShrinks
  <2>2. CASE UNCHANGED <<worker, child, files>>
    BY <1>1, <2>2, SameProcesses DEF IndInv, Types
  <2> QED BY <1>1, <2>1, <2>2
<1>9. Types'
  BY <1>1, <1>2, <1>7, <1>8 DEF IndInv, Types, PCs
<1>10. PipeBound'
  BY <1>1, AtAnyTime DEF PipeBound, PreStart
<1>11. WorkerTruth'
  BY <1>1, <1>3, <1>8 DEF IndInv, WorkerTruth
<1>12. /\ MayLive => Traceable(w)
       /\ ~w.life.ev.noChild
  BY <1>1, <1>6, <1>7, AtAnyTime DEF SameSession, Traceable
<1> QED BY <1>1, <1>7, <1>8, <1>9, <1>10, <1>11, <1>12, PostStartStep DEF PreStart, Writing

-----------------------------------------------------------------------------
(* The worker and its child *)

LEMMA BootStep == IndInv /\ Boot => IndInv'
<1> SUFFICES ASSUME IndInv, Boot PROVE IndInv'
  OBVIOUS
<1>1. /\ worker = "booting" /\ worker' \in {"announcing", "exited"}
      /\ files' \in {files, [files EXCEPT !.descriptor = TRUE]}
      /\ pipe' = pipe \/ (pipe # <<>> /\ pipe' = Tail(pipe))
      /\ UNCHANGED daemon /\ UNCHANGED <<channel, ready, receipt, child, persistent, crashes, faults>>
  BY DEF Boot, bounds, WorkerExits, Receives
<1>2. /\ pipe' \in Seq({"bootstrap", "start", "rollback"}) /\ Len(pipe') <= Len(pipe)
      /\ HasStart' => HasStart
  <2>1. CASE pipe' = pipe
    BY <2>1, AtAnyTime DEF HasStart
  <2>2. CASE pipe # <<>> /\ pipe' = Tail(pipe)
    <3>1. HasStart' => HasStart
      BY <2>2, AtAnyTime, StartFrames
    <3>2. pipe' \in Seq({"bootstrap", "start", "rollback"}) /\ Len(pipe') <= Len(pipe)
      BY <2>2, AtAnyTime
    <3> QED BY <3>1, <3>2
  <2> QED BY <1>1, <2>1, <2>2
<1>3. (MayLive' => MayLive) /\ (Never => Never')
  BY <1>1, <1>2 DEF MayLive, Never, MayCreate, HasStart
<1>4. /\ files' \in Files /\ files'.prestart = files.prestart /\ files'.failure = files.failure
  BY <1>1 DEF IndInv, Types, Files
<1>5. Types'
  BY <1>1, <1>2, <1>4 DEF IndInv, Types, daemon
<1>6. child = "none" /\ ~files.prestart /\ files.failure # "noChild"
  BY <1>1 DEF IndInv, WorkerTruth
<1>7. pc \in PreStart => ~HasStart
  BY AtPreStart
<1> QED BY <1>1, <1>2, <1>3, <1>4, <1>5, <1>6, <1>7, WorkerKeeps

LEMMA AnnounceStep == IndInv /\ Announce => IndInv'
<1> SUFFICES ASSUME IndInv, Announce PROVE IndInv'
  OBVIOUS
<1>1. /\ worker = "announcing" /\ worker' \in {"waiting", "exited"} /\ ready' \in {ready, TRUE}
      /\ UNCHANGED daemon
      /\ UNCHANGED <<channel, pipe, receipt, child, files, persistent, crashes, faults>>
  BY DEF Announce, bounds, WorkerExits
<1>2. HasStart' <=> HasStart
  BY <1>1 DEF HasStart
<1>3. (MayLive' => MayLive) /\ (Never => Never')
  BY <1>1, <1>2 DEF MayLive, Never, MayCreate, HasStart
<1>4. Types'
  <2>1. ready' \in BOOLEAN
    BY <1>1 DEF IndInv, Types
  <2> QED BY <1>1, <2>1 DEF IndInv, Types, daemon
<1>5. child = "none" /\ ~files.prestart /\ files.failure # "noChild"
  BY <1>1 DEF IndInv, WorkerTruth
<1>6. (pc \in PreStart => ~HasStart) /\ Len(pipe') <= Len(pipe)
  BY <1>1, AtPreStart, AtAnyTime
<1> QED BY <1>1, <1>2, <1>3, <1>4, <1>5, <1>6, WorkerKeeps

LEMMA ControlStep == IndInv /\ Control => IndInv'
<1> SUFFICES ASSUME IndInv, Control PROVE IndInv'
  OBVIOUS
<1>1. /\ worker = "waiting"
      /\ UNCHANGED daemon /\ UNCHANGED <<channel, ready, receipt, child, persistent, crashes, faults>>
  BY DEF Control, bounds
<1>2. child = "none" /\ ~files.prestart /\ files.failure # "noChild"
  BY <1>1 DEF IndInv, WorkerTruth
<1>3. pc \in PreStart => ~HasStart
  BY AtPreStart
<1>4. CASE Receives("start") /\ pipe' = Tail(pipe) /\ worker' = "creating" /\ UNCHANGED files
  <2>1. HasStart /\ pipe # <<>>
    BY <1>4, AtAnyTime, StartFrames DEF Receives
  <2>2. pipe' \in Seq({"bootstrap", "start", "rollback"}) /\ Len(pipe') <= Len(pipe)
    BY <1>4, <2>1, AtAnyTime
  <2>3. MayLive /\ ~Never
    BY <1>1, <2>1 DEF MayLive, Never, MayCreate, HasStart
  <2>4. Types'
    BY <1>1, <1>4, <2>2 DEF IndInv, Types, daemon
  <2> QED BY <1>1, <1>2, <1>3, <1>4, <2>1, <2>2, <2>3, <2>4, WorkerKeeps
<1>5. CASE pipe' = <<>> /\ WorkerExits /\ files' = [files EXCEPT !.prestart = disk # Absent]
  <2>1. worker' = "exited" /\ ~MayCreate' /\ ~HasStart'
    BY <1>5 DEF WorkerExits, MayCreate, HasStart
  <2>2. (MayLive' => MayLive) /\ (Never => Never')
    BY <1>1, <2>1 DEF MayLive, Never
  <2>3. files' \in Files
    BY <1>5 DEF IndInv, Types, Files
  <2>4. pipe' \in Seq({"bootstrap", "start", "rollback"}) /\ Len(pipe') <= Len(pipe)
    BY <1>5, AtAnyTime
  <2>5. Types'
    BY <1>1, <2>1, <2>3, <2>4 DEF IndInv, Types, daemon
  <2> QED BY <1>1, <1>2, <2>1, <2>2, <2>4, <2>5, WorkerKeeps
<1> QED BY <1>4, <1>5 DEF Control

LEMMA CreateChildStep == IndInv /\ CreateChild => IndInv'
<1> SUFFICES ASSUME IndInv, CreateChild PROVE IndInv'
  OBVIOUS
<1>1. /\ worker = "creating" /\ UNCHANGED daemon
      /\ UNCHANGED <<channel, pipe, ready, receipt, persistent, crashes, faults>>
  BY DEF CreateChild, channels, bounds
<1>2. /\ \/ worker' = "serving" /\ child' = "live" /\ files' = files
         \/ worker' = "exited" /\ child' = child /\ files' = [files EXCEPT !.failure = "noChild"]
         \/ /\ worker' = "exited" /\ child' \in {"live", "gone"}
            /\ \E kept \in {files.descriptor, FALSE} :
                  files' = [files EXCEPT !.failure = "child", !.descriptor = kept]
  BY DEF CreateChild, WorkerExits
<1>3. child = "none" /\ ~files.prestart /\ files.failure # "noChild"
  BY <1>1 DEF IndInv, WorkerTruth
<1>4. MayLive /\ ~Never /\ pc \notin PreStart
  BY <1>1, AtPreStart DEF MayLive, Never, MayCreate
<1>5. /\ files' \in Files /\ ~files'.prestart
      /\ files'.failure = "noChild" => worker' = "exited" /\ child' = "none"
  BY <1>2, <1>3 DEF IndInv, Types, Files
<1>6. Types'
  BY <1>1, <1>2, <1>3, <1>5 DEF IndInv, Types, daemon
<1>7. Len(pipe') <= Len(pipe)
  BY <1>1, AtAnyTime
<1> QED BY <1>1, <1>2, <1>4, <1>5, <1>6, <1>7, WorkerKeeps

LEMMA ObeyRollbackStep == IndInv /\ ObeyRollback => IndInv'
<1> SUFFICES ASSUME IndInv, ObeyRollback PROVE IndInv'
  OBVIOUS
<1>1. /\ worker = "serving" /\ worker' = "exited" /\ pipe # <<>> /\ pipe' = Tail(pipe)
      /\ child' \in {child, "gone"} /\ receipt' = TRUE
      /\ files' = [files EXCEPT !.descriptor = FALSE]
      /\ UNCHANGED daemon /\ UNCHANGED <<channel, ready, persistent, crashes, faults>>
  BY DEF ObeyRollback, bounds, WorkerExits, Receives
<1>2. child # "none" /\ ~files.prestart /\ files.failure # "noChild"
  BY <1>1 DEF IndInv, WorkerTruth
<1>3. pipe' \in Seq({"bootstrap", "start", "rollback"}) /\ Len(pipe') <= Len(pipe)
  BY <1>1, AtAnyTime
<1>4. ~Never /\ ~MayCreate' /\ pc \notin PreStart
  BY <1>1, <1>2, AtPreStart DEF Never, MayCreate
<1>5. MayLive' => MayLive
  BY <1>1, <1>4 DEF MayLive
<1>6. files' \in Files /\ ~files'.prestart /\ files'.failure # "noChild"
  BY <1>1, <1>2 DEF IndInv, Types, Files
<1>7. Types'
  BY <1>1, <1>3, <1>6 DEF IndInv, Types, daemon
<1> QED BY <1>1, <1>3, <1>4, <1>5, <1>6, <1>7, WorkerKeeps

LEMMA ChildExitsStep == IndInv /\ ChildExits => IndInv'
<1> SUFFICES ASSUME IndInv, ChildExits PROVE IndInv'
  OBVIOUS
<1>1. /\ child = "live" /\ child' = "gone" /\ UNCHANGED daemon
      /\ UNCHANGED <<channel, pipe, ready, receipt, worker, files, persistent, crashes, faults>>
  BY DEF ChildExits, channels, bounds
<1>2. MayLive /\ ~Never /\ pc \notin PreStart
  BY <1>1, AtPreStart DEF MayLive, Never
<1>3. /\ worker \notin {"none", "booting", "announcing", "waiting", "creating"}
      /\ ~files.prestart /\ files.failure # "noChild"
  BY <1>1 DEF IndInv, WorkerTruth
<1>4. Types'
  BY <1>1 DEF IndInv, Types, daemon
<1>5. Len(pipe') <= Len(pipe)
  BY <1>1, AtAnyTime
<1> QED BY <1>1, <1>2, <1>3, <1>4, <1>5, WorkerKeeps

LEMMA WorkerDiesStep == IndInv /\ WorkerDies => IndInv'
<1> SUFFICES ASSUME IndInv, WorkerDies PROVE IndInv'
  OBVIOUS
<1>1. /\ worker \notin {"none", "exited"} /\ worker' = "exited" /\ UNCHANGED daemon
      /\ UNCHANGED <<channel, pipe, ready, receipt, child, files, persistent, crashes>>
      /\ faults' \in 0..MaxFaults
  BY Faults DEF WorkerDies, channels, WorkerExits, Fault
<1>2. ~MayCreate' /\ (HasStart' <=> HasStart)
  BY <1>1 DEF MayCreate, HasStart
<1>3. (MayLive' => MayLive) /\ (Never => Never')
  BY <1>1, <1>2 DEF MayLive, Never
<1>4. ~files.prestart /\ files.failure # "noChild"
  BY <1>1 DEF IndInv, WorkerTruth
<1>5. Types'
  BY <1>1 DEF IndInv, Types, daemon
<1>6. Len(pipe') <= Len(pipe) /\ (pc \in PreStart => child = "none" /\ ~HasStart)
  BY <1>1, AtAnyTime, AtPreStart
<1> QED BY <1>1, <1>2, <1>3, <1>4, <1>5, <1>6, WorkerKeeps

-----------------------------------------------------------------------------
(* The theorems *)

LEMMA StutterIndInv == IndInv /\ UNCHANGED vars => IndInv'
<1> SUFFICES ASSUME IndInv, UNCHANGED vars PROVE IndInv'
  OBVIOUS
<1>1. UNCHANGED <<rec, known, disk, pc, cleanup, channel, pipe, ready, receipt, worker, child,
                  files, persistent, crashes, faults>>
  BY DEF vars, daemon, channels, processes, bounds
<1> QED BY <1>1 DEF IndInv, Types, PipeBound, BeforeStart, WorkerTruth, HasStart, MayLive, Never,
        MayCreate, ChildIsTraceable, DeletedNeverRuns, NoChildIsTrue, RecordOK, Traceable

LEMMA NextIndInv == IndInv /\ [Next]_vars => IndInv'
<1> SUFFICES ASSUME IndInv, [Next]_vars PROVE IndInv'
  OBVIOUS
<1>1. CASE SpawnStep
  BY <1>1, PersistPrestartStep, LaunchWorkerStep, SendBootstrapStep, AwaitReadyStep, UnreadyStep,
     ReapStep, PersistReferenceStep, PersistAttemptStep, SendStartStep, AwaitHealthStep,
     ActivateStep, SendRollbackStep, AwaitReceiptStep, SpawnFailedStep, RemoveFailedStep
     DEF SpawnStep
<1>2. CASE WorkerStep
  BY <1>2, BootStep, AnnounceStep, ControlStep, CreateChildStep, ObeyRollbackStep DEF WorkerStep
<1>3. CASE RecoveryStep
  BY <1>3, InitializeStep, ReconcileProvenStep, ReconcileGivesUpStep, ReconnectStep,
     ReconnectFailsStep DEF RecoveryStep
<1>4. CASE Cleanup \/ Crash
  BY <1>4, CleanupStep, CrashStep
<1>5. CASE ChildExits \/ WorkerDies
  BY <1>5, ChildExitsStep, WorkerDiesStep
<1> QED BY <1>1, <1>2, <1>3, <1>4, <1>5, StutterIndInv DEF Next

\* The inductive invariant of a start and its recovery, for any number of
\* daemon crashes and faults.
THEOREM RecoveryInvariant == Spec => []IndInv
<1> QED BY InitIndInv, NextIndInv, PTL DEF Spec

\* Type correctness: the record in memory and the one on disk stay records the
\* validator accepts, and at most three frames wait on the worker's stdin.
THEOREM RecoveryTypeCorrect == Spec => []TypeOK
<1>1. IndInv => TypeOK
  <2> SUFFICES ASSUME IndInv PROVE TypeOK
    OBVIOUS
  <2>1. Len(pipe) <= 3
    <3>1. Len(pipe) \in Nat
      BY DEF IndInv, Types
    <3> QED BY <3>1 DEF IndInv, PipeBound
  <2> QED BY <2>1 DEF IndInv, Types, TypeOK, RecordOK
<1> QED BY <1>1, RecoveryInvariant, PTL

\* A session directory is only deleted when its child is gone, or never was
\* and never will be (initialize, reconcileWorker, cleanup, spawn).
THEOREM DeletedNeverRunsHolds == Spec => []DeletedNeverRuns
<1>1. IndInv => DeletedNeverRuns
  BY DEF IndInv
<1> QED BY <1>1, RecoveryInvariant, PTL

\* Whenever there may be a child, session.json names its worker and says that
\* a start was attempted, wherever the daemon crashed (persistWorker, start).
THEOREM ChildIsTraceableHolds == Spec => []ChildIsTraceable
<1>1. IndInv => ChildIsTraceable
  BY DEF IndInv
<1> QED BY <1>1, RecoveryInvariant, PTL

\* A record that claims that no child was created is right for good, however
\* late the worker's receipts came (noChildCleanup, reconcileWorker).
THEOREM NoChildIsTrueHolds == Spec => []NoChildIsTrue
<1>1. IndInv => NoChildIsTrue
  BY DEF IndInv
<1> QED BY <1>1, RecoveryInvariant, PTL
=============================================================================
