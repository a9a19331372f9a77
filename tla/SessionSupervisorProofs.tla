----------------------- MODULE SessionSupervisorProofs ----------------------
(***************************************************************************)
(* Nothing that has a child is deleted, and nothing that is shown as        *)
(* running is left unwatched, for any number of calls and faults.           *)
(*                                                                          *)
(* Both rest on what waits in the mutation lane: a queued deletion was      *)
(* justified when it was queued and must still be when its turn comes, and  *)
(* a queued finalization still finds a child that has ended.  The invariant *)
(* therefore speaks of every queued job, of the step its head has reached,  *)
(* and of the evidence in the record and in snapshots on their way.  The    *)
(* lifecycle lemmas turn a terminal status into that evidence.              *)
(***************************************************************************)
EXTENDS SessionSupervisor, LifecycleReducerProofs, SequenceTheorems, TLAPS

\* A state shown as starting, running or stopping.
Live(s) == Status(s) \in ActiveStatuses
Active == Live(rec.state)

\* A state that no event has reached yet.
Begun(s) == s.kind = "creating" \/ (s.kind = "cleaning" /\ s.target = "creating")

\* No child is left, and none will be created.
Childless == child \in {"none", "gone"} /\ pc["spawn"] # "starting"

\* The worker's next snapshot is a terminal one.
Over == NativeTerminal(CurrentSnapshot(child, out))

\* Evidence that says no more than what is true.
TrueEvidence(ev) ==
    /\ ev \in Evidence /\ ev.tomb = None
    /\ ev.drained => child = "gone"
    /\ ev.noChild => child = "none" /\ pc["spawn"] # "starting"

SnapshotOK(s) == s \in Snapshots /\ TrueEvidence(s.ev) /\ ~s.ev.noChild

\* A job that waits in the lane.
JobOK(j) ==
    /\ j \in Jobs /\ SnapshotOK(j.snap)
    /\ j.op = "delete" => Childless /\ ~Active
    /\ j.op = "finalize" => NativeTerminal(j.snap) /\ Over
    /\ j.op \in {"finish", "finalize", "rollback"} => pc["spawn"] # "starting"
    /\ j.by = "monitor" => j.op \in {"finish", "finalize", "rollback"}
    /\ j.by = "spawn" => j.op = "delete"

LaneInv ==
    /\ lane \in Seq(Jobs) /\ step \in Steps /\ version \in Nat /\ noted \in Nat
    /\ \A i \in 1..Len(lane) : JobOK(lane[i])

\* How far the head of the lane has come.
HeadInv ==
    /\ SnapshotOK(laneSnap)
    /\ step # "begin" => lane # <<>>
    /\ step \in {"stopRpc", "finalRpc", "finish", "shutdownRpc", "rollbackRpc"} => attached
    /\ step = "finalRpc" => Over
    /\ step = "stopRpc" => lane[1].by # "monitor"
    /\ step = "finish" => lane[1].by # "monitor" \/ NativeTerminal(laneSnap)
    /\ step = "shutdownRpc" => ~Active
    /\ step = "rm" => Childless /\ ~Active

ActorInv ==
    /\ pc \in [Actors -> PCs]
    /\ pc["spawn"] \in {"starting", "queued", "done"}
    /\ pc["spawn"] = "starting" => child = "none"
    /\ \A a \in Actors : pc[a] \in {"watching", "failed", "syncing"} => pc["spawn"] # "starting"
    /\ \A a \in Actors : pc[a] \in Shutdowns => pc["spawn"] # "starting" /\ ~Active

RecordInv ==
    /\ Settled(rec) /\ TrueEvidence(rec.ev)
    /\ rec.ev.noChild => ~Active
    /\ attached => pc["spawn"] = "done" /\ rec.state.kind # "creating"
    /\ pc["spawn"] = "starting" => Begun(rec.state)
    /\ present \in BOOLEAN /\ stored \in BOOLEAN /\ attached \in BOOLEAN
    /\ child \in {"none", "live", "residue", "gone"} /\ out \in {"open", "complete", "incomplete"}

IndInv ==
    /\ LaneInv /\ HeadInv /\ ActorInv /\ RecordInv
    /\ ~present \/ ~stored => Childless
    /\ RunningIsWatched

-----------------------------------------------------------------------------
(* The lifecycle: what is over stays over *)

USE DEF None, Outcomes, ActiveKinds, Known, Kinds

\* What a status shows as active, in terms of the state.
LEMMA LiveKinds ==
    ASSUME NEW s, Sound(s)
    PROVE  Live(s) <=> s.kind \in ActiveKinds \/ (s.kind = "cleaning" /\ s.target \in ActiveKinds)
  <1>1. s \in States /\ ValidState(s)
    BY DEF Sound
  <1>2. s.kind \in Kinds /\ s.target \in Known \cup {None} /\ s.outcome \in Outcomes \cup {None}
    BY <1>1 DEF States
  <1>3. s.kind = "cleaning" => s.target # None
    BY <1>1 DEF ValidState
  <1>4. CASE s.kind = "cleaning"
    BY <1>2, <1>3, <1>4 DEF Live, Status, ActiveStatuses
  <1>5. CASE s.kind # "cleaning"
    BY <1>2, <1>5 DEF Live, Status, ActiveStatuses
  <1> QED BY <1>4, <1>5

\* The refresh changes neither whether a state is shown as active, nor what
\* has not begun.
LEMMA RefreshLive ==
    ASSUME NEW s, NEW ev, NEW pending \in BOOLEAN, NEW t,
           Sound(s), Fits(ev, s), t = Refresh(s, ev, pending)
    PROVE  /\ Sound(t) /\ (Live(t) <=> Live(s))
           /\ t.kind = "creating" => s.kind = "creating"
           /\ Begun(s) => Begun(t)
  <1>1. Sound(t) /\ s \in States
    BY RefreshSound DEF Sound
  <1>2. s.kind \in Kinds /\ s.target \in Known \cup {None}
    BY <1>1 DEF States
  <1> DEFINE fresh == [s EXCEPT !.ev = ev]
  <1>3. fresh.kind = s.kind /\ fresh.target = s.target
    BY <1>1 DEF States
  <1>4. CASE s.kind = "terminal" \/ (s.kind = "cleaning" /\ s.target = "terminal")
    <2>1. t.kind \in {"terminal", "unreachable"}
          \/ (t.kind = "cleaning" /\ t.target \in {"terminal", "unreachable"})
      BY <1>4 DEF Refresh, TerminalOrUnreachable, Terminal, Unreachable, Cleaning
    <2> QED BY <2>1, <1>1, <1>4, LiveKinds DEF Begun
  <1>5. CASE s.kind # "terminal" /\ ~(s.kind = "cleaning" /\ s.target = "terminal")
    <2> HIDE DEF fresh
    <2>1. t = IF pending /\ s.kind # "cleaning" THEN ToCleaning(fresh) ELSE fresh
      BY <1>5 DEF Refresh, fresh
    <2>2. CASE t = fresh
      BY <2>2, <1>1, <1>3, LiveKinds DEF Begun
    <2>3. CASE t = ToCleaning(fresh) /\ s.kind # "cleaning"
      <3>1. t.kind = "cleaning" /\ t.target = s.kind
        BY <2>3, <1>3, <1>5 DEF ToCleaning, Cleaning
      <3> QED BY <3>1, <2>3, <1>1, <1>2, LiveKinds DEF Begun
    <2> QED BY <2>1, <2>2, <2>3
  <1> QED BY <1>4, <1>5

\* The reducer never brings a session back to life, and every event but a
\* start and a stop ends it.
LEMMA ReduceLive ==
    ASSUME NEW s, NEW event \in Events \ {"recovered"}, NEW t,
           Sound(s), Accepts(s, event), t = Reduce(s, event)
    PROVE  /\ Sound(t) /\ (Live(t) => Live(s))
           /\ t.kind # "creating"
           /\ event \in TerminalEvents \cup {"unreachable"} => ~Live(t)
  <1>1. Sound(t) /\ s.kind \in Kinds
    BY ReduceSound DEF Sound, States
  <1>2. CASE event = "unreachable"
    <2>1. t.kind = "unreachable" \/ (t.kind = "cleaning" /\ t.target = "unreachable")
      BY <1>2 DEF Reduce, ToUnreachable, Unreachable, Cleaning, TerminalEvents
    <2> QED BY <2>1, <1>1, LiveKinds
  <1>3. CASE event \in TerminalEvents /\ s.kind # "terminal"
    <2>1. t.kind \in {"terminal", "unreachable"}
          \/ (t.kind = "cleaning" /\ t.target \in {"terminal", "unreachable"})
      BY <1>3 DEF Reduce, TerminalOrUnreachable, Terminal, Unreachable, Cleaning, TerminalEvents
    <2> QED BY <2>1, <1>1, LiveKinds
  <1>4. CASE event \in TerminalEvents /\ s.kind = "terminal"
    <2>1. t = s
      BY <1>4 DEF Reduce, TerminalEvents
    <2> QED BY <2>1, <1>1, <1>4, LiveKinds
  <1>5. CASE event = "worker_ready"
    <2>1. t.kind = "running" /\ s.kind \in ActiveKinds
      BY <1>1, <1>5 DEF Reduce, Accepts, TerminalEvents, Plain
    <2> QED BY <2>1, <1>5, <1>1, LiveKinds DEF TerminalEvents
  <1>6. CASE event = "stop_requested"
    <2>1. /\ t.kind \in {"stopping", "cleaning"}
          /\ s.kind \in ActiveKinds \/ (s.kind = "cleaning" /\ s.target \in ActiveKinds)
      BY <1>1, <1>6 DEF Reduce, Accepts, TerminalEvents, Plain, Cleaning
    <2> QED BY <2>1, <1>6, <1>1, LiveKinds DEF TerminalEvents
  <1> QED BY <1>2, <1>3, <1>4, <1>5, <1>6 DEF Events, TerminalEvents

\* A transition, accepted or refused.
LEMMA TransitionLive ==
    ASSUME NEW r, NEW event \in Events \ {"recovered"}, NEW obs, NEW t,
           Loose(r), Fits(obs, r.state), t = Transition(r, event, obs)
    PROVE  /\ Loose(t) /\ t.ev.tomb = r.ev.tomb /\ t.ev \in {r.ev, obs}
           /\ Live(t.state) => Live(r.state)
           /\ t.state.kind = "creating" => r.state.kind = "creating"
           /\ Accepted(r, event, obs) =>
                 /\ t.ev = obs /\ t.state.kind # "creating"
                 /\ event \in TerminalEvents \cup {"unreachable"} => ~Live(t.state)
           /\ ~Accepted(r, event, obs) => t = r
  <1>1. /\ Loose(t) /\ t.ev.tomb = r.ev.tomb /\ t.ev \in {r.ev, obs}
        /\ Accepted(r, event, obs) => t.ev = obs
    BY TransitionLoose
  <1>2. CASE Accepted(r, event, obs)
    <2> DEFINE fresh == Refresh(r.state, obs, r.pendingCleanup)
               u == Reduce(fresh, event)
    <2>1. Sound(r.state) /\ r.pendingCleanup \in BOOLEAN
      BY DEF Loose, FlatRecords
    <2>2. Sound(fresh) /\ (Live(fresh) <=> Live(r.state)) /\ Accepts(fresh, event)
      BY <2>1, <1>2, RefreshLive DEF Accepted
    <2>3. t = Project(u)
      BY <1>2 DEF Transition
    <2> HIDE DEF fresh
    <2>4. /\ Sound(u) /\ (Live(u) => Live(fresh)) /\ u.kind # "creating"
          /\ event \in TerminalEvents \cup {"unreachable"} => ~Live(u)
      BY <2>2, ReduceLive
    <2> HIDE DEF u
    <2>5. t.state = u
      BY <2>3, <2>4, ProjectSettled
    <2> QED BY <2>2, <2>4, <2>5, <1>1, <1>2
  <1>3. CASE ~Accepted(r, event, obs)
    BY <1>1, <1>3 DEF Transition
  <1> QED BY <1>2, <1>3

\* writeSession.
LEMMA WrittenLive ==
    ASSUME NEW r, Loose(r), NEW w, w = Written(r)
    PROVE  /\ Settled(w) /\ w.ev = r.ev
           /\ Live(w.state) => Live(r.state)
           /\ w.state.kind = "creating" => r.state.kind = "creating"
           /\ Begun(r.state) => Begun(w.state)
  <1> DEFINE t == Refresh(r.state, r.ev, r.pendingCleanup)
  <1>1. Settled(w) /\ w.ev = r.ev
    BY WrittenSettled
  <1>2. r.pendingCleanup \in BOOLEAN /\ Sound(r.state) /\ Fits(r.ev, r.state)
    BY DEF Loose, FlatRecords
  <1>3. /\ Sound(t) /\ (Live(t) <=> Live(r.state))
        /\ t.kind = "creating" => r.state.kind = "creating"
        /\ Begun(r.state) => Begun(t)
    BY <1>2, RefreshLive
  <1>4. w = Project(t)
    BY DEF Written
  <1> HIDE DEF t
  <1>5. w.state = t
    BY <1>3, <1>4, ProjectSettled
  <1> QED BY <1>1, <1>3, <1>5

-----------------------------------------------------------------------------
(* Snapshots *)

\* No evidence claims nothing.
LEMMA NoEvidenceTyped ==
    NoEvidence \in Evidence /\ NoEvidence.tomb = None /\ ~NoEvidence.noChild /\ ~NoEvidence.drained
  <1> DEFINE no == FALSE
  <1>1. NoEvidence = [confirmed |-> no, directExited |-> no, drained |-> no, noChild |-> no, tomb |-> None]
    BY DEF NoEvidence
  <1>2. no \in BOOLEAN /\ ~no
    OBVIOUS
  <1> HIDE DEF no
  <1> QED BY <1>1, <1>2 DEF Evidence

\* What a snapshot of the worker says of the child is true.
LEMMA CurrentSnapshotTrue ==
    ASSUME NEW c \in {"none", "live", "residue", "gone"}, NEW o \in {"open", "complete", "incomplete"},
           NEW s, s = CurrentSnapshot(c, o)
    PROVE  /\ s \in Snapshots /\ s.ev \in Evidence /\ s.ev.tomb = None /\ ~s.ev.noChild
           /\ s.ev.drained <=> c = "gone"
           /\ NativeTerminal(s) <=> (c = "gone" /\ o # "open") \/ (c = "residue" /\ o = "incomplete")
           /\ NativeTerminalProof(s) => c = "gone"
  <1> DEFINE conf == c = "gone"
             dir == c \in {"residue", "gone"}
             dam == c = "gone" /\ o = "incomplete"
             st == CASE c = "gone" /\ o = "complete"                  -> "exited"
                     [] c \in {"residue", "gone"} /\ o = "incomplete" -> "lost"
                     [] OTHER                                         -> "running"
             ev == [NoEvidence EXCEPT !.confirmed = conf, !.directExited = dir, !.drained = conf]
  <1>1. s = [status |-> st, ev |-> ev, damaged |-> dam]
    BY DEF CurrentSnapshot
  <1>2. conf \in BOOLEAN /\ dir \in BOOLEAN /\ dam \in BOOLEAN
    OBVIOUS
  <1>3. /\ st \in {"running", "exited", "lost"}
        /\ st = "exited" <=> c = "gone" /\ o = "complete"
        /\ st = "lost" <=> c \in {"residue", "gone"} /\ o = "incomplete"
    OBVIOUS
  <1>4. conf <=> c = "gone"
    OBVIOUS
  <1>5. dir <=> c \in {"residue", "gone"}
    OBVIOUS
  <1> HIDE DEF conf, dir, dam, st
  <1>6. /\ ev \in Evidence /\ ev.tomb = None /\ ~ev.noChild /\ ev.drained = conf
        /\ ev.confirmed = conf /\ ev.directExited = dir
    BY <1>2, NoEvidenceTyped DEF Evidence
  <1> HIDE DEF ev
  <1>7. s \in Snapshots /\ s.status = st /\ s.ev = ev
    BY <1>1, <1>2, <1>3, <1>6 DEF Snapshots
  <1>8. NativeTerminalProof(s) <=> c = "gone" /\ o # "open"
    BY <1>3, <1>4, <1>5, <1>6, <1>7 DEF NativeTerminalProof
  <1>9. NativeTerminal(s) <=> (c = "gone" /\ o # "open") \/ (c = "residue" /\ o = "incomplete")
    BY <1>3, <1>7, <1>8 DEF NativeTerminal
  <1> QED BY <1>4, <1>6, <1>7, <1>8, <1>9

\* The placeholder for a snapshot is one.
LEMMA NoSnapshotTyped ==
    NoSnapshot \in Snapshots /\ NoSnapshot.ev = NoEvidence
  <1> DEFINE no == FALSE
  <1>1. NoSnapshot = [status |-> "running", ev |-> NoEvidence, damaged |-> no]
    BY DEF NoSnapshot
  <1>2. no \in BOOLEAN
    OBVIOUS
  <1> HIDE DEF no
  <1> QED BY <1>1, <1>2, NoEvidenceTyped DEF Snapshots

LEMMA NoSnapshotOK ==
    SnapshotOK(NoSnapshot)
  BY NoSnapshotTyped, NoEvidenceTyped DEF SnapshotOK, TrueEvidence

\* A worker asked to kill leaves a child that is gone or was never there as it
\* is, and never one that runs.
LEMMA KilledIsOver ==
    ASSUME child \in {"none", "live", "residue", "gone"}, out \in {"open", "complete", "incomplete"},
           NEW k \in Killed
    PROVE  /\ k[1] \in {"none", "residue", "gone"} /\ k[2] \in {"open", "complete", "incomplete"}
           /\ child \in {"none", "gone"} => k[1] = child /\ k[2] = out
           /\ child \in {"live", "residue"} =>
                 (k[1] = "gone" /\ k[2] # "open") \/ (k[1] = "residue" /\ k[2] = "incomplete")
  <1>1. CASE child \in {"none", "gone"}
    <2>1. k = <<child, out>>
      BY <1>1 DEF Killed
    <2> QED BY <2>1, <1>1
  <1>2. CASE child \in {"live", "residue"}
    <2>1. k \in {<<"residue", "incomplete">>, <<"gone", "complete">>, <<"gone", "incomplete">>}
      BY <1>2 DEF Killed
    <2>2. CASE k = <<"residue", "incomplete">>
      <3>1. k[1] = "residue" /\ k[2] = "incomplete"
        BY <2>2
      <3> QED BY <3>1, <1>2
    <2>3. CASE k = <<"gone", "complete">>
      <3>1. k[1] = "gone" /\ k[2] = "complete"
        BY <2>3
      <3> QED BY <3>1, <1>2
    <2>4. CASE k = <<"gone", "incomplete">>
      <3>1. k[1] = "gone" /\ k[2] = "incomplete"
        BY <2>4
      <3> QED BY <3>1, <1>2
    <2> QED BY <2>1, <2>2, <2>3, <2>4
  <1> QED BY <1>1, <1>2

-----------------------------------------------------------------------------
(* What every step keeps *)

\* A child that is gone or will never be stays so; a record that is over stays
\* over; a terminal snapshot is followed by terminal ones.
Onward ==
    /\ pc["spawn"] # "starting" => pc'["spawn"] # "starting"
    /\ pc["spawn"] # "starting" /\ ~Active => ~Active'
    /\ child = "gone" => child' = "gone"
    /\ child = "none" /\ pc["spawn"] # "starting" => child' = "none"
    /\ Over => Over'

\* What was true of the child stays true, for evidence, snapshots and jobs.
LEMMA EvidenceKept ==
    ASSUME Onward, NEW ev, TrueEvidence(ev)
    PROVE  TrueEvidence(ev)'
  BY DEF Onward, TrueEvidence

LEMMA SnapshotKept ==
    ASSUME Onward, NEW s, SnapshotOK(s)
    PROVE  SnapshotOK(s)'
  BY EvidenceKept DEF SnapshotOK

LEMMA JobKept ==
    ASSUME Onward, NEW j, JobOK(j)
    PROVE  JobOK(j)'
  <1>1. SnapshotOK(j.snap)'
    BY SnapshotKept DEF JobOK
  <1>2. Childless /\ ~Active => (Childless /\ ~Active)'
    BY DEF Onward, Childless
  <1>3. Over => Over'
    BY DEF Onward
  <1>4. pc["spawn"] # "starting" => pc'["spawn"] # "starting"
    BY DEF Onward
  <1> QED BY <1>1, <1>2, <1>3, <1>4 DEF JobOK

\* The three things that happen to the lane.
LEMMA LaneSame ==
    ASSUME LaneInv, Onward, lane' = lane, step' \in Steps, version' \in Nat, noted' \in Nat
    PROVE  LaneInv'
  <1>1. \A i \in 1..Len(lane) : JobOK(lane[i])'
    BY JobKept DEF LaneInv
  <1>2. \A i \in 1..Len(lane') : JobOK(lane[i])'
    BY <1>1
  <1>3. lane' \in Seq(Jobs)
    BY DEF LaneInv
  <1> QED BY <1>2, <1>3 DEF LaneInv

LEMMA LaneGrows ==
    ASSUME LaneInv, Onward, NEW j, lane' = Append(lane, j), JobOK(j)',
           step' \in Steps, version' \in Nat, noted' \in Nat
    PROVE  LaneInv' /\ (lane # <<>> => lane'[1] = lane[1]) /\ lane' # <<>>
  <1>1. lane \in Seq(Jobs) /\ j \in Jobs
    BY DEF LaneInv, JobOK
  <1>2. /\ lane' \in Seq(Jobs) /\ Len(lane') = Len(lane) + 1 /\ Len(lane) \in Nat
        /\ \A i \in 1..Len(lane) : lane'[i] = lane[i]
        /\ lane'[Len(lane) + 1] = j
    BY <1>1
  <1>3. \A i \in 1..Len(lane) : JobOK(lane[i])'
    <2>1. TAKE i \in 1..Len(lane)
    <2>2. PICK x : x = lane[i]
      OBVIOUS
    <2>3. JobOK(x) /\ lane'[i] = x
      BY <2>2, <1>2 DEF LaneInv
    <2>4. JobOK(x)'
      BY <2>3, JobKept
    <2> QED BY <2>3, <2>4 DEF JobOK
  <1>4. \A i \in 1..Len(lane') : JobOK(lane[i])'
    <2>1. TAKE i \in 1..Len(lane')
    <2>2. CASE i \in 1..Len(lane)
      BY <2>2, <1>3
    <2>3. CASE i = Len(lane) + 1
      BY <2>3, <1>2
    <2> QED BY <2>2, <2>3, <1>2
  <1>5. lane # <<>> => 1 \in 1..Len(lane)
    BY <1>1
  <1>6. lane' # <<>>
    BY <1>2
  <1> QED BY <1>2, <1>4, <1>5, <1>6 DEF LaneInv

LEMMA LaneShrinks ==
    ASSUME LaneInv, Onward, lane # <<>>, lane' = Tail(lane),
           step' \in Steps, version' \in Nat, noted' \in Nat
    PROVE  LaneInv'
  <1>1. lane \in Seq(Jobs) /\ Len(lane) \in Nat /\ Len(lane) >= 1
    BY DEF LaneInv
  <1>2. /\ lane' \in Seq(Jobs) /\ Len(lane') = Len(lane) - 1
        /\ \A i \in 1..Len(lane') : lane'[i] = lane[i + 1]
    BY <1>1
  <1>3. ASSUME NEW i \in 1..Len(lane')
        PROVE  JobOK(lane[i])'
    <2>1. PICK x : x = lane[i + 1]
      OBVIOUS
    <2>2. JobOK(x) /\ lane'[i] = x
      BY <2>1, <1>1, <1>2 DEF LaneInv
    <2>3. JobOK(x)'
      BY <2>2, JobKept
    <2> QED BY <2>2, <2>3 DEF JobOK
  <1> QED BY <1>2, <1>3 DEF LaneInv

\* When a terminal snapshot is due, now and after the step.
LEMMA OverNow ==
    ASSUME child \in {"none", "live", "residue", "gone"}, out \in {"open", "complete", "incomplete"}
    PROVE  Over <=> (child = "gone" /\ out # "open") \/ (child = "residue" /\ out = "incomplete")
  BY CurrentSnapshotTrue DEF Over

LEMMA OverNext ==
    ASSUME child' \in {"none", "live", "residue", "gone"}, out' \in {"open", "complete", "incomplete"}
    PROVE  Over' <=> (child' = "gone" /\ out' # "open") \/ (child' = "residue" /\ out' = "incomplete")
  BY CurrentSnapshotTrue DEF Over

\* A job that is queued.
LEMMA NewJob ==
    ASSUME NEW by \in Actors, NEW v \in Nat, NEW snap \in Snapshots,
           NEW op \in {"finish", "finalize", "rollback", "stop", "delete", "mark"},
           NEW j, j = Job(by, op, snap, v)
    PROVE  j \in Jobs /\ j.by = by /\ j.op = op /\ j.snap = snap /\ j.version = v
  BY DEF Job, Jobs

-----------------------------------------------------------------------------
(* Steps outside the lane *)

\* A step of the world, or of an actor that is not in the lane: it leaves the
\* record alone, and may queue a job.
LEMMA OutsideStep ==
    ASSUME IndInv,
           UNCHANGED <<rec, stored, present, attached, version, step, laneSnap>>, noted' \in Nat,
           child' \in {"none", "live", "residue", "gone"}, out' \in {"open", "complete", "incomplete"},
           child \in {"none", "gone"} => child' = child, Over => Over',
           pc' \in [Actors -> PCs], pc'["spawn"] = pc["spawn"],
           \A a \in Actors : pc'[a] \in {"watching", "failed", "syncing"} => pc["spawn"] # "starting",
           \A a \in Actors : pc'[a] \in Shutdowns => pc["spawn"] # "starting" /\ ~Active,
           pc'["monitor"] = "done" /\ pc["monitor"] # "done" => ~attached,
           lane' = lane \/ \E j : lane' = Append(lane, j) /\ JobOK(j)'
    PROVE  IndInv'
  <1>1. LaneInv /\ HeadInv /\ ActorInv /\ RecordInv
    BY DEF IndInv
  <1>2. Active' <=> Active
    BY DEF Active
  <1>3. Onward
    BY <1>2 DEF Onward
  <1>4. LaneInv' /\ (lane # <<>> => lane' # <<>> /\ lane'[1] = lane[1])
    <2>1. step' \in Steps /\ version' \in Nat
      BY <1>1 DEF LaneInv
    <2>2. CASE lane' = lane
      BY <2>1, <2>2, <1>1, <1>3, LaneSame
    <2>3. CASE lane' # lane
      <3>1. PICK j : lane' = Append(lane, j) /\ JobOK(j)'
        BY <2>3
      <3> QED BY <3>1, <2>1, <1>1, <1>3, LaneGrows
    <2> QED BY <2>2, <2>3
  <1>5. HeadInv'
    <2>1. SnapshotOK(laneSnap)'
      <3>1. PICK x : x = laneSnap
        OBVIOUS
      <3>2. SnapshotOK(x) /\ laneSnap' = x
        BY <3>1, <1>1 DEF HeadInv
      <3>3. SnapshotOK(x)'
        BY <3>2, <1>3, SnapshotKept
      <3> QED BY <3>2, <3>3 DEF SnapshotOK
    <2>2. Childless => Childless'
      BY DEF Childless
    <2>3. step' = step /\ laneSnap' = laneSnap /\ attached' = attached
      OBVIOUS
    <2> QED BY <2>1, <2>2, <2>3, <1>1, <1>2, <1>4 DEF HeadInv
  <1>6. ActorInv'
    <2>1. pc["spawn"] = "starting" => child' = "none"
      BY <1>1 DEF ActorInv
    <2> QED BY <2>1, <1>1, <1>2 DEF ActorInv
  <1>7. RecordInv'
    <2>1. TrueEvidence(rec.ev)'
      <3>1. PICK x : x = rec.ev
        OBVIOUS
      <3>2. TrueEvidence(x) /\ rec'.ev = x
        BY <3>1, <1>1 DEF RecordInv
      <3>3. TrueEvidence(x)'
        BY <3>2, <1>3, EvidenceKept
      <3> QED BY <3>2, <3>3 DEF TrueEvidence
    <2>2. rec' = rec /\ present' = present /\ stored' = stored /\ attached' = attached
      OBVIOUS
    <2> QED BY <2>1, <2>2, <1>1, <1>2 DEF RecordInv
  <1>8. ~present' \/ ~stored' => Childless'
    BY DEF IndInv, Childless
  <1>9. RunningIsWatched'
    <2>1. RunningIsWatched
      BY DEF IndInv
    <2>2. rec' = rec /\ present' = present /\ attached' = attached
      OBVIOUS
    <2> QED BY <2>1, <2>2 DEF RunningIsWatched
  <1> QED BY <1>4, <1>5, <1>6, <1>7, <1>8, <1>9 DEF IndInv

\* What the frame needs of the actors when they stand where they stood.
LEMMA ActorFacts ==
    ASSUME IndInv
    PROVE  /\ pc \in [Actors -> PCs] /\ noted \in Nat /\ version \in Nat /\ lane \in Seq(Jobs)
           /\ child \in {"none", "live", "residue", "gone"}
           /\ out \in {"open", "complete", "incomplete"}
           /\ \A a \in Actors : pc[a] \in {"watching", "failed", "syncing"} => pc["spawn"] # "starting"
           /\ \A a \in Actors : pc[a] \in Shutdowns => pc["spawn"] # "starting" /\ ~Active
           /\ pc["spawn"] = "starting" => child = "none"
           /\ attached => pc["spawn"] = "done"
  BY DEF IndInv, ActorInv, RecordInv, LaneInv

\* The child, its descendants, its output and the worker.
LEMMA WorldStep ==
    ASSUME IndInv, ChildExits \/ DescendantsExit \/ OutputSettles \/ WorkerDies
    PROVE  IndInv'
  <1>1. UNCHANGED <<rec, stored, present, attached, version, step, laneSnap, lane, pc, noted>>
    BY DEF ChildExits, DescendantsExit, OutputSettles, WorkerDies, daemon, queue
  <1>2. /\ child' \in {"none", "live", "residue", "gone"} /\ out' \in {"open", "complete", "incomplete"}
        /\ child \in {"none", "gone"} => child' = child
        /\ (child = "gone" /\ out # "open") \/ (child = "residue" /\ out = "incomplete")
           => (child' = "gone" /\ out' # "open") \/ (child' = "residue" /\ out' = "incomplete")
    BY ActorFacts DEF ChildExits, DescendantsExit, OutputSettles, WorkerDies
  <1>3. Over => Over'
    BY <1>2, ActorFacts, OverNow, OverNext
  <1> QED BY <1>1, <1>2, <1>3, ActorFacts, OutsideStep

\* An actor other than spawn moves, the child does not.
LEMMA ActorMoves ==
    ASSUME IndInv, UNCHANGED <<rec, stored, present, attached, version, step, laneSnap, child, out>>,
           noted' \in Nat, NEW a \in Actors \ {"spawn"}, NEW where \in PCs,
           pc' = [pc EXCEPT ![a] = where],
           where \in {"watching", "failed", "syncing"} => pc["spawn"] # "starting",
           where \in Shutdowns => pc["spawn"] # "starting" /\ ~Active,
           a = "monitor" /\ where = "done" => ~attached,
           lane' = lane \/ \E j : lane' = Append(lane, j) /\ JobOK(j)
    PROVE  IndInv'
  <1> USE ActorFacts
  <1>1. /\ pc' \in [Actors -> PCs] /\ \A b \in Actors : pc'[b] = IF b = a THEN where ELSE pc[b]
        /\ "spawn" \in Actors /\ "monitor" \in Actors
    BY DEF Actors
  <1>2. pc'["spawn"] = pc["spawn"]
    BY <1>1
  <1>3. /\ \A b \in Actors : pc'[b] \in {"watching", "failed", "syncing"} => pc["spawn"] # "starting"
        /\ \A b \in Actors : pc'[b] \in Shutdowns => pc["spawn"] # "starting" /\ ~Active
    BY <1>1
  <1>4. pc'["monitor"] = "done" /\ pc["monitor"] # "done" => ~attached
    BY <1>1
  <1>5. Over => Over'
    BY DEF Over
  <1>6. Onward
    BY <1>2, <1>5 DEF Onward, Active
  <1>7. lane' = lane \/ \E j : lane' = Append(lane, j) /\ JobOK(j)'
    BY <1>6, JobKept
  <1>8. child' \in {"none", "live", "residue", "gone"} /\ out' \in {"open", "complete", "incomplete"}
    OBVIOUS
  <1> HIDE DEF Actors
  <1> QED BY <1>1, <1>2, <1>3, <1>4, <1>5, <1>7, <1>8, OutsideStep

-----------------------------------------------------------------------------
(* The monitor, the client and the deletion *)

\* A record that is not active has been started; one that shows an outcome,
\* or the proof of one, has no child.
LEMMA EndIsProven ==
    ASSUME IndInv
    PROVE  /\ ~Active => pc["spawn"] # "starting"
           /\ rec.ev.noChild \/ DirectChildGone(rec.ev) => Childless
           /\ Status(rec.state) \notin ActiveStatuses \cup {"lost"} => Childless
  <1>1. /\ Settled(rec) /\ TrueEvidence(rec.ev) /\ (pc["spawn"] = "starting" => Begun(rec.state))
        /\ pc["spawn"] = "starting" => child = "none"
    BY DEF IndInv, RecordInv, ActorInv
  <1>2. Sound(rec.state) /\ rec.ev = rec.state.ev
    BY <1>1, SettledIsLoose DEF Settled
  <1>3. /\ rec.state.kind \in Kinds /\ rec.state.target \in Known \cup {None}
        /\ rec.state.outcome \in Outcomes \cup {None} /\ ValidState(rec.state)
    BY <1>2 DEF Sound, States
  <1>4. ~Active => pc["spawn"] # "starting"
    BY <1>1, <1>2, LiveKinds DEF Begun, Active
  <1>5. rec.ev.noChild \/ DirectChildGone(rec.ev) => Childless
    BY <1>1 DEF Childless, TrueEvidence, DirectChildGone
  <1>6. ASSUME Status(rec.state) \notin ActiveStatuses \cup {"lost"}
        PROVE  Childless
    <2>1. rec.state.kind = "terminal" \/ (rec.state.kind = "cleaning" /\ rec.state.target = "terminal")
      BY <1>3, <1>6 DEF Status, ActiveStatuses, ValidState
    <2>2. rec.ev.noChild \/ rec.ev.drained
      BY <2>1, <1>2, <1>3 DEF ValidState, ValidTerminalProof
    <2> QED BY <2>2, <1>1 DEF Childless, TrueEvidence
  <1> QED BY <1>4, <1>5, <1>6

\* A job without a snapshot.
LEMMA PlainJob ==
    ASSUME NEW by \in Actors \ {"spawn"},
           NEW op \in {"rollback", "stop", "delete", "mark"},
           NEW j, j = Job(by, op, NoSnapshot, 0),
           op = "rollback" => pc["spawn"] # "starting",
           op = "delete" => Childless /\ ~Active,
           by = "monitor" => op = "rollback"
    PROVE  JobOK(j)
  <1>1. NoSnapshot \in Snapshots /\ SnapshotOK(NoSnapshot)
    BY NoSnapshotTyped, NoSnapshotOK
  <1>2. j \in Jobs /\ j.by = by /\ j.op = op /\ j.snap = NoSnapshot
    BY <1>1, NewJob
  <1> QED BY <1>1, <1>2 DEF JobOK

\* An observation of the worker that was started.
LEMMA ObservationJob ==
    ASSUME IndInv, NEW by \in {"monitor", "caller"}, NEW v \in Nat, NEW s, NEW op, NEW j,
           s = CurrentSnapshot(child, out), pc["spawn"] # "starting",
           op = IF NativeTerminal(s) THEN "finalize" ELSE "finish",
           j = Job(by, op, s, v)
    PROVE  JobOK(j)
  <1>1. s \in Snapshots /\ SnapshotOK(s)
    BY ActorFacts, CurrentSnapshotTrue DEF SnapshotOK, TrueEvidence
  <1>2. op \in {"finish", "finalize"} /\ by \in Actors
    BY DEF Actors
  <1>3. j \in Jobs /\ j.by = by /\ j.op = op /\ j.snap = s
    BY <1>1, <1>2, NewJob
  <1>4. op = "finalize" => NativeTerminal(s) /\ Over
    BY DEF Over
  <1> QED BY <1>1, <1>2, <1>3, <1>4 DEF JobOK

\* monitorNative: an observation is queued, or the worker given up.
LEMMA MonitorKeeps ==
    ASSUME IndInv, MonitorStep
    PROVE  IndInv'
  <1> USE ActorFacts
  <1>1. "monitor" \in Actors \ {"spawn"} /\ {"queued", "done", "failed"} \subseteq PCs
    BY DEF Actors, PCs
  <1>2. UNCHANGED <<rec, stored, present, attached, version, child, out, noted>>
    BY DEF MonitorStep, MonitorObserves, MonitorLosesWorker, MonitorCatches, daemon, native
  <1>3. pc["monitor"] \in {"watching", "failed"} /\ pc["spawn"] # "starting"
    BY <1>1 DEF MonitorStep, MonitorObserves, MonitorLosesWorker, MonitorCatches
  <1>4. CASE MonitorObserves
    <2>1. PICK s : s = CurrentSnapshot(child, out)
      OBVIOUS
    <2>2. PICK op : op = IF NativeTerminal(s) THEN "finalize" ELSE "finish"
      OBVIOUS
    <2>3. PICK j : j = Job("monitor", op, s, version)
      OBVIOUS
    <2>4. JobOK(j)
      BY <2>1, <2>2, <2>3, <1>3, ObservationJob
    <2>5. lane' = Append(lane, j) /\ UNCHANGED <<step, laneSnap>> /\ pc' = [pc EXCEPT !["monitor"] = "queued"]
      BY <1>4, <2>1, <2>2, <2>3 DEF MonitorObserves, Enqueue
    <2> QED BY <2>4, <2>5, <1>1, <1>2, ActorMoves DEF Shutdowns
  <1>5. CASE MonitorLosesWorker
    <2>1. UNCHANGED <<lane, step, laneSnap>> /\ pc' = [pc EXCEPT !["monitor"] = "failed"]
      BY <1>5 DEF MonitorLosesWorker, queue
    <2> QED BY <2>1, <1>1, <1>2, <1>3, ActorMoves DEF Shutdowns
  <1>6. CASE MonitorCatches /\ attached
    <2>1. PICK j : j = Job("monitor", "rollback", NoSnapshot, 0)
      OBVIOUS
    <2>2. JobOK(j)
      BY <2>1, <1>1, <1>3, PlainJob
    <2>3. lane' = Append(lane, j) /\ UNCHANGED <<step, laneSnap>> /\ pc' = [pc EXCEPT !["monitor"] = "queued"]
      BY <1>6, <2>1 DEF MonitorCatches, Enqueue
    <2> QED BY <2>2, <2>3, <1>1, <1>2, ActorMoves DEF Shutdowns
  <1>7. CASE MonitorCatches /\ ~attached
    <2>1. UNCHANGED <<lane, step, laneSnap>> /\ pc' = [pc EXCEPT !["monitor"] = "done"]
      BY <1>7 DEF MonitorCatches, queue
    <2> QED BY <2>1, <1>1, <1>2, <1>7, ActorMoves DEF Shutdowns
  <1> QED BY <1>4, <1>5, <1>6, <1>7 DEF MonitorStep

\* stop and cleanup, called by a client.
LEMMA CallKeeps ==
    ASSUME IndInv, Call
    PROVE  IndInv'
  <1> USE ActorFacts
  <1>1. "caller" \in Actors \ {"spawn"} /\ {"queued", "cleanup"} \subseteq PCs
    BY DEF Actors, PCs
  <1>2. UNCHANGED <<rec, stored, present, attached, version, child, out, noted>>
    BY DEF Call, daemon, native
  <1>3. PICK j : j = Job("caller", "stop", NoSnapshot, 0)
    OBVIOUS
  <1>4. JobOK(j)
    BY <1>1, <1>3, PlainJob
  <1>5. \/ /\ lane' = Append(lane, j) /\ UNCHANGED <<step, laneSnap>>
           /\ pc' = [pc EXCEPT !["caller"] = "queued"]
        \/ UNCHANGED <<lane, step, laneSnap>> /\ pc' = [pc EXCEPT !["caller"] = "cleanup"]
    BY <1>3 DEF Call, Enqueue, queue
  <1>6. CASE lane' = Append(lane, j) /\ UNCHANGED <<step, laneSnap>> /\ pc' = [pc EXCEPT !["caller"] = "queued"]
    BY <1>6, <1>1, <1>2, <1>4, ActorMoves DEF Shutdowns
  <1>7. CASE UNCHANGED <<lane, step, laneSnap>> /\ pc' = [pc EXCEPT !["caller"] = "cleanup"]
    BY <1>7, <1>1, <1>2, ActorMoves DEF Shutdowns
  <1> QED BY <1>5, <1>6, <1>7

\* get: an answer is queued only while the worker is attached.
LEMMA GetKeeps ==
    ASSUME IndInv, Get \/ GetAnswered \/ GetFails
    PROVE  IndInv'
  <1> USE ActorFacts
  <1>1. "caller" \in Actors \ {"spawn"} /\ {"queued", "syncing", "idle"} \subseteq PCs
    BY DEF Actors, PCs
  <1>2. UNCHANGED <<rec, stored, present, attached, version, child, out>> /\ noted' \in Nat
    BY DEF Get, GetAnswered, GetFails, daemon, native
  <1>3. CASE Get
    <2>1. UNCHANGED <<lane, step, laneSnap>> /\ pc' = [pc EXCEPT !["caller"] = "syncing"] /\ attached
      BY <1>3 DEF Get, queue
    <2> QED BY <2>1, <1>1, <1>2, ActorMoves DEF Shutdowns
  <1>4. CASE GetAnswered /\ attached
    <2>1. PICK s : s = CurrentSnapshot(child, out)
      OBVIOUS
    <2>2. PICK op : op = IF NativeTerminal(s) THEN "finalize" ELSE "finish"
      OBVIOUS
    <2>3. PICK j : j = Job("caller", op, s, noted)
      OBVIOUS
    <2>4. JobOK(j)
      BY <2>1, <2>2, <2>3, <1>4, ObservationJob
    <2>5. lane' = Append(lane, j) /\ UNCHANGED <<step, laneSnap>> /\ pc' = [pc EXCEPT !["caller"] = "queued"]
      BY <1>4, <2>1, <2>2, <2>3 DEF GetAnswered, Enqueue
    <2> QED BY <2>4, <2>5, <1>1, <1>2, ActorMoves DEF Shutdowns
  <1>5. CASE (GetAnswered /\ ~attached) \/ GetFails
    <2>1. UNCHANGED <<lane, step, laneSnap>> /\ pc' = [pc EXCEPT !["caller"] = "idle"]
      BY <1>5 DEF GetAnswered, GetFails, Quit, Ended, queue
    <2> QED BY <2>1, <1>1, <1>2, ActorMoves DEF Shutdowns
  <1> QED BY <1>3, <1>4, <1>5

\* cleanupConversation, up to the cleanup itself.
LEMMA DeletionKeeps ==
    ASSUME IndInv, DeleteConversation \/ AfterMark
    PROVE  IndInv'
  <1> USE ActorFacts
  <1>1. "deletion" \in Actors \ {"spawn"} /\ {"queued", "cleanup", "done"} \subseteq PCs
    BY DEF Actors, PCs
  <1>2. UNCHANGED <<rec, stored, present, attached, version, child, out, noted>>
    BY DEF DeleteConversation, AfterMark, daemon, native
  <1>3. PICK j : j = Job("deletion", "mark", NoSnapshot, 0)
    OBVIOUS
  <1>4. PICK k : k = Job("deletion", "stop", NoSnapshot, 0)
    OBVIOUS
  <1>5. JobOK(j) /\ JobOK(k)
    BY <1>1, <1>3, <1>4, PlainJob
  <1>6. \/ /\ lane' = Append(lane, j) \/ lane' = Append(lane, k)
           /\ UNCHANGED <<step, laneSnap>> /\ pc' = [pc EXCEPT !["deletion"] = "queued"]
        \/ UNCHANGED <<lane, step, laneSnap>> /\ pc' = [pc EXCEPT !["deletion"] = "cleanup"]
        \/ UNCHANGED <<lane, step, laneSnap>> /\ pc' = [pc EXCEPT !["deletion"] = "done"]
    BY <1>3, <1>4 DEF DeleteConversation, AfterMark, Enqueue, GoTo, Quit, Ended, queue
  <1>7. CASE /\ lane' = Append(lane, j) \/ lane' = Append(lane, k)
             /\ UNCHANGED <<step, laneSnap>> /\ pc' = [pc EXCEPT !["deletion"] = "queued"]
    BY <1>7, <1>1, <1>2, <1>5, ActorMoves DEF Shutdowns
  <1>8. CASE UNCHANGED <<lane, step, laneSnap>> /\ pc' = [pc EXCEPT !["deletion"] = "cleanup"]
    BY <1>8, <1>1, <1>2, ActorMoves DEF Shutdowns
  <1>9. CASE UNCHANGED <<lane, step, laneSnap>> /\ pc' = [pc EXCEPT !["deletion"] = "done"]
    BY <1>9, <1>1, <1>2, ActorMoves DEF Shutdowns
  <1> QED BY <1>6, <1>7, <1>8, <1>9

\* cleanup(id) up to its first RPC: it queues a deletion only of a session
\* that has no child, and shuts down only workers of sessions that are over.
LEMMA CleanupKeeps ==
    ASSUME IndInv, NEW a \in {"caller", "deletion"}, Cleanup(a)
    PROVE  IndInv'
  <1> USE ActorFacts
  <1>1. /\ a \in Actors \ {"spawn"} /\ a # "monitor" /\ Ended(a) \in {"idle", "done"}
        /\ {"queued", "idle", "done"} \cup Shutdowns \subseteq PCs
    BY DEF Actors, PCs, Ended, Shutdowns
  <1>2. UNCHANGED <<rec, stored, present, attached, version, child, out, noted>>
    BY DEF Cleanup, daemon, native
  <1>3. PICK j : j = Job(a, "delete", NoSnapshot, 0)
    OBVIOUS
  <1>4. Active <=> Status(rec.state) \in ActiveStatuses
    BY DEF Active, Live
  <1>5. rec.ev.noChild => ~Active
    BY DEF IndInv, RecordInv
  <1>6. \/ EnqueueDelete(a) /\ Childless /\ ~Active
        \/ Quit(a)
        \/ \E how \in Shutdowns : GoTo(a, how) /\ pc["spawn"] # "starting" /\ ~Active
    <2>1. CASE ~present
      BY <2>1 DEF Cleanup
    <2>2. CASE present /\ rec.ev.noChild
      BY <2>2, <1>5, EndIsProven DEF Cleanup
    <2>3. CASE present /\ ~rec.ev.noChild /\ finalization = "failed"
      BY <2>3 DEF Cleanup
    <2>4. CASE present /\ ~rec.ev.noChild /\ finalization # "failed" /\ Status(rec.state) = "lost"
      <3>1. ~Active /\ pc["spawn"] # "starting"
        BY <2>4, <1>4, EndIsProven DEF ActiveStatuses
      <3>2. CASE DirectChildGone(rec.ev)
        BY <2>4, <3>1, <3>2, EndIsProven DEF Cleanup
      <3>3. CASE ~DirectChildGone(rec.ev)
        <4>1. GoTo(a, "lostShutdown") \/ Quit(a)
          BY <2>4, <3>3 DEF Cleanup
        <4> QED BY <4>1, <3>1 DEF Shutdowns
      <3> QED BY <3>2, <3>3
    <2>5. CASE /\ present /\ ~rec.ev.noChild /\ finalization # "failed" /\ Status(rec.state) # "lost"
               /\ Status(rec.state) \in ActiveStatuses
      BY <2>5 DEF Cleanup
    <2>6. CASE /\ present /\ ~rec.ev.noChild /\ finalization # "failed" /\ Status(rec.state) # "lost"
               /\ Status(rec.state) \notin ActiveStatuses
      <3>1. Childless /\ ~Active /\ pc["spawn"] # "starting"
        BY <2>6, <1>4, EndIsProven
      <3>2. GoTo(a, "freshShutdown") \/ GoTo(a, "shutdown") \/ Quit(a) \/ EnqueueDelete(a)
        BY <2>6 DEF Cleanup
      <3> QED BY <3>1, <3>2 DEF Shutdowns
    <2> QED BY <2>1, <2>2, <2>3, <2>4, <2>5, <2>6
  <1>7. CASE EnqueueDelete(a) /\ Childless /\ ~Active
    <2>1. JobOK(j)
      BY <1>1, <1>3, <1>7, PlainJob
    <2>2. lane' = Append(lane, j) /\ UNCHANGED <<step, laneSnap>> /\ pc' = [pc EXCEPT ![a] = "queued"]
      BY <1>3, <1>7 DEF EnqueueDelete, Enqueue
    <2> QED BY <2>1, <2>2, <1>1, <1>2, ActorMoves DEF Shutdowns
  <1>8. CASE Quit(a)
    <2>1. UNCHANGED <<lane, step, laneSnap>> /\ pc' = [pc EXCEPT ![a] = Ended(a)]
      BY <1>8 DEF Quit, queue
    <2> QED BY <2>1, <1>1, <1>2, ActorMoves DEF Shutdowns
  <1>9. ASSUME NEW how \in Shutdowns, GoTo(a, how), pc["spawn"] # "starting", ~Active
        PROVE  IndInv'
    <2>1. UNCHANGED <<lane, step, laneSnap>> /\ pc' = [pc EXCEPT ![a] = how]
      BY <1>9 DEF GoTo, queue
    <2> QED BY <2>1, <1>1, <1>2, <1>9, ActorMoves DEF Shutdowns
  <1> QED BY <1>6, <1>7, <1>8, <1>9

\* A kill was answered, or was not.
LEMMA KillIsOnward ==
    ASSUME IndInv, NEW k \in Killed \cup {<<child, out>>}, child' = k[1], out' = k[2]
    PROVE  /\ child' \in {"none", "live", "residue", "gone"} /\ out' \in {"open", "complete", "incomplete"}
           /\ child \in {"none", "gone"} => child' = child
           /\ Over => Over'
  <1> USE ActorFacts
  <1>1. /\ child' \in {"none", "live", "residue", "gone"} /\ out' \in {"open", "complete", "incomplete"}
        /\ child \in {"none", "gone"} => child' = child /\ out' = out
        /\ (child = "gone" /\ out # "open") \/ (child = "residue" /\ out = "incomplete")
           => (child' = "gone" /\ out' # "open") \/ (child' = "residue" /\ out' = "incomplete")
    <2>1. CASE k \in Killed
      BY <2>1, KilledIsOver
    <2>2. CASE k = <<child, out>>
      <3>1. child' = child /\ out' = out
        BY <2>2
      <3> QED BY <3>1
    <2> QED BY <2>1, <2>2
  <1> QED BY <1>1, OverNow, OverNext

\* A shutdown kills what runs; the client that asked for it goes on, with a
\* deletion if no child is left.
LEMMA ShutdownStep ==
    ASSUME IndInv, UNCHANGED <<rec, stored, present, attached, version, step, laneSnap, noted>>,
           NEW a \in {"caller", "deletion"}, pc[a] \in Shutdowns,
           NEW k \in Killed \cup {<<child, out>>}, child' = k[1], out' = k[2],
           \/ Quit(a)
           \/ EnqueueDelete(a) /\ child' \in {"none", "gone"}
    PROVE  IndInv'
  <1> USE ActorFacts
  <1>1. /\ a \in Actors /\ a # "monitor" /\ a # "spawn" /\ Ended(a) \in {"idle", "done"}
        /\ {"queued", "idle", "done"} \subseteq PCs /\ "spawn" \in Actors /\ "monitor" \in Actors
    BY DEF Actors, PCs, Ended
  <1>2. pc["spawn"] # "starting" /\ ~Active /\ Active' = Active
    BY <1>1 DEF Active
  <1>3. /\ child' \in {"none", "live", "residue", "gone"} /\ out' \in {"open", "complete", "incomplete"}
        /\ child \in {"none", "gone"} => child' = child
        /\ Over => Over'
    BY KillIsOnward
  <1>4. PICK where \in {"queued", "idle", "done"} : pc' = [pc EXCEPT ![a] = where]
    BY <1>1 DEF Quit, EnqueueDelete
  <1>5. /\ pc' \in [Actors -> PCs] /\ \A b \in Actors : pc'[b] = IF b = a THEN where ELSE pc[b]
    BY <1>1, <1>4
  <1>6. pc'["spawn"] = pc["spawn"] /\ pc'["monitor"] = pc["monitor"]
    BY <1>1, <1>5
  <1>7. /\ \A b \in Actors : pc'[b] \in {"watching", "failed", "syncing"} => pc["spawn"] # "starting"
        /\ \A b \in Actors : pc'[b] \in Shutdowns => pc["spawn"] # "starting" /\ ~Active
    BY <1>2
  <1>8. lane' = lane \/ \E j : lane' = Append(lane, j) /\ JobOK(j)'
    <2>1. CASE Quit(a)
      BY <2>1 DEF Quit, queue
    <2>2. CASE EnqueueDelete(a) /\ child' \in {"none", "gone"}
      <3>1. PICK j : j = Job(a, "delete", NoSnapshot, 0)
        OBVIOUS
      <3>2. j \in Jobs /\ j.by = a /\ j.op = "delete" /\ j.snap = NoSnapshot
        BY <3>1, <1>1, NoSnapshotTyped, NewJob
      <3>3. SnapshotOK(NoSnapshot)'
        BY NoSnapshotTyped, NoEvidenceTyped DEF SnapshotOK, TrueEvidence
      <3>4. Childless' /\ ~Active'
        BY <2>2, <1>2, <1>6 DEF Childless
      <3>5. JobOK(j)'
        BY <3>2, <3>3, <3>4, <1>1 DEF JobOK
      <3>6. lane' = Append(lane, j)
        BY <2>2, <3>1 DEF EnqueueDelete, Enqueue
      <3> QED BY <3>5, <3>6
    <2> QED BY <2>1, <2>2
  <1> HIDE DEF Actors
  <1> QED BY <1>3, <1>5, <1>6, <1>7, <1>8, OutsideStep

\* worker.shutdown(), answered or not.
LEMMA ShutdownKeeps ==
    ASSUME IndInv, NEW a \in {"caller", "deletion"}, ShutdownAnswered(a) \/ ShutdownFails(a)
    PROVE  IndInv'
  <1> USE ActorFacts
  <1>1. /\ UNCHANGED <<rec, stored, present, attached, version, noted>> /\ pc[a] \in Shutdowns
    BY DEF ShutdownAnswered, ShutdownFails, daemon
  <1>2. CASE ShutdownAnswered(a)
    <2>1. PICK k \in Killed :
             /\ child' = k[1] /\ out' = k[2]
             /\ \/ NativeTerminalProof(CurrentSnapshot(k[1], k[2])) /\ EnqueueDelete(a)
                \/ Quit(a)
      BY <1>2 DEF ShutdownAnswered
    <2>2. k[1] \in {"none", "live", "residue", "gone"} /\ k[2] \in {"open", "complete", "incomplete"}
      BY KilledIsOver
    <2>3. NativeTerminalProof(CurrentSnapshot(k[1], k[2])) => k[1] = "gone"
      BY <2>2, CurrentSnapshotTrue
    <2>4. UNCHANGED <<step, laneSnap>>
      BY <2>1 DEF EnqueueDelete, Enqueue, Quit, queue
    <2> QED BY <2>1, <2>3, <2>4, <1>1, ShutdownStep
  <1>3. CASE ShutdownFails(a)
    <2>1. \/ Quit(a)
          \/ EnqueueDelete(a) /\ DirectChildGone(rec.ev)
      BY <1>3 DEF ShutdownFails
    <2>2. UNCHANGED <<step, laneSnap>>
      BY <2>1 DEF EnqueueDelete, Enqueue, Quit, queue
    <2>3. PICK k \in Killed \cup {<<child, out>>} : child' = k[1] /\ out' = k[2]
      <3>1. CASE UNCHANGED native
        <4>1. <<child, out>>[1] = child /\ <<child, out>>[2] = out
          OBVIOUS
        <4> QED BY <3>1, <4>1 DEF native
      <3>2. CASE ~UNCHANGED native
        BY <1>3, <3>2 DEF ShutdownFails
      <3> QED BY <3>1, <3>2
    <2>4. DirectChildGone(rec.ev) => child' = child /\ child \in {"none", "gone"}
      <3>1. DirectChildGone(rec.ev) => child \in {"none", "gone"}
        BY EndIsProven DEF Childless
      <3>2. CASE k \in Killed
        BY <3>1, <3>2, <2>3, KilledIsOver
      <3>3. CASE k = <<child, out>>
        <4>1. k[1] = child
          BY <3>3
        <4> QED BY <4>1, <3>1, <2>3
      <3> QED BY <3>2, <3>3
    <2> QED BY <2>1, <2>2, <2>3, <2>4, <1>1, ShutdownStep
  <1> QED BY <1>2, <1>3

-----------------------------------------------------------------------------
(* The evidence that handlers put into a record *)

\* Both flags of the cleanup are set.
Edited(r, confirmed, noChild) == [r EXCEPT !.ev.confirmed = confirmed, !.ev.noChild = noChild]

LEMMA CleanupEdit ==
    ASSUME NEW r, Loose(r), r.ev.tomb = None, NEW c \in BOOLEAN, NEW n \in BOOLEAN, n => c,
           NEW q, q = Edited(r, c, n)
    PROVE  /\ Loose(q) /\ q.state = r.state /\ q.ev \in Evidence /\ q.ev.tomb = None
           /\ q.ev.drained = r.ev.drained /\ q.ev.noChild = n
  <1>1. r \in FlatRecords /\ r.ev \in Evidence /\ Sound(r.state) /\ r.state.ev.tomb = None
    BY DEF Loose, FlatRecords, Fits
  <1>2. /\ q \in FlatRecords /\ q.state = r.state /\ q.ev \in Evidence
        /\ q.ev.tomb = r.ev.tomb /\ q.ev.drained = r.ev.drained
        /\ q.ev.noChild = n /\ q.ev.confirmed = c
    BY <1>1 DEF FlatRecords, Evidence, Edited
  <1> QED BY <1>1, <1>2 DEF Loose, Fits

\* Only the confirmation is; there is a child to confirm.
LEMMA ConfirmedEdit ==
    ASSUME NEW r, Loose(r), r.ev.tomb = None, ~r.ev.noChild, NEW c \in BOOLEAN,
           NEW q, q = [r EXCEPT !.ev.confirmed = c]
    PROVE  /\ Loose(q) /\ q.state = r.state /\ q.ev \in Evidence /\ q.ev.tomb = None
           /\ q.ev.drained = r.ev.drained /\ ~q.ev.noChild
  <1>1. r \in FlatRecords /\ r.ev \in Evidence /\ Sound(r.state) /\ r.state.ev.tomb = None
    BY DEF Loose, FlatRecords, Fits
  <1>2. /\ q \in FlatRecords /\ q.state = r.state /\ q.ev \in Evidence
        /\ q.ev.tomb = r.ev.tomb /\ q.ev.drained = r.ev.drained
        /\ q.ev.noChild = r.ev.noChild /\ q.ev.confirmed = c
    BY <1>1 DEF FlatRecords, Evidence
  <1> QED BY <1>1, <1>2 DEF Loose, Fits

\* Whatever a session had, `unreachable` ends it, and keeps its evidence.
LEMMA UnreachableEnds ==
    ASSUME NEW r, Loose(r), NEW t, t = Transition(r, "unreachable", r.ev)
    PROVE  /\ Loose(t) /\ t.ev = r.ev /\ ~Live(t.state) /\ t.state.kind # "creating"
  <1>1. Fits(r.ev, r.state) /\ "unreachable" \in Events \ {"recovered"}
    BY DEF Loose, Events
  <1>2. Accepted(r, "unreachable", r.ev)
    BY DEF Accepted, Accepts
  <1>3. /\ Loose(t) /\ t.ev \in {r.ev, r.ev}
        /\ t.state.kind # "creating"
        /\ "unreachable" \in TerminalEvents \cup {"unreachable"} => ~Live(t.state)
    BY <1>1, <1>2, TransitionLive
  <1> QED BY <1>3

\* persistNativeFinalizationFailure.
LEMMA GivenUpEnds ==
    ASSUME NEW r, Loose(r), r.ev.tomb = None, NEW t, t = GivenUp(r)
    PROVE  /\ Loose(t) /\ t.ev \in Evidence /\ t.ev.tomb = None /\ ~t.ev.noChild
           /\ t.ev.drained = r.ev.drained
           /\ ~Live(t.state) /\ t.state.kind # "creating"
  <1> DEFINE u == Transition(r, "unreachable", r.ev)
             no == FALSE
  <1>1. Loose(u) /\ u.ev = r.ev /\ ~Live(u.state) /\ u.state.kind # "creating"
    BY UnreachableEnds
  <1>2. t = [u EXCEPT !.ev.noChild = no]
    BY DEF GivenUp
  <1>3. no \in BOOLEAN /\ ~no
    OBVIOUS
  <1> HIDE DEF u, no
  <1>4. u \in FlatRecords /\ u.ev \in Evidence /\ Sound(u.state) /\ u.state.ev.tomb = None /\ u.ev.tomb = None
    BY <1>1 DEF Loose, FlatRecords, Fits
  <1>5. /\ t \in FlatRecords /\ t.state = u.state /\ t.ev \in Evidence
        /\ t.ev.tomb = u.ev.tomb /\ t.ev.drained = u.ev.drained /\ t.ev.noChild = no
    BY <1>2, <1>3, <1>4 DEF FlatRecords, Evidence
  <1> QED BY <1>1, <1>3, <1>4, <1>5 DEF Loose, Fits

-----------------------------------------------------------------------------
(* spawn *)

\* While the session starts, nothing in the lane is about a child.
LEMMA Starting ==
    ASSUME IndInv, pc["spawn"] = "starting"
    PROVE  /\ child = "none" /\ ~attached /\ Begun(rec.state) /\ step = "begin" /\ present /\ stored
           /\ Loose(rec) /\ Settled(rec) /\ rec.ev \in Evidence /\ rec.ev.tomb = None
           /\ ~rec.ev.drained /\ ~rec.ev.noChild
           /\ laneSnap \in Snapshots /\ ~laneSnap.ev.drained /\ ~laneSnap.ev.noChild
           /\ laneSnap.ev \in Evidence /\ laneSnap.ev.tomb = None
           /\ \A a \in Actors : pc[a] \notin {"watching", "failed", "syncing"} \cup Shutdowns
  <1>1. LaneInv /\ HeadInv /\ ActorInv /\ RecordInv
    BY DEF IndInv
  <1>2. child = "none" /\ \A a \in Actors : pc[a] \notin {"watching", "failed", "syncing"} \cup Shutdowns
    BY <1>1 DEF ActorInv
  <1>3. Settled(rec) /\ TrueEvidence(rec.ev) /\ ~attached /\ Begun(rec.state)
    BY <1>1 DEF RecordInv
  <1>4. Loose(rec)
    BY <1>3, SettledIsLoose
  <1>5. SnapshotOK(laneSnap) /\ step \in Steps
    BY <1>1 DEF HeadInv, LaneInv
  <1>6. step = "begin"
    BY <1>1, <1>3, <1>5 DEF HeadInv, Steps, Childless
  <1>7. present /\ stored
    BY DEF IndInv, Childless
  <1> QED BY <1>2, <1>3, <1>4, <1>5, <1>6, <1>7 DEF TrueEvidence, SnapshotOK

\* So a job that waits is none of those a child could disturb.
LEMMA StartingJob ==
    ASSUME pc["spawn"] = "starting", child = "none", NEW j, JobOK(j)
    PROVE  JobOK(j)'
  <1>1. /\ j \in Jobs /\ j.op \notin {"delete", "finish", "finalize", "rollback"} /\ j.by # "monitor"
        /\ j.by # "spawn" /\ j.snap \in Snapshots /\ j.snap.ev \in Evidence /\ j.snap.ev.tomb = None
        /\ ~j.snap.ev.drained /\ ~j.snap.ev.noChild
    BY DEF JobOK, SnapshotOK, TrueEvidence, Childless
  <1>2. SnapshotOK(j.snap)'
    BY <1>1 DEF SnapshotOK, TrueEvidence
  <1> QED BY <1>1, <1>2 DEF JobOK

\* The session is started, or not: r is the record that is saved.
LEMMA SpawnStep ==
    ASSUME IndInv, pc["spawn"] = "starting",
           UNCHANGED <<present, version, step, laneSnap, noted, out>>, stored',
           NEW r, Loose(r), rec' = Written(r), TrueEvidence(r.ev)', r.ev.noChild => ~Live(r.state),
           child' \in {"none", "live", "residue", "gone"},
           NEW s \in {"queued", "done"}, NEW m \in {"watching", "done"},
           pc' = [pc EXCEPT !["spawn"] = s, !["monitor"] = m],
           attached' \in BOOLEAN, attached' => s = "done" /\ r.state.kind # "creating",
           Live(r.state) => attached' /\ m = "watching",
           \/ lane' = lane
           \/ /\ lane' = Append(lane, Job("spawn", "delete", NoSnapshot, 0))
              /\ child' = "none" /\ ~Live(r.state)
    PROVE  IndInv'
  <1>1. LaneInv /\ HeadInv /\ ActorInv /\ RecordInv
    BY DEF IndInv
  <1> USE Starting
  <1>2. /\ Settled(rec') /\ rec'.ev = r.ev /\ (Live(rec'.state) => Live(r.state))
        /\ rec'.state.kind = "creating" => r.state.kind = "creating"
    BY WrittenLive
  <1>3. /\ pc' \in [Actors -> PCs] /\ pc'["spawn"] = s /\ pc'["monitor"] = m
        /\ \A a \in Actors : pc'[a] \in {pc[a], s, m}
    BY <1>1 DEF ActorInv, Actors, PCs
  <1>4. SnapshotOK(laneSnap)'
    BY DEF SnapshotOK, TrueEvidence
  <1>5. HeadInv'
    BY <1>4, <1>1 DEF HeadInv
  <1>6. ActorInv'
    <2>1. \A a \in Actors : pc'[a] \notin Shutdowns
      BY <1>3 DEF Shutdowns
    <2> QED BY <2>1, <1>3 DEF ActorInv
  <1>7. Active' => Live(r.state)
    BY <1>2 DEF Active
  <1>8. RecordInv'
    <2>1. TrueEvidence(rec.ev)'
      BY <1>2 DEF TrueEvidence
    <2>2. out' \in {"open", "complete", "incomplete"} /\ present' \in BOOLEAN /\ stored' \in BOOLEAN
      BY <1>1 DEF RecordInv
    <2> QED BY <2>1, <2>2, <1>2, <1>3, <1>7 DEF RecordInv
  <1>9. LaneInv'
    <2>1. /\ lane \in Seq(Jobs) /\ Len(lane) \in Nat
          /\ step' \in Steps /\ version' \in Nat /\ noted' \in Nat
      BY <1>1 DEF LaneInv
    <2>2. ASSUME NEW i \in 1..Len(lane), lane'[i] = lane[i]
          PROVE  JobOK(lane[i])'
      <3>1. PICK x : x = lane[i]
        OBVIOUS
      <3>2. JobOK(x) /\ lane'[i] = x
        BY <2>2, <3>1, <1>1 DEF LaneInv
      <3>3. JobOK(x)'
        BY <3>2, StartingJob
      <3> QED BY <3>2, <3>3 DEF JobOK
    <2>3. CASE lane' = lane
      <3>1. \A i \in 1..Len(lane') : JobOK(lane[i])'
        BY <2>2, <2>3
      <3> QED BY <3>1, <2>1, <2>3 DEF LaneInv
    <2>4. CASE lane' # lane
      <3>1. PICK j : j = Job("spawn", "delete", NoSnapshot, 0)
        OBVIOUS
      <3>2. j \in Jobs /\ j.by = "spawn" /\ j.op = "delete" /\ j.snap = NoSnapshot
        BY <3>1, NoSnapshotTyped, NewJob DEF Actors
      <3>3. SnapshotOK(NoSnapshot)'
        BY NoSnapshotTyped, NoEvidenceTyped DEF SnapshotOK, TrueEvidence
      <3>4. Childless' /\ ~Active'
        BY <2>4, <1>3, <1>7 DEF Childless
      <3>5. JobOK(j)'
        BY <3>2, <3>3, <3>4 DEF JobOK
      <3>6. lane' = Append(lane, j)
        BY <2>4, <3>1
      <3>7. /\ lane' \in Seq(Jobs) /\ Len(lane') = Len(lane) + 1
            /\ \A i \in 1..Len(lane) : lane'[i] = lane[i]
            /\ lane'[Len(lane) + 1] = j
        BY <3>2, <3>6, <2>1
      <3>8. ASSUME NEW i \in 1..Len(lane')
            PROVE  JobOK(lane[i])'
        <4>1. CASE i \in 1..Len(lane)
          BY <4>1, <3>7, <2>2
        <4>2. CASE i = Len(lane) + 1
          BY <4>2, <3>5, <3>7
        <4> QED BY <4>1, <4>2, <3>7, <2>1
      <3> QED BY <3>7, <3>8, <2>1 DEF LaneInv
    <2> QED BY <2>3, <2>4
  <1>10. present' /\ stored'
    OBVIOUS
  <1>11. RunningIsWatched'
    <2>1. Live(rec'.state) => attached' /\ pc'["monitor"] # "done"
      BY <1>2, <1>3
    <2> QED BY <2>1 DEF RunningIsWatched, Live
  <1> QED BY <1>5, <1>6, <1>8, <1>9, <1>10, <1>11 DEF IndInv

\* worker_ready leaves no record in `creating`: a session that is not marked
\* for cleanup accepts it.
LEMMA ReadyIsSeen ==
    ASSUME NEW r, Settled(r), NEW t, t = Transition(r, "worker_ready", r.ev)
    PROVE  Loose(t) /\ t.ev = r.ev /\ t.state.kind # "creating"
  <1>1. Loose(r) /\ r.ev = r.state.ev /\ (r.pendingCleanup <=> r.state.kind = "cleaning")
    BY SettledIsLoose
  <1>2. /\ Fits(r.ev, r.state) /\ "worker_ready" \in Events \ {"recovered"}
        /\ r.state \in States
    BY <1>1 DEF Loose, Events, Sound
  <1>3. /\ Loose(t) /\ t.ev \in {r.ev, r.ev}
        /\ Accepted(r, "worker_ready", r.ev) => t.state.kind # "creating"
        /\ ~Accepted(r, "worker_ready", r.ev) => t = r
    BY <1>1, <1>2, TransitionLive
  <1>4. CASE r.state.kind = "creating"
    <2> DEFINE fresh == [r.state EXCEPT !.ev = r.ev]
    <2>1. fresh.kind = "creating"
      BY <1>2, <1>4 DEF States
    <2>2. Refresh(r.state, r.ev, r.pendingCleanup) = fresh
      BY <1>1, <1>4 DEF Refresh
    <2> HIDE DEF fresh
    <2>3. Accepted(r, "worker_ready", r.ev)
      BY <2>1, <2>2 DEF Accepted, Accepts
    <2> QED BY <2>3, <1>3
  <1>5. CASE r.state.kind # "creating"
    BY <1>3, <1>5
  <1> QED BY <1>3, <1>4, <1>5

\* A session that has not begun accepts that its start failed.
LEMMA SpawnFailureEnds ==
    ASSUME NEW r, Loose(r), Begun(r.state), NEW t, t = Transition(r, "spawn_failed", r.ev)
    PROVE  Loose(t) /\ t.ev = r.ev /\ ~Live(t.state) /\ t.state.kind # "creating"
  <1>1. /\ Fits(r.ev, r.state) /\ "spawn_failed" \in Events \ {"recovered"}
        /\ "spawn_failed" \in TerminalEvents
        /\ Sound(r.state) /\ r.pendingCleanup \in BOOLEAN
    BY DEF Loose, Events, TerminalEvents, FlatRecords
  <1>2. PICK fresh : fresh = Refresh(r.state, r.ev, r.pendingCleanup)
    OBVIOUS
  <1>3. Begun(fresh)
    BY <1>1, <1>2, RefreshLive
  <1>4. Accepts(fresh, "spawn_failed")
    BY <1>3 DEF Begun, Accepts, TerminalEvents
  <1>5. Accepted(r, "spawn_failed", r.ev)
    BY <1>2, <1>4 DEF Accepted
  <1> QED BY <1>1, <1>5, TransitionLive

\* spawn: the session runs, never began, or was rolled back.
LEMMA SpawnKeeps ==
    ASSUME IndInv, SpawnSucceeds \/ SpawnFails \/ SpawnSaveFails
    PROVE  IndInv'
  <1>1. /\ UNCHANGED <<present, version, noted, out>> /\ pc["spawn"] = "starting"
    BY DEF SpawnSucceeds, SpawnFails, SpawnSaveFails
  <1> USE Starting
  <1>2. CASE SpawnSucceeds
    <2>1. PICK r : r = Transition(rec, "worker_ready", rec.ev)
      OBVIOUS
    <2>2. Loose(r) /\ r.ev = rec.ev /\ r.state.kind # "creating"
      BY <1>1, <2>1, ReadyIsSeen
    <2>3. /\ rec' = Written(r) /\ stored' /\ child' = "live" /\ attached' = TRUE
          /\ UNCHANGED <<lane, step, laneSnap>>
      BY <1>1, <1>2, <2>1 DEF SpawnSucceeds, Save, queue
    <2>4. PICK s \in {"queued", "done"}, m \in {"watching", "done"} :
             /\ pc' = [pc EXCEPT !["spawn"] = s, !["monitor"] = m] /\ s = "done" /\ m = "watching"
      BY <1>2 DEF SpawnSucceeds
    <2>5. TrueEvidence(r.ev)'
      BY <2>2, <1>1 DEF TrueEvidence
    <2>6. ~r.ev.noChild /\ attached' /\ attached' \in BOOLEAN
      BY <2>2, <2>3, <1>1
    <2> QED BY <2>2, <2>3, <2>4, <2>5, <2>6, <1>1, SpawnStep
  <1>3. CASE SpawnFails
    <2>1. PICK now \in {"none", "live", "residue", "gone"}, c \in BOOLEAN, n \in BOOLEAN, w \in BOOLEAN :
             LET r == [rec EXCEPT !.ev.confirmed = c, !.ev.noChild = n]
             IN  /\ n => c /\ now = "none"
                 /\ w => n
                 /\ child' = now
                 /\ worker' = IF w \/ (~c /\ now = "none") THEN "none"
                              ELSE IF c THEN "down" ELSE "up"
                 /\ \E t \in {Transition(r, IF n THEN "spawn_failed" ELSE "unreachable", r.ev)} :
                       Save(t, TRUE)
                 /\ IF w THEN Enqueue(Job("spawn", "delete", NoSnapshot, 0))
                    ELSE UNCHANGED queue
                 /\ pc' = [pc EXCEPT !["spawn"] = IF w THEN "queued" ELSE "done",
                                     !["monitor"] = "done"]
      BY <1>3, Zenon DEF SpawnFails
    <2>0. /\ n => c /\ now = "none"
          /\ w => n
          /\ child' = now
      BY <2>1
    <2>2. PICK r : r = [rec EXCEPT !.ev.confirmed = c, !.ev.noChild = n]
      OBVIOUS
    <2>3. /\ Loose(r) /\ r.state = rec.state /\ r.ev \in Evidence /\ r.ev.tomb = None
          /\ r.ev.drained = rec.ev.drained /\ r.ev.noChild = n
      <3>1. Loose(rec) /\ rec.ev.tomb = None /\ (n => c)
        BY <1>1, <2>0
      <3>2. r = Edited(rec, c, n)
        BY <2>2, Zenon DEF Edited
      <3> QED BY <3>1, <3>2, CleanupEdit
    <2>4. PICK event : event = IF n THEN "spawn_failed" ELSE "unreachable"
      OBVIOUS
    <2>5. PICK t : t = Transition(r, event, r.ev)
      OBVIOUS
    <2>6. /\ rec' = Written(t) /\ stored'
      BY <2>1, <2>2, <2>4, <2>5, <1>1 DEF Save
    <2>7. Loose(t) /\ t.ev = r.ev /\ ~Live(t.state) /\ t.state.kind # "creating"
      <3>1. CASE n
        BY <3>1, <2>3, <2>4, <2>5, <1>1, SpawnFailureEnds
      <3>2. CASE ~n
        BY <3>2, <2>3, <2>4, <2>5, UnreachableEnds
      <3> QED BY <3>1, <3>2
    <2>8. PICK s \in {"queued", "done"}, m \in {"watching", "done"} :
             /\ pc' = [pc EXCEPT !["spawn"] = s, !["monitor"] = m]
             /\ s = IF w THEN "queued" ELSE "done"
             /\ m = "done"
      BY <2>1
    <2>9. /\ UNCHANGED <<step, laneSnap>> /\ attached' = attached
          /\ \/ lane' = lane
             \/ lane' = Append(lane, Job("spawn", "delete", NoSnapshot, 0)) /\ child' = "none"
      BY <2>1, <1>3 DEF Enqueue, queue, SpawnFails
    <2>10. TrueEvidence(r.ev)'
      <3>1. "spawn" \in Actors /\ pc \in [Actors -> PCs]
        BY DEF Actors, IndInv, ActorInv
      <3>2. pc'["spawn"] = s
        BY <3>1, <2>8
      <3> QED BY <3>2, <2>1, <2>3, <1>1 DEF TrueEvidence
    <2>11. attached' \in BOOLEAN /\ ~attached'
      BY <2>9, <1>1 DEF IndInv, RecordInv
    <2>12. child' \in {"none", "live", "residue", "gone"}
      BY <2>1
    <2>13. TrueEvidence(t.ev)'
      BY <2>7, <2>10 DEF TrueEvidence
    <2> QED BY <2>6, <2>7, <2>8, <2>9, <2>11, <2>12, <2>13, <1>1, SpawnStep
  <1>4. CASE SpawnSaveFails
    <2>1. PICK r : r = Transition(rec, "worker_ready", rec.ev)
      OBVIOUS
    <2>2. Loose(r) /\ r.ev = rec.ev /\ r.state.kind # "creating"
      BY <1>1, <2>1, ReadyIsSeen
    <2>3. PICK c \in BOOLEAN :
             LET q == [r EXCEPT !.ev.confirmed = c]
             IN  /\ child' \in {"live", "residue", "gone"}
                 /\ \E u \in {Transition(q, "unreachable", q.ev)} : Save(u, TRUE)
      BY <1>4, <2>1 DEF SpawnSaveFails
    <2>4. PICK q : q = [r EXCEPT !.ev.confirmed = c]
      OBVIOUS
    <2>5. /\ Loose(q) /\ q.ev \in Evidence /\ q.ev.tomb = None
          /\ ~q.ev.drained /\ ~q.ev.noChild
      <3>1. Loose(r) /\ r.ev.tomb = None /\ ~r.ev.noChild /\ ~r.ev.drained
        BY <1>1, <2>2
      <3>2. /\ Loose(q) /\ q.ev \in Evidence /\ q.ev.tomb = None
            /\ q.ev.drained = r.ev.drained /\ ~q.ev.noChild
        BY <3>1, <2>4, ConfirmedEdit
      <3> QED BY <3>1, <3>2
    <2>6. PICK u : u = Transition(q, "unreachable", q.ev)
      OBVIOUS
    <2>7. Loose(u) /\ u.ev = q.ev /\ ~Live(u.state) /\ u.state.kind # "creating"
      BY <2>5, <2>6, UnreachableEnds
    <2>8. /\ rec' = Written(u) /\ stored'
      BY <2>3, <2>4, <2>6, <1>1 DEF Save
    <2>9. /\ attached' = TRUE /\ UNCHANGED <<lane, step, laneSnap>>
      BY <1>4 DEF SpawnSaveFails, queue
    <2>10. PICK s \in {"queued", "done"}, m \in {"watching", "done"} :
             /\ pc' = [pc EXCEPT !["spawn"] = s, !["monitor"] = m] /\ s = "done"
      BY <1>4 DEF SpawnSaveFails
    <2>11. TrueEvidence(u.ev)' /\ ~u.ev.noChild
      BY <2>5, <2>7 DEF TrueEvidence
    <2>12. child' \in {"none", "live", "residue", "gone"} /\ attached' \in BOOLEAN
      BY <2>3, <2>9
    <2> QED BY <2>7, <2>8, <2>9, <2>10, <2>11, <2>12, <1>1, SpawnStep
  <1> QED BY <1>2, <1>3, <1>4

-----------------------------------------------------------------------------
(* Jobs of the lane *)

\* What a job may do to the record, its worker and the child.
RecordNext ==
    /\ Settled(rec') /\ rec'.ev \in Evidence /\ rec'.ev.tomb = None
    /\ rec'.ev.drained => child' = "gone"
    /\ rec'.ev.noChild => child' = "none" /\ pc["spawn"] # "starting" /\ ~Active'
    /\ Active' => Active /\ attached' = attached /\ present' = present
    /\ attached' => attached /\ rec'.state.kind # "creating"
    /\ pc["spawn"] = "starting" => Begun(rec'.state)
    /\ attached' \in BOOLEAN /\ present' \in BOOLEAN /\ stored' \in BOOLEAN
    /\ child' \in {"none", "live", "residue", "gone"} /\ out' \in {"open", "complete", "incomplete"}
    /\ child \in {"none", "gone"} => child' = child
    /\ Over => Over'
    /\ ~present' \/ ~stored' => Childless
    /\ version' \in Nat /\ noted' = noted

\* The record is left alone.
LEMMA RecordSame ==
    ASSUME IndInv, UNCHANGED <<rec, stored, present, attached, noted>>, version' \in Nat,
           child' \in {"none", "live", "residue", "gone"}, out' \in {"open", "complete", "incomplete"},
           child \in {"none", "gone"} => child' = child, Over => Over'
    PROVE  RecordNext
  <1>1. RecordInv /\ (~present \/ ~stored => Childless)
    BY DEF IndInv
  <1>2. Settled(rec) /\ TrueEvidence(rec.ev)
    BY <1>1 DEF RecordInv
  <1>3. Active' <=> Active
    BY DEF Active
  <1> QED BY <1>1, <1>2, <1>3 DEF RecordNext, RecordInv, TrueEvidence

\* r is saved.
LEMMA RecordSaved ==
    ASSUME IndInv, UNCHANGED <<present, noted>>, version' \in Nat,
           NEW r, Loose(r), rec' = Written(r), r.ev \in Evidence, r.ev.tomb = None,
           r.ev.drained => child' = "gone",
           r.ev.noChild => child' = "none" /\ pc["spawn"] # "starting" /\ ~Live(r.state),
           Live(r.state) => Active /\ attached' = attached,
           r.state.kind = "creating" => rec.state.kind = "creating",
           pc["spawn"] = "starting" => Begun(r.state),
           attached' \in BOOLEAN, attached' => attached,
           stored' \in BOOLEAN, stored => stored',
           child' \in {"none", "live", "residue", "gone"}, out' \in {"open", "complete", "incomplete"},
           child \in {"none", "gone"} => child' = child, Over => Over'
    PROVE  RecordNext
  <1>1. RecordInv /\ (~present \/ ~stored => Childless)
    BY DEF IndInv
  <1>2. /\ Settled(rec') /\ rec'.ev = r.ev /\ (Live(rec'.state) => Live(r.state))
        /\ rec'.state.kind = "creating" => r.state.kind = "creating"
        /\ Begun(r.state) => Begun(rec'.state)
    BY WrittenLive
  <1>3. Active' => Live(r.state)
    BY <1>2 DEF Active
  <1>4. attached => rec.state.kind # "creating"
    BY <1>1 DEF RecordInv
  <1>5. present \in BOOLEAN
    BY <1>1 DEF RecordInv
  <1> QED BY <1>1, <1>2, <1>3, <1>4, <1>5 DEF RecordNext

\* What follows for the record and the actors, wherever its client goes on.
LEMMA JobStep ==
    ASSUME IndInv, RecordNext, pc' \in [Actors -> PCs],
           pc'["spawn"] \in {"starting", "queued", "done"},
           pc'["spawn"] = "starting" <=> pc["spawn"] = "starting",
           pc["spawn"] = "done" => pc'["spawn"] = "done",
           \A a \in Actors : pc'[a] \in {"watching", "failed", "syncing"} => pc["spawn"] # "starting",
           \A a \in Actors : pc'[a] \in Shutdowns => pc[a] \in Shutdowns
    PROVE  /\ Onward /\ ActorInv' /\ RecordInv'
           /\ ~present' \/ ~stored' => Childless'
  <1>1. ActorInv /\ RecordInv
    BY DEF IndInv
  <1>2. Onward
    <2>1. Active' => Active
      BY DEF RecordNext
    <2>2. /\ child \in {"none", "gone"} => child' = child
          /\ Over => Over'
      BY DEF RecordNext
    <2> QED BY <2>1, <2>2 DEF Onward
  <1>3. ActorInv'
    <2>1. pc["spawn"] = "starting" => child' = "none"
      BY <1>1 DEF ActorInv, RecordNext
    <2>2. \A a \in Actors : pc'[a] \in Shutdowns => pc["spawn"] # "starting" /\ ~Active'
      BY <1>1 DEF ActorInv, RecordNext
    <2> QED BY <2>1, <2>2 DEF ActorInv
  <1>4. RecordInv'
    <2>1. TrueEvidence(rec.ev)'
      BY DEF RecordNext, TrueEvidence
    <2>2. attached' => pc'["spawn"] = "done"
      BY <1>1 DEF RecordInv, RecordNext
    <2> QED BY <2>1, <2>2 DEF RecordInv, RecordNext
  <1>5. ~present' \/ ~stored' => Childless'
    BY DEF RecordNext, Childless
  <1> QED BY <1>2, <1>3, <1>4, <1>5

\* The snapshot that the head works with stays true.
LEMMA SnapshotNext ==
    ASSUME IndInv, Onward, laneSnap' = laneSnap
    PROVE  SnapshotOK(laneSnap)'
  <1>1. PICK x : x = laneSnap
    OBVIOUS
  <1>2. SnapshotOK(x) /\ laneSnap' = x
    BY <1>1 DEF IndInv, HeadInv
  <1>3. SnapshotOK(x)'
    BY <1>2, SnapshotKept
  <1> QED BY <1>2, <1>3 DEF SnapshotOK

\* The head of the lane takes a step and stays.
LEMMA LaneStays ==
    ASSUME IndInv, RecordNext, UNCHANGED <<lane, pc>>, lane # <<>>,
           step' \in Steps, laneSnap' = laneSnap \/ SnapshotOK(laneSnap)',
           step' \in {"stopRpc", "finalRpc", "finish", "shutdownRpc", "rollbackRpc"} => attached',
           step' = "finalRpc" => Over',
           step' = "stopRpc" => lane[1].by # "monitor",
           step' = "finish" => lane[1].by # "monitor" \/ NativeTerminal(laneSnap'),
           step' = "shutdownRpc" => ~Active',
           step' = "rm" => Childless /\ ~Active
    PROVE  IndInv'
  <1>1. LaneInv /\ ActorInv /\ RecordInv /\ RunningIsWatched
    BY DEF IndInv
  <1>2. /\ Onward /\ ActorInv' /\ RecordInv'
        /\ ~present' \/ ~stored' => Childless'
    <2>1. /\ pc' \in [Actors -> PCs] /\ pc'["spawn"] \in {"starting", "queued", "done"}
          /\ \A a \in Actors : pc'[a] \in {"watching", "failed", "syncing"} => pc["spawn"] # "starting"
      BY <1>1 DEF ActorInv
    <2> QED BY <2>1, JobStep
  <1>3. SnapshotOK(laneSnap)'
    BY <1>2, SnapshotNext
  <1>4. LaneInv'
    <2>1. version' \in Nat /\ noted' \in Nat
      BY <1>1 DEF RecordNext, LaneInv
    <2> QED BY <2>1, <1>1, <1>2, LaneSame
  <1>5. HeadInv'
    <2>1. step' = "rm" => Childless' /\ ~Active'
      BY DEF RecordNext, Childless
    <2>2. lane' = lane
      OBVIOUS
    <2> QED BY <2>1, <2>2, <1>3 DEF HeadInv
  <1>6. RunningIsWatched'
    <2>1. Active' => Active /\ attached' = attached /\ present' = present
      BY DEF RecordNext
    <2> QED BY <2>1, <1>1 DEF RunningIsWatched, Active, Live
  <1> QED BY <1>2, <1>4, <1>5, <1>6 DEF IndInv

\* Where the client of a job goes on.
LEMMA GoesOn ==
    ASSUME IndInv, NEW j, JobOK(j), NEW where, where \in {Returned(j), Thrown(j)}
    PROVE  /\ where \in PCs \ Shutdowns /\ where # "starting"
           /\ where \in {"watching", "failed", "syncing"} => pc["spawn"] # "starting"
           /\ j.by = "spawn" => where = "done" /\ ~Active /\ pc["spawn"] # "starting"
           /\ j.by = "monitor" /\ where = "done" => j.op # "finish"
           /\ j.by = "monitor" /\ j.op # "rollback" => Thrown(j) # "done"
           /\ j.by \in Actors
  <1>1. /\ j.by \in Actors /\ (j.by = "spawn" => j.op = "delete")
        /\ j.by = "monitor" => j.op \in {"finish", "finalize", "rollback"} /\ pc["spawn"] # "starting"
        /\ j.op = "delete" => ~Active /\ pc["spawn"] # "starting"
    BY DEF JobOK, Jobs, Childless
  <1>2. where \in {"watching", "done", "marked", "cleanup", "idle", "failed"}
    BY DEF Returned, Thrown
  <1>3. where \in {"watching", "failed"} => j.by = "monitor"
    BY DEF Returned, Thrown
  <1>4. j.by = "spawn" => where = "done"
    BY DEF Returned, Thrown
  <1>5. /\ j.by = "monitor" /\ where = "done" => j.op # "finish"
        /\ j.by = "monitor" /\ j.op # "rollback" => Thrown(j) # "done"
    BY DEF Returned, Thrown
  <1> QED BY <1>1, <1>2, <1>3, <1>4, <1>5 DEF PCs, Shutdowns

\* The head of the lane is done.
LEMMA LaneLeaves ==
    ASSUME IndInv, RecordNext, lane # <<>>,
           NEW where, where \in {Returned(Head1), Thrown(Head1)}, Leave(where),
           Head1.by = "monitor" /\ where = "done" => ~attached \/ ~Active'
    PROVE  IndInv'
  <1>1. LaneInv /\ ActorInv /\ RecordInv /\ RunningIsWatched
    BY DEF IndInv
  <1>2. PICK j : j = Head1
    OBVIOUS
  <1>3. JobOK(j)
    <2>1. lane \in Seq(Jobs) /\ 1 \in 1..Len(lane)
      BY <1>1 DEF LaneInv
    <2>2. j = lane[1]
      BY <1>2, <2>1 DEF Head1
    <2> QED BY <2>1, <2>2, <1>1 DEF LaneInv
  <1>4. /\ where \in PCs \ Shutdowns /\ where # "starting"
        /\ where \in {"watching", "failed", "syncing"} => pc["spawn"] # "starting"
        /\ j.by = "spawn" => where = "done" /\ ~Active /\ pc["spawn"] # "starting"
        /\ j.by \in Actors
    BY <1>2, <1>3, GoesOn
  <1>5. /\ lane' = Tail(lane) /\ step' = "begin" /\ laneSnap' = NoSnapshot
        /\ pc' = [pc EXCEPT ![j.by] = where]
    BY <1>2 DEF Leave
  <1>6. /\ pc' \in [Actors -> PCs] /\ \A a \in Actors : pc'[a] = IF a = j.by THEN where ELSE pc[a]
        /\ "spawn" \in Actors /\ "monitor" \in Actors
    BY <1>1, <1>4, <1>5 DEF ActorInv, Actors
  <1>7. /\ pc'["spawn"] \in {"starting", "queued", "done"}
        /\ pc'["spawn"] = "starting" <=> pc["spawn"] = "starting"
        /\ pc["spawn"] = "done" => pc'["spawn"] = "done"
        /\ pc'["spawn"] = "done" => pc["spawn"] = "done" \/ ~Active
    BY <1>1, <1>4, <1>6 DEF ActorInv
  <1>8. /\ \A a \in Actors : pc'[a] \in {"watching", "failed", "syncing"} => pc["spawn"] # "starting"
        /\ \A a \in Actors : pc'[a] \in Shutdowns => pc[a] \in Shutdowns
    BY <1>1, <1>4, <1>6 DEF ActorInv
  <1>9. /\ Onward /\ ActorInv' /\ RecordInv'
        /\ ~present' \/ ~stored' => Childless'
    BY <1>6, <1>7, <1>8, JobStep
  <1>10. LaneInv'
    <2>1. version' \in Nat /\ noted' \in Nat /\ step' \in Steps
      BY <1>1, <1>5 DEF RecordNext, LaneInv, Steps
    <2> QED BY <2>1, <1>1, <1>5, <1>9, LaneShrinks
  <1>11. HeadInv'
    <2>1. SnapshotOK(laneSnap)'
      BY <1>5, NoSnapshotTyped, NoEvidenceTyped DEF SnapshotOK, TrueEvidence
    <2> QED BY <2>1, <1>5 DEF HeadInv
  <1>12. RunningIsWatched'
    <2>1. Active' => Active /\ attached' = attached /\ present' = present
      BY DEF RecordNext
    <2>2. Active' /\ attached => (pc'["monitor"] = "done" => pc["monitor"] = "done")
      BY <1>2, <1>6
    <2>3. Active /\ present /\ pc["spawn"] = "done" => attached /\ pc["monitor"] # "done"
      BY <1>1 DEF RunningIsWatched, Active, Live
    <2>4. Active' /\ present' /\ pc'["spawn"] = "done" => attached' /\ pc'["monitor"] # "done"
      <3> SUFFICES ASSUME Active', present', pc'["spawn"] = "done"
                   PROVE  attached' /\ pc'["monitor"] # "done"
        OBVIOUS
      <3>1. Active /\ attached' = attached /\ present
        BY <2>1
      <3>2. attached /\ pc["monitor"] # "done"
        BY <3>1, <2>3, <1>7
      <3> QED BY <3>1, <3>2, <2>2
    <2> QED BY <2>4 DEF RunningIsWatched, Active, Live
  <1> QED BY <1>9, <1>10, <1>11, <1>12 DEF IndInv

\* What a job finds when its turn comes.
LEMMA AtTurn ==
    ASSUME IndInv, lane # <<>>
    PROVE  /\ Head1 = lane[1] /\ JobOK(Head1)
           /\ Loose(rec) /\ Settled(rec) /\ rec.ev \in Evidence /\ rec.ev.tomb = None
           /\ rec.ev.drained => child = "gone"
           /\ rec.ev.noChild => child = "none" /\ pc["spawn"] # "starting" /\ ~Active
           /\ attached => pc["spawn"] = "done" /\ rec.state.kind # "creating"
           /\ pc["spawn"] = "starting" => Begun(rec.state)
           /\ attached \in BOOLEAN /\ stored \in BOOLEAN /\ present \in BOOLEAN
           /\ step \in Steps /\ version \in Nat /\ version + 1 \in Nat
           /\ SnapshotOK(laneSnap)
           /\ step \in {"stopRpc", "finalRpc", "finish", "shutdownRpc", "rollbackRpc"} => attached
  <1>1. LaneInv /\ HeadInv /\ ActorInv /\ RecordInv
    BY DEF IndInv
  <1>2. lane \in Seq(Jobs) /\ 1 \in 1..Len(lane)
    BY <1>1 DEF LaneInv
  <1>3. Head1 = lane[1]
    BY <1>2 DEF Head1
  <1>4. JobOK(Head1)
    <2>1. PICK j : j = lane[1]
      OBVIOUS
    <2>2. JobOK(j)
      BY <2>1, <1>1, <1>2 DEF LaneInv
    <2> QED BY <2>1, <2>2, <1>3
  <1>5. Settled(rec) /\ TrueEvidence(rec.ev) /\ Loose(rec)
    BY <1>1, SettledIsLoose DEF RecordInv
  <1>6. version \in Nat /\ version + 1 \in Nat /\ step \in Steps
    BY <1>1 DEF LaneInv
  <1>7. /\ SnapshotOK(laneSnap)
        /\ step \in {"stopRpc", "finalRpc", "finish", "shutdownRpc", "rollbackRpc"} => attached
    BY <1>1 DEF HeadInv
  <1> QED BY <1>1, <1>3, <1>4, <1>5, <1>6, <1>7 DEF RecordInv, TrueEvidence

\* The mark for cleanup.
LEMMA MarkKeeps ==
    ASSUME IndInv, Mark
    PROVE  IndInv'
  <1>1. lane # <<>> /\ Head1.op = "mark"
    BY DEF Mark, Begins
  <1>2. PICK written \in BOOLEAN :
           /\ Save([rec EXCEPT !.pendingCleanup = TRUE], written)
           /\ Leave(IF written THEN Returned(Head1) ELSE Thrown(Head1))
    BY Zenon DEF Mark
  <1>3. UNCHANGED <<present, attached, version, child, out, noted>>
    BY DEF Mark, native
  <1> USE AtTurn, ActorFacts
  <1> DEFINE yes == TRUE
             r == [rec EXCEPT !.pendingCleanup = yes]
  <1>4. rec' = Written(r) /\ stored' = (stored \/ written)
    BY <1>2 DEF Save
  <1>5. yes \in BOOLEAN
    OBVIOUS
  <1> HIDE DEF yes
  <1>6. r \in FlatRecords /\ r.state = rec.state /\ r.ev = rec.ev
    BY <1>1, <1>5 DEF Loose, FlatRecords
  <1> HIDE DEF r
  <1>7. Loose(r)
    BY <1>1, <1>6 DEF Loose
  <1>8. RecordNext
    <2>1. Over => Over'
      BY <1>3 DEF Over
    <2>2. stored' \in BOOLEAN /\ (stored => stored')
      BY <1>1, <1>2, <1>4
    <2>3. Live(r.state) <=> Active
      BY <1>6 DEF Active
    <2> QED BY <2>1, <2>2, <2>3, <1>1, <1>3, <1>4, <1>6, <1>7, RecordSaved
  <1>9. PICK where : where = IF written THEN Returned(Head1) ELSE Thrown(Head1)
    OBVIOUS
  <1>10. Head1.by # "monitor"
    BY <1>1 DEF JobOK
  <1> QED BY <1>1, <1>2, <1>8, <1>9, <1>10, LaneLeaves

\* An observation that reaches the record.
LEMMA ObservedKeeps ==
    ASSUME IndInv, lane # <<>>, pc["spawn"] # "starting",
           UNCHANGED <<present, attached, child, out, noted>>, version' \in Nat,
           NEW s, SnapshotOK(s), NEW seen, seen = Transition(rec, WorkerEvent(s), s.ev),
           Accepted(rec, WorkerEvent(s), s.ev),
           NEW r, r \in {seen, GivenUp(seen)}, rec' = Written(r), stored' = TRUE
    PROVE  /\ RecordNext
           /\ r = GivenUp(seen) \/ WorkerEvent(s) # "worker_ready" => ~Active'
  <1> USE AtTurn, ActorFacts
  <1>1. WorkerEvent(s) \in {"unreachable", "worker_ready", "child_exited"}
    BY DEF WorkerEvent
  <1>2. /\ s.ev \in Evidence /\ s.ev.tomb = None /\ (s.ev.drained => child = "gone") /\ ~s.ev.noChild
    BY DEF SnapshotOK, TrueEvidence
  <1>3. Fits(s.ev, rec.state)
    <2>1. rec.state.ev.tomb = None
      BY DEF Loose, Fits
    <2> QED BY <2>1, <1>2 DEF Fits
  <1>4. WorkerEvent(s) \in Events \ {"recovered"}
    BY <1>1 DEF Events
  <1>5. /\ Loose(seen) /\ seen.ev = s.ev /\ seen.state.kind # "creating"
        /\ Live(seen.state) => Live(rec.state)
        /\ WorkerEvent(s) \in TerminalEvents \cup {"unreachable"} => ~Live(seen.state)
    BY <1>3, <1>4, TransitionLive
  <1>6. /\ Loose(r) /\ r.ev \in Evidence /\ r.ev.tomb = None /\ ~r.ev.noChild
        /\ r.ev.drained => child = "gone"
        /\ r.state.kind # "creating" /\ (Live(r.state) => Live(seen.state))
        /\ r = GivenUp(seen) => ~Live(r.state)
    <2>1. CASE r = seen /\ r # GivenUp(seen)
      BY <2>1, <1>2, <1>5
    <2>2. CASE r = GivenUp(seen)
      <3>1. /\ Loose(r) /\ r.ev \in Evidence /\ r.ev.tomb = None /\ ~r.ev.noChild
            /\ r.ev.drained = seen.ev.drained
            /\ ~Live(r.state) /\ r.state.kind # "creating"
        BY <2>2, <1>2, <1>5, GivenUpEnds
      <3> QED BY <3>1, <1>2, <1>5
    <2> QED BY <2>1, <2>2
  <1>7. Over => Over'
    BY DEF Over
  <1>8. Live(r.state) => Active
    BY <1>5, <1>6 DEF Active
  <1>9. stored' \in BOOLEAN /\ stored'
    OBVIOUS
  <1>10. child' = child /\ out' = out /\ attached' = attached
    OBVIOUS
  <1>11. RecordNext
    BY <1>6, <1>7, <1>8, <1>9, <1>10, RecordSaved
  <1>12. Active' => Live(r.state)
    <2>1. Live(rec'.state) => Live(r.state)
      BY <1>6, WrittenLive
    <2> QED BY <2>1 DEF Active
  <1>13. WorkerEvent(s) # "worker_ready" => WorkerEvent(s) \in TerminalEvents \cup {"unreachable"}
    BY <1>1 DEF TerminalEvents
  <1> QED BY <1>5, <1>6, <1>11, <1>12, <1>13

\* The record after an observation, accepted or refused.
LEMMA ObservationKeeps ==
    ASSUME IndInv, lane # <<>>, pc["spawn"] # "starting",
           UNCHANGED <<present, attached, child, out, noted>>, version' \in Nat,
           NEW s, SnapshotOK(s), NEW written \in BOOLEAN, Observed(s, written)
    PROVE  /\ RecordNext
           /\ Accepted(rec, WorkerEvent(s), s.ev) /\ WorkerEvent(s) # "worker_ready" => ~Active'
           /\ ~Accepted(rec, WorkerEvent(s), s.ev) => rec' = rec
  <1>1. CASE Accepted(rec, WorkerEvent(s), s.ev)
    <2>1. PICK seen : seen = Transition(rec, WorkerEvent(s), s.ev)
      OBVIOUS
    <2>2. PICK r : r = IF written THEN seen ELSE GivenUp(seen)
      OBVIOUS
    <2>3. Save(r, TRUE)
      BY <1>1, <2>1, <2>2 DEF Observed
    <2>4. rec' = Written(r) /\ stored' = TRUE
      BY <2>3 DEF Save
    <2>5. r \in {seen, GivenUp(seen)}
      BY <2>2
    <2> QED BY <1>1, <2>1, <2>4, <2>5, ObservedKeeps
  <1>2. CASE ~Accepted(rec, WorkerEvent(s), s.ev)
    <2>1. UNCHANGED <<rec, stored>>
      BY <1>2 DEF Observed
    <2>2. Over => Over'
      BY DEF Over
    <2>3. RecordNext
      BY <2>1, <2>2, ActorFacts, RecordSame
    <2> QED BY <1>2, <2>1, <2>3
  <1> QED BY <1>1, <1>2

\* finishNativeVersion for a snapshot that may be stale.
LEMMA FinishJobKeeps ==
    ASSUME IndInv, FinishJob
    PROVE  IndInv'
  <1> USE AtTurn, ActorFacts
  <1>1. lane # <<>> /\ Head1.op = "finish"
    BY DEF FinishJob, Begins
  <1>2. UNCHANGED <<present, attached, version, child, out, noted>>
    BY DEF FinishJob, native
  <1>3. pc["spawn"] # "starting" /\ SnapshotOK(Head1.snap)
    BY <1>1 DEF JobOK
  <1>4. PICK s : s = Head1.snap
    OBVIOUS
  <1>5. PICK where \in {Returned(Head1), Thrown(Head1)} : Leave(where) /\ RecordNext
    <2>1. CASE Current(Head1)
      <3>1. PICK written \in BOOLEAN :
               /\ Writes(written)
               /\ Observed(Head1.snap, written)
               /\ Leave(IF Throws(Head1.snap, written) THEN Thrown(Head1) ELSE Returned(Head1))
        BY <2>1, Zenon DEF FinishJob
      <3>2. Observed(s, written) /\ SnapshotOK(s) /\ version' \in Nat
        BY <3>1, <1>1, <1>2, <1>3, <1>4
      <3>3. RecordNext
        BY <3>2, <1>1, <1>2, <1>3, ObservationKeeps
      <3> QED BY <3>1, <3>3
    <2>2. CASE ~Current(Head1)
      <3>1. Leave(Returned(Head1)) /\ UNCHANGED <<rec, stored>>
        BY <2>2 DEF FinishJob
      <3>2. Over => Over'
        BY <1>2 DEF Over
      <3>3. RecordNext
        BY <3>1, <3>2, <1>1, <1>2, RecordSame
      <3> QED BY <3>1, <3>3
    <2> QED BY <2>1, <2>2
  <1>6. Head1.by = "monitor" => where # "done"
    <2>1. PICK j : j = Head1
      OBVIOUS
    <2>2. JobOK(j) /\ j.op = "finish"
      BY <2>1, <1>1
    <2> QED BY <2>1, <2>2, <1>5, GoesOn
  <1> QED BY <1>1, <1>5, <1>6, LaneLeaves

\* Nothing happens to the record and the child.
LEMMA NothingNew ==
    ASSUME IndInv, UNCHANGED <<rec, stored, present, attached, child, out, noted>>, version' \in Nat
    PROVE  RecordNext
  <1>1. Over => Over'
    BY DEF Over
  <1> QED BY <1>1, ActorFacts, RecordSame

\* finalizeNativeInLane.
LEMMA FinalizeJobKeeps ==
    ASSUME IndInv, FinalizeJob
    PROVE  IndInv'
  <1> USE AtTurn, ActorFacts
  <1>1. lane # <<>> /\ Head1.op = "finalize" /\ StartFinalize(Head1.snap)
    BY DEF FinalizeJob, Begins
  <1>2. UNCHANGED <<rec, stored, present, attached, child, out, noted>>
    BY DEF FinalizeJob, native
  <1>3. version' \in {version, version + 1}
    BY <1>1 DEF StartFinalize
  <1>4. RecordNext
    BY <1>1, <1>2, <1>3, NothingNew
  <1>5. PICK j : j = Head1
    OBVIOUS
  <1>6. JobOK(j) /\ j.op = "finalize" /\ NativeTerminal(j.snap) /\ Over /\ SnapshotOK(j.snap)
    BY <1>1, <1>5 DEF JobOK
  <1>7. CASE ~attached \/ finalization = "failed"
    <2>1. PICK where : where = IF attached THEN Thrown(Head1) ELSE Returned(Head1)
      OBVIOUS
    <2>2. Leave(where)
      BY <1>1, <1>7, <2>1 DEF StartFinalize
    <2>3. j.by = "monitor" /\ where = "done" => ~attached
      BY <2>1, <1>5, <1>6, GoesOn
    <2> QED BY <2>1, <2>2, <2>3, <1>1, <1>4, <1>5, LaneLeaves
  <1>8. CASE attached /\ finalization # "failed"
    <2>1. step' = "finalRpc" /\ laneSnap' = j.snap /\ UNCHANGED <<lane, pc>>
      BY <1>1, <1>5, <1>6, <1>8 DEF StartFinalize
    <2>2. SnapshotOK(laneSnap)'
      <3>1. /\ j.snap \in Snapshots /\ j.snap.ev \in Evidence /\ j.snap.ev.tomb = None
            /\ j.snap.ev.drained => child = "gone"
            /\ ~j.snap.ev.noChild
        BY <1>6 DEF SnapshotOK, TrueEvidence
      <3> QED BY <3>1, <2>1, <1>2 DEF SnapshotOK, TrueEvidence
    <2>3. Over'
      BY <1>2, <1>6 DEF Over
    <2>4. attached' /\ step' \in Steps
      BY <1>2, <1>8, <2>1 DEF Steps
    <2> QED BY <2>1, <2>2, <2>3, <2>4, <1>1, <1>4, LaneStays
  <1> QED BY <1>7, <1>8, <1>1

\* stop, up to its RPC.
LEMMA StopJobKeeps ==
    ASSUME IndInv, StopJob
    PROVE  IndInv'
  <1> USE AtTurn, ActorFacts
  <1>1. lane # <<>> /\ Head1.op = "stop"
    BY DEF StopJob, Begins
  <1>2. UNCHANGED <<present, attached, version, child, out, noted>>
    BY DEF StopJob, native
  <1>3. Head1.by # "monitor" /\ lane[1].by # "monitor"
    BY <1>1 DEF JobOK
  <1>4. CASE ~attached
    <2>1. PICK where : where = IF present THEN Returned(Head1) ELSE Thrown(Head1)
      OBVIOUS
    <2>2. Leave(where) /\ UNCHANGED <<rec, stored>>
      BY <1>4, <2>1 DEF StopJob
    <2>3. RecordNext
      BY <1>1, <1>2, <2>2, NothingNew
    <2> QED BY <2>1, <2>2, <2>3, <1>1, <1>3, LaneLeaves
  <1>5. CASE attached
    <2>1. PICK r : r = Transition(rec, "stop_requested", rec.ev)
      OBVIOUS
    <2>2. PICK written \in BOOLEAN :
             /\ Writes(written)
             /\ \E x \in {Transition(rec, "stop_requested", rec.ev)} : Save(x, written)
             /\ IF written
                THEN step' = "stopRpc" /\ UNCHANGED <<lane, laneSnap, pc>>
                ELSE Leave(Thrown(Head1))
      BY <1>5, Zenon DEF StopJob
    <2>3. rec' = Written(r) /\ stored' = (stored \/ written)
      BY <2>1, <2>2 DEF Save
    <2>4. Fits(rec.ev, rec.state) /\ "stop_requested" \in Events \ {"recovered"}
      BY <1>1 DEF Loose, Events
    <2>5. /\ Loose(r) /\ r.ev \in {rec.ev, rec.ev}
          /\ Live(r.state) => Live(rec.state)
          /\ r.state.kind = "creating" => rec.state.kind = "creating"
      BY <1>1, <2>1, <2>4, TransitionLive
    <2>6. RecordNext
      <3>1. Over => Over'
        BY <1>2 DEF Over
      <3>2. stored' \in BOOLEAN /\ (stored => stored')
        BY <1>1, <2>2, <2>3
      <3>3. r.ev = rec.ev /\ (Live(r.state) => Active)
        BY <2>5 DEF Active
      <3>4. pc["spawn"] # "starting"
        BY <1>5
      <3> QED BY <3>1, <3>2, <3>3, <3>4, <1>1, <1>2, <2>3, <2>5, RecordSaved
    <2>7. CASE written
      <3>1. step' = "stopRpc" /\ UNCHANGED <<lane, laneSnap, pc>>
        BY <2>2, <2>7
      <3>2. attached' /\ step' \in Steps
        BY <3>1, <1>2, <1>5 DEF Steps
      <3> QED BY <3>1, <3>2, <2>6, <1>1, <1>3, LaneStays
    <2>8. CASE ~written
      <3>1. Leave(Thrown(Head1))
        BY <2>2, <2>8
      <3> QED BY <3>1, <2>6, <1>1, <1>3, LaneLeaves
    <2> QED BY <2>7, <2>8
  <1> QED BY <1>4, <1>5, <1>1

\* The stop was answered: the snapshot it brought decides how to go on.
LEMMA StopAnsweredKeeps ==
    ASSUME IndInv, StopAnswered
    PROVE  IndInv'
  <1> USE AtTurn, ActorFacts
  <1>1. lane # <<>> /\ step = "stopRpc"
    BY DEF StopAnswered, At
  <1>2. UNCHANGED <<rec, stored, present, attached, noted>>
    BY DEF StopAnswered
  <1>3. PICK k \in Killed : child' = k[1] /\ out' = k[2] /\ StartFinalize(CurrentSnapshot(k[1], k[2]))
    BY DEF StopAnswered
  <1>4. PICK s : s = CurrentSnapshot(k[1], k[2])
    OBVIOUS
  <1>5. StartFinalize(s) /\ attached
    BY <1>1, <1>3, <1>4
  <1>6. /\ child' \in {"none", "live", "residue", "gone"} /\ out' \in {"open", "complete", "incomplete"}
        /\ child \in {"none", "gone"} => child' = child
        /\ Over => Over'
    BY <1>3, KillIsOnward
  <1>7. version' \in {version, version + 1}
    BY <1>5 DEF StartFinalize
  <1>8. RecordNext
    BY <1>1, <1>2, <1>6, <1>7, RecordSame
  <1>9. Head1.by # "monitor" /\ lane[1].by # "monitor"
    BY <1>1 DEF IndInv, HeadInv
  <1>10. CASE finalization = "failed"
    <2>1. Leave(Thrown(Head1))
      BY <1>5, <1>10 DEF StartFinalize
    <2> QED BY <2>1, <1>1, <1>8, <1>9, LaneLeaves
  <1>11. CASE finalization # "failed"
    <2>1. /\ step' = IF NativeTerminal(s) THEN "finalRpc" ELSE "finish"
          /\ laneSnap' = s /\ UNCHANGED <<lane, pc>>
      BY <1>5, <1>11 DEF StartFinalize
    <2>2. NativeTerminal(s) <=> Over'
      BY <1>3, <1>4 DEF Over
    <2>3. SnapshotOK(laneSnap)'
      <3>1. /\ s \in Snapshots /\ s.ev \in Evidence /\ s.ev.tomb = None /\ ~s.ev.noChild
            /\ s.ev.drained => child' = "gone"
        BY <1>3, <1>4, <1>6, CurrentSnapshotTrue
      <3> QED BY <3>1, <2>1 DEF SnapshotOK, TrueEvidence
    <2>4. attached' /\ step' \in {"finalRpc", "finish"} /\ step' \in Steps /\ (step' = "finalRpc" => Over')
      BY <2>1, <2>2, <1>2, <1>5 DEF Steps
    <2> QED BY <2>1, <2>3, <2>4, <1>1, <1>8, <1>9, LaneStays
  <1> QED BY <1>10, <1>11

\* The stop was not answered.
LEMMA StopFailsKeeps ==
    ASSUME IndInv, StopFails
    PROVE  IndInv'
  <1> USE AtTurn, ActorFacts
  <1>1. lane # <<>> /\ step = "stopRpc" /\ Leave(Thrown(Head1))
    BY DEF StopFails, At
  <1>2. UNCHANGED <<rec, stored, present, attached, version, child, out, noted>>
    BY DEF StopFails, daemon, native
  <1>3. RecordNext
    BY <1>1, <1>2, NothingNew
  <1>4. Head1.by # "monitor"
    BY <1>1 DEF IndInv, HeadInv
  <1> QED BY <1>1, <1>3, <1>4, LaneLeaves

\* The end of a session that was started is refused only by a record that is
\* over already.
LEMMA EndIsSeen ==
    ASSUME NEW r, Loose(r), r.state.kind # "creating", NEW obs, Fits(obs, r.state),
           NEW event \in {"unreachable", "child_exited"}, ~Accepted(r, event, obs)
    PROVE  ~Live(r.state)
  <1>1. Sound(r.state) /\ r.pendingCleanup \in BOOLEAN
    BY DEF Loose, FlatRecords
  <1>2. PICK fresh : fresh = Refresh(r.state, obs, r.pendingCleanup)
    OBVIOUS
  <1>3. /\ Sound(fresh) /\ (Live(fresh) <=> Live(r.state))
        /\ fresh.kind # "creating"
    BY <1>1, <1>2, RefreshLive
  <1>4. ~Accepts(fresh, event)
    BY <1>2 DEF Accepted
  <1>5. /\ event # "unreachable" /\ event \in TerminalEvents
        /\ ~(fresh.kind = "cleaning" /\ fresh.target \in ActiveKinds)
        /\ fresh.kind \notin {"running", "stopping"}
    BY <1>4 DEF Accepts, TerminalEvents
  <1> QED BY <1>3, <1>5, LiveKinds

\* The final snapshot, or a record that is given up without one.
LEMMA FinalSnapshotKeeps ==
    ASSUME IndInv, FinalSnapshot \/ FinalSnapshotFails
    PROVE  IndInv'
  <1> USE AtTurn, ActorFacts
  <1>1. /\ lane # <<>> /\ step = "finalRpc" /\ UNCHANGED <<present, attached, version, lane, pc, child, out, noted>>
    BY DEF FinalSnapshot, FinalSnapshotFails, At, daemon, native
  <1>2. attached /\ attached' /\ Over /\ Over'
    <2>1. attached /\ Over
      BY <1>1 DEF IndInv, HeadInv
    <2> QED BY <1>1, <2>1 DEF Over
  <1>3. CASE FinalSnapshot
    <2>1. laneSnap' = CurrentSnapshot(child, out) /\ step' = "finish" /\ UNCHANGED <<rec, stored>>
      BY <1>3 DEF FinalSnapshot, daemon
    <2>2. PICK s : s = CurrentSnapshot(child, out)
      OBVIOUS
    <2>3. /\ s \in Snapshots /\ s.ev \in Evidence /\ s.ev.tomb = None /\ ~s.ev.noChild
          /\ s.ev.drained => child' = "gone"
      BY <1>1, <2>2, CurrentSnapshotTrue
    <2>4. SnapshotOK(laneSnap)'
      BY <2>1, <2>2, <2>3 DEF SnapshotOK, TrueEvidence
    <2>5. NativeTerminal(laneSnap')
      BY <2>1, <1>2 DEF Over
    <2>6. RecordNext
      BY <2>1, <1>1, NothingNew
    <2>7. step' \in Steps
      BY <2>1 DEF Steps
    <2> QED BY <2>1, <2>4, <2>5, <2>6, <2>7, <1>1, <1>2, LaneStays
  <1>4. CASE FinalSnapshotFails
    <2>1. PICK r : r = GivenUp(rec)
      OBVIOUS
    <2>2. rec' = Written(r) /\ stored' = TRUE /\ step' = "shutdownRpc" /\ laneSnap' = laneSnap
      BY <1>1, <1>4, <2>1 DEF FinalSnapshotFails, Save
    <2>3. /\ Loose(r) /\ r.ev \in Evidence /\ r.ev.tomb = None /\ ~r.ev.noChild
          /\ r.ev.drained = rec.ev.drained
          /\ ~Live(r.state) /\ r.state.kind # "creating"
      BY <1>1, <2>1, GivenUpEnds
    <2>4. RecordNext
      <3>1. stored' \in BOOLEAN /\ stored' /\ pc["spawn"] # "starting"
        BY <1>1, <1>2, <2>2
      <3>2. child' = child /\ out' = out /\ attached' = attached /\ (r.ev.drained => child' = "gone")
        BY <1>1, <2>3
      <3> QED BY <3>1, <3>2, <2>2, <2>3, <1>1, <1>2, RecordSaved
    <2>5. ~Active'
      <3>1. Live(rec'.state) => Live(r.state)
        BY <2>2, <2>3, WrittenLive
      <3> QED BY <3>1, <2>3 DEF Active
    <2>6. step' \in Steps
      BY <2>2 DEF Steps
    <2> QED BY <2>2, <2>4, <2>5, <2>6, <1>1, <1>2, LaneStays
  <1> QED BY <1>3, <1>4

\* The final snapshot enters the record; a terminal one ends it, accepted or not.
LEMMA FinishFinalKeeps ==
    ASSUME IndInv, FinishFinal
    PROVE  IndInv'
  <1> USE AtTurn, ActorFacts
  <1>1. /\ lane # <<>> /\ step = "finish" /\ UNCHANGED <<present, attached, child, out, noted>>
    BY DEF FinishFinal, At, native
  <1>2. attached /\ attached' /\ pc["spawn"] # "starting" /\ rec.state.kind # "creating"
    BY <1>1
  <1>3. PICK written \in BOOLEAN :
           /\ Writes(written)
           /\ IF Throws(laneSnap, written)
              THEN \E seen \in {Transition(rec, WorkerEvent(laneSnap), laneSnap.ev)} :
                   \E r \in {GivenUp(seen)} : Save(r, TRUE)
              ELSE Observed(laneSnap, written)
           /\ finalization' = IF Throws(laneSnap, written) THEN "failed" ELSE finalization
           /\ version' = IF NativeTerminal(laneSnap) THEN version + 1 ELSE version
           /\ IF NativeTerminal(laneSnap)
              THEN step' = "shutdownRpc" /\ UNCHANGED <<lane, laneSnap, pc>>
              ELSE Leave(IF Throws(laneSnap, written) THEN Thrown(Head1) ELSE Returned(Head1))
    BY Zenon DEF FinishFinal
  <1>4. PICK s : s = laneSnap
    OBVIOUS
  <1>5. SnapshotOK(s)
    BY <1>1, <1>4
  <1>6. version' \in Nat
    BY <1>1, <1>3
  <1>7. /\ RecordNext
        /\ Accepted(rec, WorkerEvent(s), s.ev) /\ WorkerEvent(s) # "worker_ready" => ~Active'
        /\ ~Accepted(rec, WorkerEvent(s), s.ev) => rec' = rec
    <2>1. CASE Throws(s, written)
      <3>1. PICK seen : seen = Transition(rec, WorkerEvent(s), s.ev)
        OBVIOUS
      <3>2. PICK r : r = GivenUp(seen)
        OBVIOUS
      <3>3. Save(r, TRUE)
        BY <1>3, <1>4, <2>1, <3>1, <3>2
      <3>4. rec' = Written(r) /\ stored' = TRUE
        BY <3>3 DEF Save
      <3>5. Accepted(rec, WorkerEvent(s), s.ev)
        BY <2>1 DEF Throws
      <3> QED BY <3>1, <3>2, <3>4, <3>5, <1>1, <1>2, <1>5, <1>6, ObservedKeeps
    <2>2. CASE ~Throws(s, written)
      <3>1. Observed(s, written)
        BY <1>3, <1>4, <2>2
      <3> QED BY <3>1, <1>1, <1>2, <1>5, <1>6, ObservationKeeps
    <2> QED BY <2>1, <2>2
  <1>8. CASE NativeTerminal(s)
    <2>1. step' = "shutdownRpc" /\ UNCHANGED <<lane, laneSnap, pc>>
      BY <1>3, <1>4, <1>8
    <2>2. WorkerEvent(s) \in {"unreachable", "child_exited"}
      BY <1>8 DEF NativeTerminal, NativeTerminalProof, WorkerEvent
    <2>3. Fits(s.ev, rec.state)
      <3>1. rec.state.ev.tomb = None
        BY <1>1 DEF Loose, Fits
      <3> QED BY <3>1, <1>5 DEF Fits, SnapshotOK, TrueEvidence
    <2>4. ~Active'
      <3>1. CASE Accepted(rec, WorkerEvent(s), s.ev)
        BY <3>1, <2>2, <1>7
      <3>2. CASE ~Accepted(rec, WorkerEvent(s), s.ev)
        <4>1. ~Live(rec.state)
          BY <3>2, <2>2, <2>3, <1>1, <1>2, EndIsSeen
        <4> QED BY <4>1, <3>2, <1>7 DEF Active
      <3> QED BY <3>1, <3>2
    <2>5. step' \in Steps
      BY <2>1 DEF Steps
    <2> QED BY <2>1, <2>4, <2>5, <1>1, <1>2, <1>7, LaneStays
  <1>9. CASE ~NativeTerminal(s)
    <2>1. PICK where : where = IF Throws(laneSnap, written) THEN Thrown(Head1) ELSE Returned(Head1)
      OBVIOUS
    <2>2. Leave(where)
      BY <1>3, <1>4, <1>9, <2>1
    <2>3. Head1.by # "monitor"
      BY <1>1, <1>4, <1>9 DEF IndInv, HeadInv
    <2> QED BY <2>1, <2>2, <2>3, <1>1, <1>7, LaneLeaves
  <1> QED BY <1>8, <1>9

\* The worker of a session that is over is dropped.
LEMMA ShutdownWorkerKeeps ==
    ASSUME IndInv, ShutdownWorker
    PROVE  IndInv'
  <1> USE AtTurn, ActorFacts
  <1>1. /\ lane # <<>> /\ step = "shutdownRpc" /\ UNCHANGED <<rec, stored, present, version, noted>>
        /\ attached' = FALSE
    BY DEF ShutdownWorker, At
  <1>2. ~Active /\ (Active' <=> Active)
    BY <1>1 DEF IndInv, HeadInv, Active
  <1>3. /\ child' \in {"none", "live", "residue", "gone"} /\ out' \in {"open", "complete", "incomplete"}
        /\ child \in {"none", "gone"} => child' = child
        /\ Over => Over'
    <2>1. CASE \E k \in Killed : child' = k[1] /\ out' = k[2]
      BY <2>1, KillIsOnward
    <2>2. CASE UNCHANGED <<child, out>>
      BY <2>2 DEF Over
    <2> QED BY <2>1, <2>2 DEF ShutdownWorker
  <1>4. RecordNext
    <2>1. ~present \/ ~stored => Childless
      BY DEF IndInv
    <2>2. attached' \in BOOLEAN /\ ~attached'
      BY <1>1
    <2> QED BY <1>1, <1>2, <1>3, <2>1, <2>2 DEF RecordNext
  <1>5. PICK where : where = IF finalization = "failed" THEN Thrown(Head1) ELSE Returned(Head1)
    OBVIOUS
  <1>6. Leave(where)
    BY <1>5 DEF ShutdownWorker
  <1> QED BY <1>1, <1>2, <1>4, <1>5, <1>6, LaneLeaves

\* rollbackNativeInLane: the worker is dropped and the record says lost.
LEMMA RollbackKeeps ==
    ASSUME IndInv, RollbackBegins \/ Rollback
    PROVE  IndInv'
  <1> USE AtTurn, ActorFacts
  <1>1. lane # <<>> /\ UNCHANGED <<present, noted, out>>
    BY DEF RollbackBegins, Rollback, Begins, At, native
  <1>2. CASE RollbackBegins
    <2>1. UNCHANGED <<rec, stored, attached, child>> /\ version' \in {version, version + 1}
      BY <1>2 DEF RollbackBegins, native
    <2>2. RecordNext
      BY <2>1, <1>1, NothingNew
    <2>3. CASE attached
      <3>1. step' = "rollbackRpc" /\ UNCHANGED <<lane, laneSnap, pc>>
        BY <1>2, <2>3 DEF RollbackBegins
      <3>2. attached' /\ step' \in Steps
        BY <3>1, <2>1, <2>3 DEF Steps
      <3> QED BY <3>1, <3>2, <2>2, <1>1, LaneStays
    <2>4. CASE ~attached
      <3>1. Leave(Returned(Head1))
        BY <1>2, <2>4 DEF RollbackBegins
      <3> QED BY <3>1, <2>2, <2>4, <1>1, LaneLeaves
    <2> QED BY <2>3, <2>4, <1>1
  <1>3. CASE Rollback
    <2> DEFINE no == FALSE
    <2>1. PICK r : r = Transition(rec, "unreachable", rec.ev)
      OBVIOUS
    <2>2. PICK c \in BOOLEAN :
             /\ \/ \E k \in Killed \cup {<<child, out>>} : child' = k[1]
                \/ child' = child
             /\ Save([r EXCEPT !.ev.confirmed = c, !.ev.noChild = no], TRUE)
      BY <1>3, <2>1 DEF Rollback
    <2>3. /\ version' \in Nat /\ attached' = FALSE /\ Leave(Returned(Head1)) /\ step = "rollbackRpc"
      BY <1>1, <1>3 DEF Rollback, At
    <2>4. no \in BOOLEAN /\ ~no
      OBVIOUS
    <2> HIDE DEF no
    <2>5. PICK q : q = Edited(r, c, no)
      OBVIOUS
    <2>6. rec' = Written(q) /\ stored' = TRUE
      BY <2>2, <2>5 DEF Save, Edited
    <2>7. Loose(r) /\ r.ev = rec.ev /\ ~Live(r.state) /\ r.state.kind # "creating"
      BY <1>1, <2>1, UnreachableEnds
    <2>8. /\ Loose(q) /\ q.state = r.state /\ q.ev \in Evidence /\ q.ev.tomb = None
          /\ q.ev.drained = r.ev.drained /\ ~q.ev.noChild
      <3>1. r.ev.tomb = None /\ (no => c)
        BY <1>1, <2>4, <2>7
      <3>2. /\ Loose(q) /\ q.state = r.state /\ q.ev \in Evidence /\ q.ev.tomb = None
            /\ q.ev.drained = r.ev.drained /\ q.ev.noChild = no
        BY <2>4, <2>5, <2>7, <3>1, CleanupEdit
      <3> QED BY <3>2, <2>4
    <2>9. /\ child' \in {"none", "live", "residue", "gone"}
          /\ child \in {"none", "gone"} => child' = child
          /\ child = "residue" => child' \in {"residue", "gone"}
      <3>1. CASE child' = child
        BY <3>1
      <3>2. CASE child' # child
        <4>1. PICK k \in Killed \cup {<<child, out>>} : child' = k[1]
          BY <3>2, <2>2
        <4>2. k \in Killed
          <5>1. k # <<child, out>>
            <6>1. k[1] # child
              BY <3>2, <4>1
            <6> QED BY <6>1
          <5> QED BY <4>1, <5>1
        <4> QED BY <4>1, <4>2, KilledIsOver
      <3> QED BY <3>1, <3>2
    <2>10. Over => Over'
      BY <2>9, <1>1, OverNow, OverNext
    <2>11. RecordNext
      <3>1. stored' \in BOOLEAN /\ stored' /\ pc["spawn"] # "starting" /\ attached' \in BOOLEAN /\ ~attached'
        BY <1>1, <2>3, <2>6
      <3>2. (q.ev.drained => child' = "gone") /\ ~Live(q.state) /\ q.state.kind # "creating"
        BY <1>1, <2>7, <2>8, <2>9
      <3> QED BY <3>1, <3>2, <2>3, <2>6, <2>8, <2>9, <2>10, <1>1, RecordSaved
    <2>12. ~Active'
      <3>1. Live(rec'.state) => Live(q.state)
        BY <2>6, <2>8, WrittenLive
      <3> QED BY <3>1, <2>7, <2>8 DEF Active
    <2> QED BY <2>3, <2>11, <2>12, <1>1, LaneLeaves
  <1> QED BY <1>2, <1>3

\* deleteNativeSession.
LEMMA DeleteKeeps ==
    ASSUME IndInv, DeleteBegins \/ DeleteEnds \/ DeleteFails
    PROVE  IndInv'
  <1> USE AtTurn, ActorFacts
  <1>1. lane # <<>> /\ UNCHANGED <<rec, child, out, noted>>
    BY DEF DeleteBegins, DeleteEnds, DeleteFails, Begins, At, native
  <1>2. (Over <=> Over') /\ (Active <=> Active')
    BY <1>1 DEF Over, Active
  <1>3. CASE DeleteBegins
    <2>1. Head1.op = "delete" /\ Childless /\ ~Active /\ Head1.by # "monitor" /\ UNCHANGED <<stored, present>>
      BY <1>1, <1>3 DEF DeleteBegins, Begins, JobOK
    <2>2. CASE present
      <3>1. version' = version + 1 /\ attached' = FALSE /\ step' = "rm" /\ UNCHANGED <<lane, laneSnap, pc>>
        BY <1>3, <2>2 DEF DeleteBegins
      <3>2. attached' \in BOOLEAN /\ ~attached' /\ step' \in Steps
        BY <3>1 DEF Steps
      <3>3. RecordNext
        BY <3>1, <3>2, <2>1, <1>1, <1>2 DEF RecordNext
      <3> QED BY <3>1, <3>2, <3>3, <2>1, <1>1, LaneStays
    <2>3. CASE ~present
      <3>1. Leave(Returned(Head1)) /\ UNCHANGED <<version, attached>>
        BY <1>3, <2>3 DEF DeleteBegins
      <3>2. RecordNext
        BY <3>1, <2>1, <1>1, NothingNew
      <3> QED BY <3>1, <3>2, <2>1, <1>1, LaneLeaves
    <2> QED BY <2>2, <2>3
  <1>4. CASE DeleteEnds \/ DeleteFails
    <2>1. /\ step = "rm" /\ UNCHANGED <<attached, version>> /\ present' \in {present, FALSE}
          /\ stored' \in {stored, FALSE}
      BY <1>4 DEF DeleteEnds, DeleteFails, At
    <2>2. Childless /\ ~Active
      BY <2>1 DEF IndInv, HeadInv
    <2>3. present' \in BOOLEAN /\ stored' \in BOOLEAN
      BY <2>1, <1>1
    <2>4. RecordNext
      BY <2>1, <2>2, <2>3, <1>1, <1>2 DEF RecordNext
    <2>5. PICK where \in {Returned(Head1), Thrown(Head1)} : Leave(where)
      BY <1>4 DEF DeleteEnds, DeleteFails
    <2> QED BY <2>2, <2>4, <2>5, <1>1, <1>2, LaneLeaves
  <1> QED BY <1>3, <1>4

-----------------------------------------------------------------------------
(* The theorems *)

\* A fresh session satisfies the invariant.
LEMMA InitIndInv ==
    ASSUME Init
    PROVE  IndInv
  <1>1. /\ lane = <<>> /\ step = "begin" /\ laneSnap = NoSnapshot /\ version = 0 /\ noted = 0
        /\ child = "none" /\ out = "open" /\ present = TRUE /\ stored = TRUE /\ attached = FALSE
    BY DEF Init
  <1>2. LaneInv
    <2>1. lane \in Seq(Jobs) /\ Len(lane) = 0
      BY <1>1
    <2> QED BY <1>1, <2>1 DEF LaneInv, Steps
  <1>3. HeadInv
    BY <1>1, NoSnapshotOK DEF HeadInv
  <1>4. pc \in [Actors -> PCs] /\ pc["spawn"] = "starting"
        /\ \A a \in Actors : pc[a] \in {"starting", "off", "idle"}
    <2>1. pc = [a \in Actors |-> CASE a = "spawn" -> "starting" [] a = "monitor" -> "off"
                                   [] OTHER -> "idle"]
      BY DEF Init
    <2> QED BY <2>1 DEF Actors, PCs
  <1>5. ActorInv
    BY <1>1, <1>4 DEF ActorInv, Shutdowns
  <1>6. /\ Settled(rec) /\ rec.ev = NoEvidence /\ rec.state.kind = "creating"
    <2>1. PICK s : s = Plain("creating", NoEvidence)
      OBVIOUS
    <2>2. /\ s.kind = "creating" /\ s.target = None /\ s.outcome = None /\ s.lastKnown = None
          /\ s.terminal = None /\ s.ev = NoEvidence
      BY <2>1 DEF Plain
    <2>3. s \in States
      BY <2>1, NoEvidenceTyped DEF Plain, States
    <2>4. Sound(s)
      BY <2>2, <2>3, NoEvidenceTyped DEF Sound, ValidState
    <2>5. rec = Project(s)
      BY <2>1 DEF Init, NewRecord
    <2> QED BY <2>2, <2>4, <2>5, ProjectSettled
  <1>7. TrueEvidence(rec.ev) /\ ~rec.ev.noChild
    BY <1>6, NoEvidenceTyped DEF TrueEvidence
  <1>8. RecordInv
    <2>1. present \in BOOLEAN /\ stored \in BOOLEAN /\ attached \in BOOLEAN /\ ~attached
      BY <1>1
    <2> QED BY <2>1, <1>1, <1>6, <1>7 DEF RecordInv, Begun
  <1>9. RunningIsWatched
    BY <1>4 DEF RunningIsWatched
  <1>10. present /\ stored
    BY <1>1
  <1> QED BY <1>2, <1>3, <1>5, <1>8, <1>9, <1>10 DEF IndInv

LEMMA StutterKeeps ==
    ASSUME IndInv, UNCHANGED vars
    PROVE  IndInv'
  <1>1. UNCHANGED <<rec, stored, present, attached, version, step, laneSnap, lane, pc, noted, child, out>>
    BY DEF vars, daemon, queue, native
  <1>2. Over => Over'
    BY <1>1 DEF Over
  <1> QED BY <1>1, <1>2, ActorFacts, OutsideStep

\* Every step keeps it.
LEMMA NextIndInv ==
    ASSUME IndInv, [Next]_vars
    PROVE  IndInv'
  <1>1. CASE ChildExits \/ DescendantsExit \/ OutputSettles \/ WorkerDies
    BY <1>1, WorldStep
  <1>2. CASE SpawnSucceeds \/ SpawnFails \/ SpawnSaveFails
    BY <1>2, SpawnKeeps
  <1>3. CASE MonitorStep
    BY <1>3, MonitorKeeps
  <1>4. CASE Call
    BY <1>4, CallKeeps
  <1>5. CASE Get \/ GetAnswered \/ GetFails
    BY <1>5, GetKeeps
  <1>6. CASE DeleteConversation \/ AfterMark
    BY <1>6, DeletionKeeps
  <1>7. ASSUME NEW a \in {"caller", "deletion"}, CleanupStep(a)
        PROVE  IndInv'
    BY <1>7, CleanupKeeps, ShutdownKeeps DEF CleanupStep
  <1>8. CASE LaneStep
    <2>1. CASE Mark \/ FinishJob \/ FinalizeJob
      BY <2>1, MarkKeeps, FinishJobKeeps, FinalizeJobKeeps
    <2>2. CASE StopJob \/ StopAnswered \/ StopFails
      BY <2>2, StopJobKeeps, StopAnsweredKeeps, StopFailsKeeps
    <2>3. CASE FinalSnapshot \/ FinalSnapshotFails \/ FinishFinal \/ ShutdownWorker
      BY <2>3, FinalSnapshotKeeps, FinishFinalKeeps, ShutdownWorkerKeeps
    <2>4. CASE RollbackBegins \/ Rollback
      BY <2>4, RollbackKeeps
    <2>5. CASE DeleteBegins \/ DeleteEnds \/ DeleteFails
      BY <2>5, DeleteKeeps
    <2> QED BY <1>8, <2>1, <2>2, <2>3, <2>4, <2>5 DEF LaneStep
  <1>9. CASE UNCHANGED vars
    BY <1>9, StutterKeeps
  <1> QED BY <1>1, <1>2, <1>3, <1>4, <1>5, <1>6, <1>7, <1>8, <1>9 DEF Next

\* The inductive invariant of the supervisor: every job that waits in the
\* mutation lane is still justified when its turn comes, and the record and
\* the snapshots on their way claim nothing that is not true of the child.
THEOREM SupervisorInvariant == Spec => []IndInv
  BY InitIndInv, NextIndInv, PTL DEF Spec

\* Neither the record nor its directory is deleted while a child is left,
\* for any number of calls and faults (cleanup, deleteNativeSession).
THEOREM NeverDeleteLiveHolds == Spec => []NeverDeleteLive
  <1>1. IndInv => NeverDeleteLive
    BY DEF IndInv, Childless, NeverDeleteLive
  <1> QED BY <1>1, SupervisorInvariant, PTL

\* Whatever is shown as running has an attached worker and a monitor that has
\* not ended (monitorNative, finalizeNativeInLane, rollbackNativeInLane).
THEOREM RunningIsWatchedHolds == Spec => []RunningIsWatched
  <1>1. IndInv => RunningIsWatched
    BY DEF IndInv
  <1> QED BY <1>1, SupervisorInvariant, PTL

-----------------------------------------------------------------------------
(* The types, and that no actor waits for two jobs *)

\* Whoever has a job in the lane waits for it, and has no other.
QueueInv ==
    /\ \A i \in 1..Len(lane) : pc[lane[i].by] = "queued"
    /\ \A i, k \in 1..Len(lane) : lane[i].by = lane[k].by => i = k

CountInv ==
    /\ proof \in BOOLEAN /\ finalization \in {"none", "failed"}
    /\ worker \in {"none", "up", "down"}
    /\ calls \in 0..MaxCalls /\ faults \in 0..MaxFaults

\* The bounds on faults and calls, and the flags of the daemon.
LEMMA FaultCounts ==
    ASSUME CountInv, Fault \/ NoFault
    PROVE  faults' \in 0..MaxFaults
  BY BoundsAssumption DEF CountInv, Fault, NoFault

LEMMA CountsKept ==
    ASSUME IndInv, CountInv, [Next]_vars
    PROVE  CountInv'
  <1> USE DEF CountInv
  <1>1. CASE ChildExits \/ DescendantsExit \/ OutputSettles \/ UNCHANGED vars
    BY <1>1 DEF ChildExits, DescendantsExit, OutputSettles, vars, daemon, native
  <1>2. CASE WorkerDies
    BY <1>2, FaultCounts DEF WorkerDies, daemon
  <1>3. CASE SpawnSucceeds \/ SpawnFails
    BY <1>3 DEF SpawnSucceeds, SpawnFails
  <1>4. CASE SpawnSaveFails
    <2>1. worker' \in {"up", "down"} /\ UNCHANGED <<proof, finalization, calls>>
      BY <1>4 DEF SpawnSaveFails
    <2>2. Fault
      BY <1>4 DEF SpawnSaveFails
    <2> QED BY <2>1, <2>2, FaultCounts
  <1>5. CASE MonitorStep \/ GetAnswered \/ GetFails \/ DeleteConversation \/ AfterMark
    <2>1. UNCHANGED <<proof, finalization, worker, calls>> /\ (Fault \/ NoFault)
      BY <1>5 DEF MonitorStep, MonitorObserves, MonitorLosesWorker, MonitorCatches, GetAnswered, GetFails,
                  DeleteConversation, AfterMark, daemon, native, RpcFails, NoFault
    <2> QED BY <2>1, FaultCounts
  <1>6. CASE Call \/ Get
    <2>1. UNCHANGED <<proof, finalization, worker, faults>> /\ calls' = calls + 1 /\ calls < MaxCalls
      BY <1>6 DEF Call, Get, daemon, native
    <2> QED BY <2>1, BoundsAssumption
  <1>7. ASSUME NEW a \in {"caller", "deletion"}, CleanupStep(a)
        PROVE  CountInv'
    <2>1. CASE Cleanup(a)
      BY <2>1 DEF Cleanup, daemon, native
    <2>2. CASE ShutdownAnswered(a)
      <3>1. UNCHANGED <<finalization, calls, faults>> /\ worker' = "down"
        BY <2>2 DEF ShutdownAnswered
      <3>2. proof' \in BOOLEAN
        BY <2>2 DEF ShutdownAnswered
      <3> QED BY <3>1, <3>2
    <2>3. CASE ShutdownFails(a)
      <3>1. UNCHANGED <<proof, finalization, calls>> /\ worker' \in {worker, "down"} /\ (Fault \/ NoFault)
        BY <2>3 DEF ShutdownFails, daemon, native, RpcFails
      <3> QED BY <3>1, FaultCounts
    <2> QED BY <1>7, <2>1, <2>2, <2>3 DEF CleanupStep
  <1>8. CASE LaneStep
    <2>1. CASE Mark \/ FinishJob \/ StopJob
      <3>1. UNCHANGED <<proof, finalization, worker, calls>> /\ (Fault \/ NoFault)
        BY <2>1 DEF Mark, FinishJob, StopJob, Writes, native
      <3> QED BY <3>1, FaultCounts
    <2>2. CASE FinalizeJob \/ StopAnswered \/ FinalSnapshot \/ RollbackBegins \/ DeleteBegins
      BY <2>2 DEF FinalizeJob, StopAnswered, FinalSnapshot, RollbackBegins, DeleteBegins, daemon, native
    <2>3. CASE StopFails \/ FinalSnapshotFails
      <3>1. /\ UNCHANGED <<proof, worker, calls>> /\ finalization' \in {finalization, "failed"}
            /\ Fault \/ NoFault
        BY <2>3 DEF StopFails, FinalSnapshotFails, daemon, native, RpcFails
      <3> QED BY <3>1, FaultCounts
    <2>4. CASE FinishFinal
      <3>1. /\ UNCHANGED <<proof, worker, calls>> /\ finalization' \in {finalization, "failed"}
            /\ Fault \/ NoFault
        BY <2>4 DEF FinishFinal, native, Writes
      <3> QED BY <3>1, FaultCounts
    <2>5. CASE ShutdownWorker
      <3>1. /\ UNCHANGED <<finalization, calls>> /\ worker' \in {worker, "down"} /\ (Fault \/ NoFault)
            /\ proof' \in BOOLEAN
        BY <2>5 DEF ShutdownWorker, RpcFails
      <3> QED BY <3>1, FaultCounts
    <2>6. CASE Rollback
      BY <2>6 DEF Rollback
    <2>7. CASE DeleteEnds \/ DeleteFails
      <3>1. /\ UNCHANGED <<finalization, worker, calls>> /\ proof' \in BOOLEAN
            /\ faults' = faults \/ Fault
        BY <2>7 DEF DeleteEnds, DeleteFails, native
      <3> QED BY <3>1, FaultCounts DEF NoFault
    <2> QED BY <1>8, <2>1, <2>2, <2>3, <2>4, <2>5, <2>6, <2>7 DEF LaneStep
  <1> QED BY <1>1, <1>2, <1>3, <1>4, <1>5, <1>6, <1>7, <1>8 DEF Next

\* A job belongs to an actor.
LEMMA JobActor ==
    ASSUME NEW q \in Seq(Jobs)
    PROVE  \A i \in 1..Len(q) : q[i].by \in Actors
  <1>1. \A j \in Jobs : j.by \in Actors
    BY DEF Jobs
  <1>2. \A i \in 1..Len(q) : q[i] \in Jobs
    OBVIOUS
  <1> QED BY <1>1, <1>2

\* The three things that happen to the lane, again.
LEMMA QueueSame ==
    ASSUME QueueInv, lane' = lane, \A a \in Actors : pc[a] = "queued" => pc'[a] = "queued",
           lane \in Seq(Jobs)
    PROVE  QueueInv'
  <1>1. \A i \in 1..Len(lane) : lane[i].by \in Actors
    BY JobActor
  <1> QED BY <1>1 DEF QueueInv

LEMMA QueueGrows ==
    ASSUME QueueInv, lane \in Seq(Jobs), NEW j \in Jobs, lane' = Append(lane, j),
           \A a \in Actors : pc[a] = "queued" => pc'[a] = "queued",
           pc[j.by] # "queued", pc'[j.by] = "queued"
    PROVE  QueueInv'
  <1>1. /\ Len(lane') = Len(lane) + 1 /\ Len(lane) \in Nat
        /\ \A i \in 1..Len(lane) : lane'[i] = lane[i]
        /\ lane'[Len(lane) + 1] = j
    OBVIOUS
  <1>2. \A i \in 1..Len(lane) : lane[i].by \in Actors
    BY JobActor
  <1>3. \A i \in 1..Len(lane) : lane[i].by # j.by /\ pc'[lane[i].by] = "queued"
    BY <1>1, <1>2 DEF QueueInv
  <1>4. \A i \in 1..Len(lane') : i \in 1..Len(lane) \/ i = Len(lane) + 1
    BY <1>1
  <1>5. \A i \in 1..Len(lane') : pc'[lane'[i].by] = "queued"
    BY <1>1, <1>3, <1>4
  <1>6. ASSUME NEW i \in 1..Len(lane'), NEW k \in 1..Len(lane'), lane'[i].by = lane'[k].by
        PROVE  i = k
    <2>1. CASE i \in 1..Len(lane) /\ k \in 1..Len(lane)
      BY <2>1, <1>1, <1>6 DEF QueueInv
    <2>2. CASE i \in 1..Len(lane) /\ k = Len(lane) + 1
      BY <2>2, <1>1, <1>3, <1>6
    <2>3. CASE k \in 1..Len(lane) /\ i = Len(lane) + 1
      BY <2>3, <1>1, <1>3, <1>6
    <2> QED BY <2>1, <2>2, <2>3, <1>4
  <1> QED BY <1>5, <1>6 DEF QueueInv

LEMMA QueueShrinks ==
    ASSUME QueueInv, lane \in Seq(Jobs), lane # <<>>, NEW where, Leave(where), pc \in [Actors -> PCs]
    PROVE  QueueInv'
  <1>1. /\ lane' = Tail(lane) /\ Len(lane) \in Nat /\ Len(lane) >= 1 /\ Head1 = lane[1]
        /\ pc' = [pc EXCEPT ![Head1.by] = where]
    BY DEF Leave, Head1
  <1>2. /\ Len(lane') = Len(lane) - 1
        /\ \A i \in 1..Len(lane') : lane'[i] = lane[i + 1]
    BY <1>1
  <1>3. \A i \in 1..Len(lane) : lane[i].by \in Actors
    BY JobActor
  <1>4. ASSUME NEW i \in 1..Len(lane')
        PROVE  pc'[lane'[i].by] = "queued"
    <2>1. i + 1 \in 1..Len(lane) /\ i + 1 # 1 /\ 1 \in 1..Len(lane)
      BY <1>1, <1>2
    <2>2. lane[i + 1].by # lane[1].by /\ pc[lane[i + 1].by] = "queued" /\ lane[i + 1].by \in Actors
      BY <2>1, <1>3 DEF QueueInv
    <2> QED BY <2>2, <1>1, <1>2
  <1>5. ASSUME NEW i \in 1..Len(lane'), NEW k \in 1..Len(lane'), lane'[i].by = lane'[k].by
        PROVE  i = k
    <2>1. i + 1 \in 1..Len(lane) /\ k + 1 \in 1..Len(lane)
      BY <1>1, <1>2
    <2>2. i + 1 = k + 1
      BY <2>1, <1>2, <1>5 DEF QueueInv
    <2> QED BY <2>2
  <1> QED BY <1>4, <1>5 DEF QueueInv

\* An actor that queues a job was not waiting for another; an actor outside
\* the lane moves without one.
LEMMA QueueMoves ==
    ASSUME IndInv, QueueInv, NEW a \in Actors, pc[a] # "queued", NEW where, pc' = [pc EXCEPT ![a] = where],
           \/ lane' = lane
           \/ /\ where = "queued"
              /\ \E op \in {"finish", "finalize", "rollback", "stop", "delete", "mark"},
                    s \in Snapshots, v \in Nat : lane' = Append(lane, Job(a, op, s, v))
    PROVE  QueueInv'
  <1>1. pc \in [Actors -> PCs] /\ lane \in Seq(Jobs)
    BY ActorFacts
  <1>2. /\ \A b \in Actors : pc[b] = "queued" => pc'[b] = "queued"
        /\ pc'[a] = where
    BY <1>1
  <1>3. CASE lane' = lane
    BY <1>1, <1>2, <1>3, QueueSame
  <1>4. CASE lane' # lane
    <2>1. PICK op \in {"finish", "finalize", "rollback", "stop", "delete", "mark"},
               s \in Snapshots, v \in Nat : lane' = Append(lane, Job(a, op, s, v))
      BY <1>4
    <2>2. PICK j : j = Job(a, op, s, v)
      OBVIOUS
    <2>3. j \in Jobs /\ j.by = a
      BY <2>2, NewJob
    <2> QED BY <1>1, <1>2, <1>4, <2>1, <2>2, <2>3, QueueGrows
  <1> QED BY <1>3, <1>4

\* Every step keeps the queue that way.
LEMMA QueueKept ==
    ASSUME IndInv, QueueInv, [Next]_vars
    PROVE  QueueInv'
  <1>1. pc \in [Actors -> PCs] /\ lane \in Seq(Jobs) /\ version \in Nat /\ noted \in Nat
        /\ CurrentSnapshot(child, out) \in Snapshots /\ NoSnapshot \in Snapshots
        /\ Actors = {"spawn", "monitor", "caller", "deletion"}
    BY ActorFacts, CurrentSnapshotTrue, NoSnapshotTyped DEF Actors
  <1>2. CASE ChildExits \/ DescendantsExit \/ OutputSettles \/ WorkerDies \/ UNCHANGED vars
    <2>1. UNCHANGED <<lane, pc>>
      BY <1>2 DEF ChildExits, DescendantsExit, OutputSettles, WorkerDies, vars, queue
    <2> QED BY <2>1, <1>1, QueueSame
  <1>3. CASE SpawnSucceeds \/ SpawnFails \/ SpawnSaveFails
    <2>1. PICK s, m : pc' = [pc EXCEPT !["spawn"] = s, !["monitor"] = m]
                      /\ (lane' = lane \/ (s = "queued" /\ lane' = Append(lane, Job("spawn", "delete", NoSnapshot, 0))))
      BY <1>3 DEF SpawnSucceeds, SpawnFails, SpawnSaveFails, Enqueue, queue
    <2>2. pc["spawn"] = "starting"
      BY <1>3 DEF SpawnSucceeds, SpawnFails, SpawnSaveFails
    <2>3. ~\E i \in 1..Len(lane) : lane[i].by \in {"spawn", "monitor"}
      <3>1. SUFFICES ASSUME NEW i \in 1..Len(lane)
                     PROVE  lane[i].by \notin {"spawn", "monitor"}
        OBVIOUS
      <3>2. PICK x : x = lane[i]
        OBVIOUS
      <3>3. JobOK(x)
        BY <3>2 DEF IndInv, LaneInv
      <3> QED BY <2>2, <3>2, <3>3 DEF JobOK, Childless
    <2>4. ASSUME NEW a \in Actors \ {"spawn", "monitor"}
          PROVE  pc'[a] = pc[a]
      BY <2>1, <1>1
    <2>5. \A i \in 1..Len(lane) : lane[i].by \in Actors
      BY <1>1, JobActor
    <2>6. \A i \in 1..Len(lane) : pc'[lane[i].by] = "queued"
      BY <2>3, <2>4, <2>5 DEF QueueInv
    <2>7. CASE lane' = lane
      BY <2>6, <2>7 DEF QueueInv
    <2>8. CASE lane' # lane
      <3>1. PICK j : j = Job("spawn", "delete", NoSnapshot, 0)
        OBVIOUS
      <3>2. j \in Jobs /\ j.by = "spawn"
        BY <3>1, <1>1, NewJob
      <3>3. lane' = Append(lane, j) /\ pc'["spawn"] = "queued"
        BY <2>1, <2>8, <3>1, <1>1
      <3>4. /\ Len(lane') = Len(lane) + 1 /\ Len(lane) \in Nat
            /\ \A i \in 1..Len(lane) : lane'[i] = lane[i]
            /\ lane'[Len(lane) + 1] = j
        BY <3>2, <3>3, <1>1
      <3>5. \A i \in 1..Len(lane') : i \in 1..Len(lane) \/ i = Len(lane) + 1
        BY <3>4
      <3>6. \A i \in 1..Len(lane') : pc'[lane'[i].by] = "queued"
        BY <2>6, <3>2, <3>3, <3>4, <3>5
      <3>7. ASSUME NEW i \in 1..Len(lane'), NEW k \in 1..Len(lane'), lane'[i].by = lane'[k].by
            PROVE  i = k
        <4>1. CASE i \in 1..Len(lane) /\ k \in 1..Len(lane)
          BY <4>1, <3>4, <3>7 DEF QueueInv
        <4>2. CASE i \in 1..Len(lane) /\ k = Len(lane) + 1
          BY <4>2, <2>3, <3>2, <3>4, <3>7
        <4>3. CASE k \in 1..Len(lane) /\ i = Len(lane) + 1
          BY <4>3, <2>3, <3>2, <3>4, <3>7
        <4> QED BY <4>1, <4>2, <4>3, <3>5
      <3> QED BY <3>6, <3>7 DEF QueueInv
    <2> QED BY <2>7, <2>8
  <1>4. CASE MonitorStep
    <2>1. pc["monitor"] # "queued"
      BY <1>4 DEF MonitorStep, MonitorObserves, MonitorLosesWorker, MonitorCatches
    <2>2. CASE MonitorObserves
      <3>1. PICK op \in {"finish", "finalize"} : lane' = Append(lane, Job("monitor", op, CurrentSnapshot(child, out), version))
        BY <2>2 DEF MonitorObserves, Enqueue
      <3>2. pc' = [pc EXCEPT !["monitor"] = "queued"]
        BY <2>2 DEF MonitorObserves
      <3> QED BY <3>1, <3>2, <2>1, <1>1, QueueMoves
    <2>3. CASE MonitorLosesWorker \/ MonitorCatches
      <3>1. PICK where : /\ pc' = [pc EXCEPT !["monitor"] = where]
                         /\ \/ lane' = lane
                            \/ where = "queued" /\ lane' = Append(lane, Job("monitor", "rollback", NoSnapshot, 0))
        BY <2>3 DEF MonitorLosesWorker, MonitorCatches, Enqueue, queue
      <3> QED BY <3>1, <2>1, <1>1, QueueMoves
    <2> QED BY <1>4, <2>2, <2>3 DEF MonitorStep
  <1>5. CASE Call \/ Get \/ GetFails
    <2>1. pc["caller"] # "queued"
      BY <1>5 DEF Call, Get, GetFails
    <2>2. PICK where : /\ pc' = [pc EXCEPT !["caller"] = where]
                       /\ \/ lane' = lane
                          \/ where = "queued" /\ lane' = Append(lane, Job("caller", "stop", NoSnapshot, 0))
      BY <1>5 DEF Call, Get, GetFails, Enqueue, Quit, queue
    <2> QED BY <2>1, <2>2, <1>1, QueueMoves
  <1>6. CASE GetAnswered
    <2>1. pc["caller"] # "queued"
      BY <1>6 DEF GetAnswered
    <2>2. CASE attached
      <3>1. PICK op \in {"finish", "finalize"} : lane' = Append(lane, Job("caller", op, CurrentSnapshot(child, out), noted))
        BY <1>6, <2>2 DEF GetAnswered, Enqueue
      <3>2. pc' = [pc EXCEPT !["caller"] = "queued"]
        BY <1>6, <2>2 DEF GetAnswered
      <3> QED BY <3>1, <3>2, <2>1, <1>1, QueueMoves
    <2>3. CASE ~attached
      <3>1. lane' = lane /\ pc' = [pc EXCEPT !["caller"] = Ended("caller")]
        BY <1>6, <2>3 DEF GetAnswered, Quit, queue
      <3> QED BY <3>1, <2>1, <1>1, QueueMoves
    <2> QED BY <2>2, <2>3
  <1>7. CASE DeleteConversation \/ AfterMark
    <2>1. pc["deletion"] # "queued"
      BY <1>7 DEF DeleteConversation, AfterMark
    <2>2. PICK where : /\ pc' = [pc EXCEPT !["deletion"] = where]
                       /\ \/ lane' = lane
                          \/ /\ where = "queued"
                             /\ \/ lane' = Append(lane, Job("deletion", "mark", NoSnapshot, 0))
                                \/ lane' = Append(lane, Job("deletion", "stop", NoSnapshot, 0))
      BY <1>7 DEF DeleteConversation, AfterMark, Enqueue, Quit, GoTo, queue
    <2> QED BY <2>1, <2>2, <1>1, QueueMoves
  <1>8. ASSUME NEW a \in {"caller", "deletion"}, CleanupStep(a)
        PROVE  QueueInv'
    <2>1. pc[a] # "queued"
      BY <1>8 DEF CleanupStep, Cleanup, ShutdownAnswered, ShutdownFails, Shutdowns
    <2>2. EnqueueDelete(a) \/ Quit(a) \/ \E how : GoTo(a, how)
      <3>1. CASE Cleanup(a)
        BY <3>1 DEF Cleanup
      <3>2. CASE ShutdownAnswered(a)
        BY <3>2 DEF ShutdownAnswered
      <3>3. CASE ShutdownFails(a)
        BY <3>3 DEF ShutdownFails
      <3> QED BY <1>8, <3>1, <3>2, <3>3 DEF CleanupStep
    <2>3. PICK where : /\ pc' = [pc EXCEPT ![a] = where]
                       /\ \/ lane' = lane
                          \/ where = "queued" /\ lane' = Append(lane, Job(a, "delete", NoSnapshot, 0))
      BY <2>2 DEF EnqueueDelete, Enqueue, Quit, GoTo, queue
    <2>4. a \in Actors
      BY <1>1
    <2> QED BY <2>1, <2>3, <2>4, <1>1, QueueMoves
  <1>9. CASE LaneStep
    <2>1. lane # <<>>
      BY <1>9 DEF LaneStep, Mark, FinishJob, FinalizeJob, StopJob, StopAnswered, StopFails, FinalSnapshot,
                  FinalSnapshotFails, FinishFinal, ShutdownWorker, RollbackBegins, Rollback, DeleteBegins,
                  DeleteEnds, DeleteFails, Begins, At
    <2>2. UNCHANGED <<lane, pc>> \/ \E where : Leave(where)
      <3>1. CASE Mark \/ FinishJob \/ FinalizeJob \/ StopAnswered
        BY <3>1 DEF Mark, FinishJob, FinalizeJob, StopAnswered, StartFinalize
      <3>2. CASE StopJob
        BY <3>2 DEF StopJob
      <3>3. CASE FinalSnapshot \/ FinalSnapshotFails \/ ShutdownWorker \/ StopFails
        BY <3>3 DEF FinalSnapshot, FinalSnapshotFails, ShutdownWorker, StopFails
      <3>4. CASE FinishFinal
        BY <3>4 DEF FinishFinal
      <3>5. CASE RollbackBegins \/ Rollback \/ DeleteBegins \/ DeleteEnds \/ DeleteFails
        BY <3>5 DEF RollbackBegins, Rollback, DeleteBegins, DeleteEnds, DeleteFails
      <3> QED BY <1>9, <3>1, <3>2, <3>3, <3>4, <3>5 DEF LaneStep
    <2>3. CASE UNCHANGED <<lane, pc>>
      BY <2>3, <1>1, QueueSame
    <2>4. CASE \E where : Leave(where)
      BY <2>1, <2>4, <1>1, QueueShrinks
    <2> QED BY <2>2, <2>3, <2>4
  <1> QED BY <1>2, <1>3, <1>4, <1>5, <1>6, <1>7, <1>8, <1>9 DEF Next

\* Four actors, four jobs at most.
LEMMA LaneIsShort ==
    ASSUME QueueInv, lane \in Seq(Jobs)
    PROVE  Len(lane) <= 4
  <1>1. Len(lane) \in Nat /\ \A i \in 1..Len(lane) : lane[i].by \in Actors
    BY JobActor
  <1>2. SUFFICES ASSUME Len(lane) >= 5
                 PROVE  FALSE
    BY <1>1
  <1>3. {1, 2, 3, 4, 5} \subseteq 1..Len(lane)
    BY <1>1, <1>2
  <1>4. /\ lane[1].by \in Actors /\ lane[2].by \in Actors /\ lane[3].by \in Actors
        /\ lane[4].by \in Actors /\ lane[5].by \in Actors
    BY <1>1, <1>3
  <1>5. /\ lane[1].by # lane[2].by /\ lane[1].by # lane[3].by /\ lane[1].by # lane[4].by
        /\ lane[1].by # lane[5].by /\ lane[2].by # lane[3].by /\ lane[2].by # lane[4].by
        /\ lane[2].by # lane[5].by /\ lane[3].by # lane[4].by /\ lane[3].by # lane[5].by
        /\ lane[4].by # lane[5].by
    BY <1>3 DEF QueueInv
  <1> QED BY <1>4, <1>5 DEF Actors

\* Type correctness; in particular the lane never holds more than one job of
\* each of its four clients (enqueueMutation).
THEOREM SupervisorTypeCorrect == Spec => []TypeOK
  <1>1. Init => QueueInv /\ CountInv
    <2>1. Init => lane = <<>> /\ Len(lane) = 0
      BY DEF Init
    <2>2. Init => QueueInv
      BY <2>1 DEF QueueInv
    <2>3. Init => finalization = "none" /\ worker = "none" /\ calls = 0 /\ faults = 0
      BY DEF Init
    <2>4. Init => proof \in BOOLEAN
      BY Zenon DEF Init
    <2>5. 0 \in 0..MaxCalls /\ 0 \in 0..MaxFaults
      BY BoundsAssumption
    <2>6. Init => CountInv
      BY <2>3, <2>4, <2>5 DEF CountInv
    <2> QED BY <2>2, <2>6
  <1>2. IndInv /\ QueueInv /\ CountInv /\ [Next]_vars => (QueueInv /\ CountInv)'
    BY QueueKept, CountsKept
  <1>3. IndInv /\ QueueInv /\ CountInv => TypeOK
    <2>1. SUFFICES ASSUME IndInv, QueueInv, CountInv
                   PROVE  TypeOK
      OBVIOUS
    <2>2. /\ lane \in Seq(Jobs) /\ version \in Nat /\ noted \in Nat /\ step \in Steps
          /\ laneSnap \in Snapshots /\ pc \in [Actors -> PCs]
      BY <2>1 DEF IndInv, LaneInv, HeadInv, ActorInv, SnapshotOK
    <2>3. rec \in FlatRecords
      BY <2>1, SettledIsLoose DEF IndInv, RecordInv, Loose
    <2>4. Len(lane) <= 4
      BY <2>1, <2>2, LaneIsShort
    <2>5. /\ stored \in BOOLEAN /\ present \in BOOLEAN /\ attached \in BOOLEAN
          /\ child \in {"none", "live", "residue", "gone"} /\ out \in {"open", "complete", "incomplete"}
      BY <2>1 DEF IndInv, RecordInv
    <2> QED BY <2>1, <2>2, <2>3, <2>4, <2>5 DEF TypeOK, CountInv
  <1> QED BY <1>1, <1>2, <1>3, SupervisorInvariant, PTL DEF Spec
=============================================================================
