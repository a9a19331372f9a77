----------------------- MODULE LifecycleReducerProofs -----------------------
(***************************************************************************)
(* What the reducer, the refresh and the codec do to one session state,     *)
(* for every state, event and piece of evidence: a state that the validator *)
(* accepts leads to one that it accepts, and what a session has settled,    *)
(* its outcome and its mark for cleanup, is never taken back.  The modules  *)
(* with the handlers build on these lemmas.                                 *)
(***************************************************************************)
EXTENDS LifecycleReducer, TLAPS

\* A state that the validator accepts; no child means a confirmed cleanup.
Sound(s) ==
    /\ s \in States
    /\ ValidState(s)
    /\ s.ev.noChild => s.ev.confirmed

\* Flat evidence that may be folded into the state s: it is about the same
\* legacy tombstone, and a tombstone proves nothing.
Fits(ev, s) ==
    /\ ev \in Evidence
    /\ ev.noChild => ev.confirmed
    /\ ev.tomb = s.ev.tomb
    /\ ev.tomb # None => ~ev.confirmed /\ ~ev.directExited

\* t keeps what s has settled: its outcome and its mark for cleanup.
Follows(s, t) ==
    /\ TerminalPayload(s) # None => TerminalPayload(t) = TerminalPayload(s)
    /\ s.kind = "cleaning" => t.kind = "cleaning"

-----------------------------------------------------------------------------
(* The reducer's helpers *)

USE DEF None, Outcomes, ActiveKinds, Known, Kinds

\* A terminal claim is stored as such only with its proof, and as the payload
\* of a lost session otherwise (terminalOrUnreachable); first with, then
\* without a pending cleanup.
LEMMA MarkedClaimSound ==
    ASSUME NEW ev \in Evidence, NEW outcome \in Outcomes, NEW t,
           ev.noChild => ev.confirmed,
           ev.tomb # None => ~ev.confirmed /\ ~ev.directExited /\ ev.tomb = "terminal",
           t = IF TerminalProven(outcome, ev)
               THEN Cleaning("terminal", outcome, None, None, ev)
               ELSE Cleaning("unreachable", None, "terminal", outcome, ev)
    PROVE  Sound(t) /\ t.ev = ev /\ TerminalPayload(t) = outcome /\ t.kind = "cleaning"
<1>1. CASE TerminalProven(outcome, ev)
  <2>1. t = Cleaning("terminal", outcome, None, None, ev)
    BY <1>1
  <2>2. ev.tomb = None /\ ValidTerminalProof(outcome, ev)
    BY <1>1 DEF TerminalProven, DirectChildGone, ValidTerminalProof
  <2>3. /\ t \in States /\ t.kind = "cleaning" /\ t.target = "terminal" /\ t.outcome = outcome
        /\ t.lastKnown = None /\ t.terminal = None /\ t.ev = ev
    BY <2>1 DEF Cleaning, States
  <2> QED BY <2>2, <2>3 DEF Sound, ValidState, TerminalPayload
<1>2. CASE ~TerminalProven(outcome, ev)
  <2>1. t = Cleaning("unreachable", None, "terminal", outcome, ev)
    BY <1>2
  <2>2. /\ t \in States /\ t.kind = "cleaning" /\ t.target = "unreachable" /\ t.outcome = None
        /\ t.lastKnown = "terminal" /\ t.terminal = outcome /\ t.ev = ev
    BY <2>1 DEF Cleaning, States
  <2> QED BY <2>2 DEF Sound, ValidState, TerminalPayload, Status
<1> QED BY <1>1, <1>2

LEMMA OpenClaimSound ==
    ASSUME NEW ev \in Evidence, NEW outcome \in Outcomes, NEW t,
           ev.noChild => ev.confirmed, ev.tomb = None,
           t = IF TerminalProven(outcome, ev) THEN Terminal(outcome, ev)
               ELSE Unreachable("terminal", outcome, ev)
    PROVE  Sound(t) /\ t.ev = ev /\ TerminalPayload(t) = outcome
<1>1. CASE TerminalProven(outcome, ev)
  <2>1. t = Terminal(outcome, ev)
    BY <1>1
  <2>2. ValidTerminalProof(outcome, ev)
    BY <1>1 DEF TerminalProven, DirectChildGone, ValidTerminalProof
  <2>3. /\ t \in States /\ t.kind = "terminal" /\ t.target = None /\ t.outcome = outcome
        /\ t.lastKnown = None /\ t.terminal = None /\ t.ev = ev
    BY <2>1 DEF Terminal, States
  <2> QED BY <2>2, <2>3 DEF Sound, ValidState, TerminalPayload
<1>2. CASE ~TerminalProven(outcome, ev)
  <2>1. t = Unreachable("terminal", outcome, ev)
    BY <1>2
  <2>2. /\ t \in States /\ t.kind = "unreachable" /\ t.target = None /\ t.outcome = None
        /\ t.lastKnown = "terminal" /\ t.terminal = outcome /\ t.ev = ev
    BY <2>1 DEF Unreachable, States
  <2> QED BY <2>2 DEF Sound, ValidState, TerminalPayload
<1> QED BY <1>1, <1>2

\* Losing sight of a session keeps its outcome (unreachable()).
LEMMA ToUnreachableSound ==
    ASSUME NEW s, Sound(s), NEW t, t = ToUnreachable(s)
    PROVE  Sound(t) /\ t.ev = s.ev /\ Follows(s, t)
<1> DEFINE payload == TerminalPayload(s)
           known   == IF payload # None THEN "terminal" ELSE LastKnown(s)
<1>1. s \in States /\ s.ev \in Evidence
  BY DEF Sound, States
<1>2. /\ payload \in Outcomes \cup {None} /\ known \in Known
      /\ known = "terminal" <=> payload # None
  <2>1. CASE s.kind = "cleaning"
    BY <1>1, <2>1 DEF Sound, States, TerminalPayload, LastKnown, ValidState
  <2>2. CASE s.kind = "terminal"
    BY <1>1, <2>2 DEF Sound, States, TerminalPayload, LastKnown, ValidState
  <2>3. CASE s.kind = "unreachable"
    BY <1>1, <2>3 DEF Sound, States, TerminalPayload, LastKnown, ValidState
  <2>4. CASE s.kind \in ActiveKinds
    BY <1>1, <2>4 DEF Sound, States, TerminalPayload, LastKnown, ValidState
  <2> QED BY <1>1, <2>1, <2>2, <2>3, <2>4 DEF States
<1>3. s.ev.tomb # None => /\ s.kind = "cleaning" /\ s.ev.tomb = known
                          /\ ~s.ev.confirmed /\ ~s.ev.directExited
  BY <1>1 DEF Sound, States, ValidState, TerminalPayload, LastKnown
<1>4. CASE s.kind = "cleaning"
  <2>1. t = Cleaning("unreachable", None, known, payload, s.ev)
    BY <1>4 DEF ToUnreachable
  <2> HIDE DEF payload, known
  <2>2. /\ t \in States /\ t.kind = "cleaning" /\ t.target = "unreachable"
        /\ t.outcome = None /\ t.lastKnown = known /\ t.terminal = payload /\ t.ev = s.ev
    BY <1>1, <1>2, <2>1 DEF Cleaning, States
  <2>3. Sound(t)
    BY <1>2, <1>3, <2>2 DEF Sound, ValidState, Status
  <2>4. Follows(s, t)
    BY <2>2 DEF Follows, TerminalPayload, payload
  <2> QED BY <2>2, <2>3, <2>4
<1>5. CASE s.kind # "cleaning"
  <2>1. t = Unreachable(known, payload, s.ev)
    BY <1>5 DEF ToUnreachable
  <2> HIDE DEF payload, known
  <2>2. /\ t \in States /\ t.kind = "unreachable" /\ t.target = None
        /\ t.outcome = None /\ t.lastKnown = known /\ t.terminal = payload /\ t.ev = s.ev
    BY <1>1, <1>2, <2>1 DEF Unreachable, States
  <2>3. Sound(t)
    BY <1>2, <1>3, <1>5, <2>2 DEF Sound, ValidState
  <2>4. Follows(s, t)
    BY <1>5, <2>2 DEF Follows, TerminalPayload, payload
  <2> QED BY <2>2, <2>3, <2>4
<1> QED BY <1>4, <1>5

\* A mark for cleanup keeps everything else (cleaning()).
LEMMA ToCleaningSound ==
    ASSUME NEW s, Sound(s), NEW t, t = ToCleaning(s)
    PROVE  Sound(t) /\ t.ev = s.ev /\ Follows(s, t) /\ t.kind = "cleaning"
<1>1. s \in States /\ s.ev \in Evidence
  BY DEF Sound, States
<1>2. CASE s.kind = "cleaning"
  BY <1>2 DEF ToCleaning, Follows
<1>3. CASE s.kind = "terminal"
  <2>1. t = Cleaning("terminal", s.outcome, None, None, s.ev)
    BY <1>3 DEF ToCleaning
  <2>2. /\ t \in States /\ t.kind = "cleaning" /\ t.target = "terminal" /\ t.outcome = s.outcome
        /\ t.lastKnown = None /\ t.terminal = None /\ t.ev = s.ev
    BY <1>1, <2>1 DEF Cleaning, States
  <2> QED BY <1>1, <1>3, <2>2 DEF Sound, ValidState, Follows, TerminalPayload
<1>4. CASE s.kind = "unreachable"
  <2>1. t = Cleaning("unreachable", None, s.lastKnown, s.terminal, s.ev)
    BY <1>4 DEF ToCleaning
  <2>2. /\ t \in States /\ t.kind = "cleaning" /\ t.target = "unreachable"
        /\ t.outcome = None /\ t.lastKnown = s.lastKnown /\ t.terminal = s.terminal /\ t.ev = s.ev
    BY <1>1, <2>1 DEF Cleaning, States
  <2> QED BY <1>1, <1>4, <2>2 DEF Sound, ValidState, Follows, TerminalPayload, Status
<1>5. CASE s.kind \in ActiveKinds
  <2>1. t = Cleaning(s.kind, None, None, None, s.ev)
    BY <1>5 DEF ToCleaning
  <2>2. /\ t \in States /\ t.kind = "cleaning" /\ t.target = s.kind /\ t.outcome = None
        /\ t.lastKnown = None /\ t.terminal = None /\ t.ev = s.ev
    BY <1>1, <1>5, <2>1 DEF Cleaning, States
  <2> QED BY <1>1, <1>5, <2>2 DEF Sound, ValidState, Follows, TerminalPayload
<1> QED BY <1>1, <1>2, <1>3, <1>4, <1>5 DEF States

\* A sound state that takes fitting evidence in is sound again, keeps what it
\* has settled, and is marked when a cleanup is pending (refreshSessionState).
LEMMA RefreshSound ==
    ASSUME NEW s, NEW ev, NEW pending \in BOOLEAN, NEW t,
           Sound(s), Fits(ev, s), t = Refresh(s, ev, pending)
    PROVE  Sound(t) /\ t.ev = ev /\ Follows(s, t)
<1>1. s \in States /\ ev \in Evidence
  BY DEF Sound, Fits
<1>2. CASE s.kind = "terminal" \/ (s.kind = "cleaning" /\ s.target = "terminal")
  <2>1. /\ ev.tomb = None /\ s.outcome \in Outcomes /\ TerminalPayload(s) = s.outcome
        /\ ev.noChild => ev.confirmed
    BY <1>1, <1>2 DEF Sound, Fits, ValidState, States, TerminalPayload
  <2>2. CASE s.kind = "cleaning" \/ pending = TRUE
    <3>1. t = IF TerminalProven(s.outcome, ev)
              THEN Cleaning("terminal", s.outcome, None, None, ev)
              ELSE Cleaning("unreachable", None, "terminal", s.outcome, ev)
      BY <1>2, <2>2 DEF Refresh, TerminalOrUnreachable
    <3>2. Sound(t) /\ t.ev = ev /\ TerminalPayload(t) = s.outcome /\ t.kind = "cleaning"
      BY <1>1, <2>1, <3>1, MarkedClaimSound
    <3> QED BY <2>1, <3>2 DEF Follows
  <2>3. CASE s.kind = "terminal" /\ pending = FALSE
    <3>1. t = IF TerminalProven(s.outcome, ev) THEN Terminal(s.outcome, ev)
              ELSE Unreachable("terminal", s.outcome, ev)
      BY <2>3 DEF Refresh, TerminalOrUnreachable
    <3>2. Sound(t) /\ t.ev = ev /\ TerminalPayload(t) = s.outcome
      BY <1>1, <2>1, <3>1, OpenClaimSound
    <3> QED BY <2>1, <2>3, <3>2 DEF Follows
  <2> QED BY <1>2, <2>2, <2>3
<1>3. CASE ~(s.kind = "terminal" \/ (s.kind = "cleaning" /\ s.target = "terminal"))
  <2> DEFINE fresh == [s EXCEPT !.ev = ev]
  <2>1. /\ fresh \in States /\ fresh.ev = ev /\ fresh.kind = s.kind /\ fresh.target = s.target
        /\ fresh.outcome = s.outcome /\ fresh.lastKnown = s.lastKnown
        /\ fresh.terminal = s.terminal
    BY <1>1 DEF States
  <2>2. t = IF pending /\ s.kind # "cleaning" THEN ToCleaning(fresh) ELSE fresh
    BY <1>3 DEF Refresh
  <2> HIDE DEF fresh
  <2>3. Sound(fresh)
    BY <1>1, <1>3, <2>1 DEF Sound, Fits, ValidState, Status
  <2>4. Follows(s, fresh)
    BY <2>1 DEF Follows, TerminalPayload
  <2>5. CASE pending /\ s.kind # "cleaning"
    <3>1. Sound(t) /\ t.ev = ev /\ Follows(fresh, t)
      BY <2>1, <2>2, <2>3, <2>5, ToCleaningSound
    <3> QED BY <2>4, <3>1 DEF Follows
  <2>6. CASE ~(pending /\ s.kind # "cleaning")
    BY <2>1, <2>2, <2>3, <2>4, <2>6
  <2> QED BY <2>5, <2>6
<1> QED BY <1>2, <1>3

\* An event that a sound state accepts leads to a sound state that keeps what
\* was settled (reduceSessionState).
LEMMA ReduceSound ==
    ASSUME NEW s, NEW event \in Events, NEW t,
           Sound(s), Accepts(s, event), t = Reduce(s, event)
    PROVE  Sound(t) /\ t.ev = s.ev /\ Follows(s, t)
<1>1. s \in States /\ s.ev \in Evidence
  BY DEF Sound, States
<1>2. CASE event = "unreachable"
  <2>1. t = ToUnreachable(s)
    BY <1>2 DEF Reduce, TerminalEvents
  <2> QED BY <2>1, ToUnreachableSound
<1>3. CASE event \in {"recovered", "worker_ready"}
  <2>1. s.kind \in {"unreachable", "creating", "running"}
    BY <1>3 DEF Accepts, TerminalEvents
  <2>2. TerminalPayload(s) = None /\ s.ev.tomb = None
    BY <1>1, <1>3, <2>1 DEF Accepts, TerminalEvents, TerminalPayload, Sound, ValidState, States
  <2>3. t = Plain("running", s.ev)
    BY <1>3 DEF Reduce, TerminalEvents
  <2>4. /\ t \in States /\ t.kind = "running" /\ t.target = None /\ t.outcome = None
        /\ t.lastKnown = None /\ t.terminal = None /\ t.ev = s.ev
    BY <1>1, <2>3 DEF Plain, States
  <2> QED BY <2>1, <2>2, <2>4 DEF Sound, ValidState, Follows
<1>4. CASE event = "stop_requested"
  <2>1. /\ s.kind = "cleaning" => s.target \in {"running", "stopping"}
        /\ s.kind \in {"cleaning", "running", "stopping"}
    BY <1>4 DEF Accepts, TerminalEvents
  <2>2. TerminalPayload(s) = None /\ s.ev.tomb = None
    BY <1>1, <2>1 DEF TerminalPayload, Sound, ValidState, States
  <2>3. CASE s.kind = "cleaning"
    <3>1. t = Cleaning("stopping", None, None, None, s.ev)
      BY <1>4, <2>3 DEF Reduce, TerminalEvents
    <3>2. /\ t \in States /\ t.kind = "cleaning" /\ t.target = "stopping" /\ t.outcome = None
          /\ t.lastKnown = None /\ t.terminal = None /\ t.ev = s.ev
      BY <1>1, <3>1 DEF Cleaning, States
    <3> QED BY <2>2, <3>2 DEF Sound, ValidState, Follows
  <2>4. CASE s.kind # "cleaning"
    <3>1. t = Plain("stopping", s.ev)
      BY <1>4, <2>4 DEF Reduce, TerminalEvents
    <3>2. /\ t \in States /\ t.kind = "stopping" /\ t.target = None /\ t.outcome = None
          /\ t.lastKnown = None /\ t.terminal = None /\ t.ev = s.ev
      BY <1>1, <3>1 DEF Plain, States
    <3> QED BY <2>2, <2>4, <3>2 DEF Sound, ValidState, Follows
  <2> QED BY <2>3, <2>4
<1>5. CASE event \in TerminalEvents
  <2>1. CASE s.kind = "terminal"
    BY <1>5, <2>1 DEF Reduce, TerminalEvents, Follows
  <2>2. CASE s.kind # "terminal"
    <3> DEFINE outcome == OutcomeOf(event)
    <3>1. /\ s.kind = "cleaning" => s.target \in ActiveKinds
          /\ s.kind \in ActiveKinds \cup {"cleaning"}
          /\ outcome \in Outcomes
      BY <1>5, <2>2 DEF Accepts, TerminalEvents, OutcomeOf
    <3>2. /\ TerminalPayload(s) = None /\ s.ev.tomb = None
          /\ s.ev.noChild => s.ev.confirmed
      BY <1>1, <3>1 DEF TerminalPayload, Sound, ValidState, States
    <3>3. CASE s.kind = "cleaning"
      <4>1. t = IF TerminalProven(outcome, s.ev)
                THEN Cleaning("terminal", outcome, None, None, s.ev)
                ELSE Cleaning("unreachable", None, "terminal", outcome, s.ev)
        BY <1>5, <3>3 DEF Reduce, TerminalEvents, TerminalOrUnreachable
      <4> HIDE DEF outcome
      <4>2. Sound(t) /\ t.ev = s.ev /\ t.kind = "cleaning"
        BY <1>1, <3>1, <3>2, <4>1, MarkedClaimSound
      <4> QED BY <3>2, <4>2 DEF Follows
    <3>4. CASE s.kind # "cleaning"
      <4>1. t = IF TerminalProven(outcome, s.ev) THEN Terminal(outcome, s.ev)
                ELSE Unreachable("terminal", outcome, s.ev)
        BY <1>5, <2>2, <3>4 DEF Reduce, TerminalEvents, TerminalOrUnreachable
      <4> HIDE DEF outcome
      <4>2. Sound(t) /\ t.ev = s.ev
        BY <1>1, <3>1, <3>2, <4>1, OpenClaimSound
      <4> QED BY <3>2, <3>4, <4>2 DEF Follows
    <3> QED BY <3>3, <3>4
  <2> QED BY <2>1, <2>2
<1> QED BY <1>2, <1>3, <1>4, <1>5 DEF Events, TerminalEvents

\* Following is transitive: a session's settled facts add up.
LEMMA FollowsTransitive ==
    ASSUME NEW s, NEW t, NEW u, Follows(s, t), Follows(t, u)
    PROVE  Follows(s, u)
  BY DEF Follows

-----------------------------------------------------------------------------
(* The flat record *)

\* A record whose flat evidence is yet to be folded into its state.
Loose(r) ==
    /\ r \in FlatRecords
    /\ Sound(r.state)
    /\ Fits(r.ev, r.state)

\* A record as a save or a load leaves it.
Settled(r) ==
    /\ r = Project(r.state)
    /\ Sound(r.state)

LEMMA ProjectSettled ==
    ASSUME NEW s, Sound(s)
    PROVE  Settled(Project(s)) /\ Project(s).state = s /\ Project(s).ev = s.ev
  BY DEF Project, Settled

LEMMA SettledIsLoose ==
    ASSUME NEW r, Settled(r)
    PROVE  Loose(r) /\ r.ev = r.state.ev /\ (r.pendingCleanup <=> r.state.kind = "cleaning")
<1>1. r.state \in States /\ r.state.ev \in Evidence
  BY DEF Settled, Sound, States
<1>2. /\ r.ev = r.state.ev /\ r.pendingCleanup = (r.state.kind = "cleaning")
      /\ r \in FlatRecords
  <2> DEFINE s == r.state
  <2>1. r = [state |-> s, ev |-> s.ev, pendingCleanup |-> s.kind = "cleaning"]
    BY DEF Settled, Project
  <2> HIDE DEF s
  <2>2. s \in States /\ s.ev \in Evidence
    BY <1>1 DEF s
  <2>3. r \in FlatRecords /\ r.ev = s.ev /\ r.pendingCleanup = (s.kind = "cleaning")
    BY <2>1, <2>2 DEF FlatRecords
  <2> QED BY <2>3 DEF s
<1>3. Fits(r.ev, r.state)
  BY <1>1, <1>2 DEF Fits, Settled, Sound, ValidState, States
<1> QED BY <1>2, <1>3 DEF Loose, Settled

\* writeSession: whatever the handlers did to the evidence and the cleanup
\* flag, the record it stores passes the validator.
LEMMA WrittenSettled ==
    ASSUME NEW r, Loose(r), NEW w, w = Written(r)
    PROVE  Settled(w) /\ w.ev = r.ev /\ Follows(r.state, w.state)
<1> DEFINE t == Refresh(r.state, r.ev, r.pendingCleanup)
<1>1. r.pendingCleanup \in BOOLEAN
  BY DEF Loose, FlatRecords
<1>2. Sound(t) /\ t.ev = r.ev /\ Follows(r.state, t)
  BY <1>1, RefreshSound DEF Loose
<1>3. w = Project(t)
  BY DEF Written
<1> HIDE DEF t
<1> QED BY <1>2, <1>3, ProjectSettled

\* A transition, accepted or refused, leaves a record that can be written,
\* with the evidence it had or the evidence that came with the event.
LEMMA TransitionLoose ==
    ASSUME NEW r, NEW event \in Events, NEW obs, NEW t,
           Loose(r), Fits(obs, r.state), t = Transition(r, event, obs)
    PROVE  /\ Loose(t) /\ Follows(r.state, t.state) /\ t.ev \in {r.ev, obs}
           /\ t.ev.tomb = r.ev.tomb
           /\ Accepted(r, event, obs) => Settled(t) /\ t.ev = obs
<1> DEFINE fresh == Refresh(r.state, obs, r.pendingCleanup)
<1>1. CASE Accepted(r, event, obs)
  <2> DEFINE u == Reduce(fresh, event)
  <2>1. r.pendingCleanup \in BOOLEAN
    BY DEF Loose, FlatRecords
  <2>2. Sound(fresh) /\ fresh.ev = obs /\ Follows(r.state, fresh)
    BY <2>1, RefreshSound DEF Loose
  <2>3. Accepts(fresh, event)
    BY <1>1 DEF Accepted
  <2>4. t = Project(u)
    BY <1>1 DEF Transition
  <2> HIDE DEF fresh
  <2>5. Sound(u) /\ u.ev = obs /\ Follows(fresh, u)
    BY <2>2, <2>3, ReduceSound
  <2> HIDE DEF u
  <2>6. Settled(t) /\ t.state = u /\ t.ev = obs
    BY <2>4, <2>5, ProjectSettled
  <2>7. Loose(t)
    BY <2>6, SettledIsLoose
  <2>8. Follows(r.state, u)
    BY <2>2, <2>5, FollowsTransitive
  <2>9. t.ev.tomb = r.ev.tomb
    BY <2>6 DEF Loose, Fits
  <2> QED BY <2>6, <2>7, <2>8, <2>9
<1>2. CASE ~Accepted(r, event, obs)
  <2>1. t = r
    BY <1>2 DEF Transition
  <2> QED BY <1>2, <2>1 DEF Follows
<1> QED BY <1>1, <1>2
=============================================================================
