-------------------------- MODULE LifecycleReducer --------------------------
(***************************************************************************)
(* The pure half of a session's life (src/src/daemon/lifecycle.ts): the     *)
(* discriminated session state, the reducer that applies one event to it,   *)
(* the refresh that folds the flat record's evidence back into it, the      *)
(* projection to the flat status, and the validator that storage runs       *)
(* before it writes a V2 record.                                            *)
(*                                                                          *)
(* A state is a record.  `ev` is its evidence, of which the reducer reads   *)
(* four facts: the worker confirmed the termination, the direct child       *)
(* exited, the containment report is a drained one, and the exit reason is  *)
(* a spawn error whose cleanup proves that no direct child was ever         *)
(* created.  `tomb` is the last state a legacy (V0/V1) import was known in. *)
(* An absent optional field is None; a terminal payload is its outcome.     *)
(* The host is one whose containment is consulted (Linux, Windows): darwin  *)
(* drops the `drained` conjunct everywhere.                                 *)
(***************************************************************************)

None == "none"

Outcomes == {"exited", "timed_out", "output_limited", "spawn_failed"}
ActiveKinds == {"creating", "running", "stopping"}
Known == ActiveKinds \cup {"terminal", "unreachable"}
Kinds == Known \cup {"cleaning"}
Events == {"worker_ready", "stop_requested", "child_exited", "timed_out",
           "output_limited", "spawn_failed", "unreachable", "recovered"}

Evidence == [confirmed : BOOLEAN, directExited : BOOLEAN, drained : BOOLEAN,
             noChild : BOOLEAN, tomb : Known \cup {None}]

NoEvidence == [confirmed |-> FALSE, directExited |-> FALSE, drained |-> FALSE,
               noChild |-> FALSE, tomb |-> None]

States == [kind : Kinds, target : Known \cup {None}, outcome : Outcomes \cup {None},
           lastKnown : Known \cup {None}, terminal : Outcomes \cup {None},
           ev : Evidence]

\* The five shapes a state takes.
Plain(kind, ev) ==
    [kind |-> kind, target |-> None, outcome |-> None, lastKnown |-> None,
     terminal |-> None, ev |-> ev]
Terminal(outcome, ev) ==
    [kind |-> "terminal", target |-> None, outcome |-> outcome,
     lastKnown |-> None, terminal |-> None, ev |-> ev]
Unreachable(known, payload, ev) ==
    [kind |-> "unreachable", target |-> None, outcome |-> None,
     lastKnown |-> known, terminal |-> payload, ev |-> ev]
Cleaning(target, outcome, known, payload, ev) ==
    [kind |-> "cleaning", target |-> target, outcome |-> outcome,
     lastKnown |-> known, terminal |-> payload, ev |-> ev]

-----------------------------------------------------------------------------
(* Helpers of the reducer *)

\* The outcome a state already carries, if any (terminalPayload).
TerminalPayload(s) ==
    IF s.kind = "terminal" \/ (s.kind = "cleaning" /\ s.target = "terminal")
    THEN s.outcome
    ELSE s.terminal

\* The state a session was last known in (lastKnown).
LastKnown(s) ==
    IF s.kind # "cleaning" THEN s.kind
    ELSE IF s.target # "unreachable" THEN s.target
    ELSE IF s.lastKnown = None THEN "unreachable"
    ELSE s.lastKnown

\* The record-level form of the proof (terminalDirectChild of the registry).
DirectChildGone(ev) == ev.confirmed /\ ev.directExited /\ ev.drained

\* What a terminal claim rests on (terminalProven).
TerminalProven(outcome, ev) ==
    \/ outcome = "spawn_failed" /\ ev.noChild
    \/ DirectChildGone(ev)

\* A terminal claim with proof is terminal, one without is unreachable and
\* keeps the claim as its payload (terminalOrUnreachable).
TerminalOrUnreachable(ev, outcome, cleaning) ==
    IF TerminalProven(outcome, ev)
    THEN IF cleaning THEN Cleaning("terminal", outcome, None, None, ev)
                     ELSE Terminal(outcome, ev)
    ELSE IF cleaning THEN Cleaning("unreachable", None, "terminal", outcome, ev)
                     ELSE Unreachable("terminal", outcome, ev)

\* A variant that forgets the terminal payload.
ToUnreachableDropsPayload(s) ==
    IF s.kind = "cleaning" THEN Cleaning("unreachable", None, LastKnown(s), None, s.ev)
                           ELSE Unreachable(LastKnown(s), None, s.ev)

\* The `unreachable` event, accepted in every state (unreachable()).
ToUnreachable(s) ==
    LET payload == TerminalPayload(s)
        known   == IF payload # None THEN "terminal" ELSE LastKnown(s)
    IN  IF s.kind = "cleaning" THEN Cleaning("unreachable", None, known, payload, s.ev)
                               ELSE Unreachable(known, payload, s.ev)

\* Marking a state for cleanup (cleaning()).
ToCleaning(s) ==
    CASE s.kind = "cleaning"    -> s
      [] s.kind = "terminal"    -> Cleaning("terminal", s.outcome, None, None, s.ev)
      [] s.kind = "unreachable" -> Cleaning("unreachable", None, s.lastKnown, s.terminal, s.ev)
      [] OTHER                  -> Cleaning(s.kind, None, None, None, s.ev)

TerminalEvents == {"child_exited", "timed_out", "output_limited", "spawn_failed"}
OutcomeOf(event) == IF event = "child_exited" THEN "exited" ELSE event

-----------------------------------------------------------------------------
(* The reducer: which events a state accepts, and the state they lead to *)

\* A variant that lets a cleaning or terminal state come back to life.
AcceptsAnyReady(s, event) ==
    \/ event \in {"unreachable", "worker_ready", "stop_requested"}
    \/ event \in TerminalEvents /\ s.kind # "unreachable"
    \/ event = "recovered" /\ s.kind = "unreachable"

Accepts(s, event) ==
    \/ event = "unreachable"
    \/ /\ s.kind = "unreachable"
       /\ event = "recovered"
       /\ s.lastKnown \notin {"terminal", "unreachable"}
    \/ /\ s.kind = "cleaning"
       /\ \/ event \in TerminalEvents /\ s.target \in ActiveKinds
          \/ event = "stop_requested" /\ s.target \in {"running", "stopping"}
    \/ s.kind = "creating" /\ event \in {"worker_ready", "spawn_failed"}
    \/ s.kind = "running" /\ event = "worker_ready"
    \/ /\ s.kind \in {"running", "stopping"}
       /\ event \in TerminalEvents \cup {"stop_requested"}
    \/ s.kind = "terminal" /\ event \in TerminalEvents /\ OutcomeOf(event) = s.outcome

\* The state after an accepted event (reduceSessionState).
Reduce(s, event) ==
    CASE event = "unreachable" -> ToUnreachable(s)
      [] event = "recovered"   -> Plain("running", s.ev)
      [] event \in TerminalEvents /\ s.kind # "terminal" ->
             TerminalOrUnreachable(s.ev, OutcomeOf(event), s.kind = "cleaning")
      [] event = "worker_ready" -> Plain("running", s.ev)
      [] event = "stop_requested" ->
             IF s.kind = "cleaning" THEN Cleaning("stopping", None, None, None, s.ev)
                                    ELSE Plain("stopping", s.ev)
      [] OTHER -> s

-----------------------------------------------------------------------------
(* The flat record: state, evidence fields, the pendingCleanup flag *)

FlatRecords == [state : States, ev : Evidence, pendingCleanup : BOOLEAN]

\* The flat status shown to clients (projectSessionState).
Status(s) ==
    LET shown == IF s.kind = "cleaning" THEN s.target ELSE s.kind
    IN  CASE shown = "creating"    -> "starting"
          [] shown = "terminal"    -> s.outcome
          [] shown = "unreachable" -> "lost"
          [] OTHER                 -> shown

ActiveStatuses == {"starting", "running", "stopping"}

\* Folds the flat evidence into the state; a terminal state whose proof is
\* gone is demoted, a pending cleanup becomes `cleaning` (refreshSessionState).
Refresh(s, ev, pendingCleanup) ==
    LET fresh == [s EXCEPT !.ev = ev]
    IN  CASE s.kind = "terminal" -> TerminalOrUnreachable(ev, s.outcome, pendingCleanup)
          [] s.kind = "cleaning" /\ s.target = "terminal" ->
                 TerminalOrUnreachable(ev, s.outcome, TRUE)
          [] pendingCleanup /\ s.kind \notin {"cleaning", "terminal"} -> ToCleaning(fresh)
          [] OTHER -> fresh

\* The flat record that a state projects to.
Project(s) == [state |-> s, ev |-> s.ev, pendingCleanup |-> s.kind = "cleaning"]

\* One lifecycle event with the observations that come with it
\* (SessionSupervisor.transition): refused, the record keeps everything,
\* the observations included, as it was.
Accepted(rec, event, obs) == Accepts(Refresh(rec.state, obs, rec.pendingCleanup), event)

Transition(rec, event, obs) ==
    IF Accepted(rec, event, obs)
    THEN Project(Reduce(Refresh(rec.state, obs, rec.pendingCleanup), event))
    ELSE rec

\* A fresh session (the record literal of spawn and nativeExecStart).
NewRecord == Project(Plain("creating", NoEvidence))

-----------------------------------------------------------------------------
(* The codec: what writeSession validates and stores, what a load returns *)

\* A terminal claim the validator accepts (validV2TerminalProof, and the
\* confirmation that validV2State asks for beside it).
ValidTerminalProof(outcome, ev) ==
    /\ ev.confirmed
    /\ \/ outcome = "spawn_failed" /\ ev.noChild
       \/ ev.directExited /\ ev.drained

\* The lifecycle rules of validV2State, and those validSession puts on a
\* legacy tombstone.
ValidState(s) ==
    /\ s.kind = "terminal" \/ (s.kind = "cleaning" /\ s.target = "terminal")
          => s.outcome # None /\ ValidTerminalProof(s.outcome, s.ev)
    /\ s.kind = "terminal" => /\ s.target = None /\ s.lastKnown = None
                              /\ s.terminal = None
    /\ s.kind = "unreachable" =>
          /\ s.target = None /\ s.outcome = None /\ s.lastKnown # None
          /\ (s.lastKnown = "terminal") <=> (s.terminal # None)
    /\ s.kind = "cleaning" =>
          /\ s.target # None
          /\ (s.target = "terminal") <=> (s.outcome # None)
          /\ (s.target = "unreachable") <=> (s.lastKnown # None)
          /\ (s.terminal # None) <=> (s.target = "unreachable" /\ s.lastKnown = "terminal")
          /\ s.ev.tomb # None => s.target = "unreachable" /\ s.ev.tomb = s.lastKnown
    /\ s.kind \in ActiveKinds =>
          /\ s.target = None /\ s.outcome = None /\ s.lastKnown = None
          /\ s.terminal = None /\ s.ev.tomb = None
    /\ s.ev.tomb # None => /\ Status(s) = "lost" /\ s.kind = "cleaning"
                           /\ ~s.ev.confirmed /\ ~s.ev.directExited

\* What writeSession makes of the record before it validates and stores it.
Written(rec) == Project(Refresh(rec.state, rec.ev, rec.pendingCleanup))

\* A load projects the stored state (fromV2Session).
Loaded(s) == Project(s)

\* A proven terminal V0/V1 record imports as terminal, every other one as a
\* cleanup-only tombstone of its last known state (decodeLegacySession,
\* sessionStateFromCompatibility).
Imported(status, ev, pendingCleanup) ==
    LET known == CASE status = "starting" -> "creating"
                   [] status = "lost"     -> "unreachable"
                   [] status \in Outcomes -> "terminal"
                   [] OTHER               -> status
        buried == [ev EXCEPT !.confirmed = FALSE, !.directExited = FALSE, !.tomb = known]
    IN  CASE status \in Outcomes /\ DirectChildGone(ev) ->
                 Project(TerminalOrUnreachable(ev, status, pendingCleanup))
          [] status \in Outcomes /\ ~DirectChildGone(ev) ->
                 Project(TerminalOrUnreachable(buried, status, TRUE))
          [] OTHER -> Project(Cleaning("unreachable", None, known, None, buried))
=============================================================================
