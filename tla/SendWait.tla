------------------------------ MODULE SendWait ------------------------------
(***************************************************************************)
(* Send input to a terminal and wait for the reply: sendWait, wait and the  *)
(* resolution of pending waits (src/src/daemon/supervisor.ts) over the      *)
(* output journal and the worker's write operation (worker/src/main.rs,     *)
(* handle, unix terminals).  One wait for output is followed; it looks for  *)
(* a literal that any byte may complete, so a look that sees any byte after *)
(* its cursor is satisfied.  A crash of the daemon would end the call.       *)
(***************************************************************************)
EXTENDS OutputJournal

VARIABLES
    rpc,                \* the worker's write operation; not "none": it has the arrival lock
    asked, accepted,    \* not in the code: bytes the child had written when the operation
                        \* began, and when the terminal took the input
    wait,               \* the call of sendWait
    wake, waking        \* resolveOutputWaits and resolveExitWaits: due, and running

waiting == <<rpc, asked, accepted, wait, wake, waking>>
allVars == <<vars, waiting>>

\* look, relook: waitMatch is about to list the journal; looking, relooking: it reads.
Registered == wait.pc \in {"relook", "relooking", "pending"}
Over == {"answered", "refused", "unanswered"}
PCs == {"none", "sending", "look", "looking", "relook", "relooking", "pending", "finishing"} \cup Over
NoWait == [pc |-> "none", after |-> 0, result |-> "none"]

WaitTypeOK ==
    /\ TypeOK
    /\ rpc \in {"none", "drain", "write"}
    /\ asked \in Positions /\ accepted \in Positions
    /\ wait \in [pc : PCs, after : Positions,
                 result : {"none", "output", "exit", "deadline"}]
    /\ wake \in {"none", "output", "exit"} /\ waking \in {"none", "output", "exit"}

WaitInit ==
    /\ Init /\ mode = "pty"
    /\ rpc = "none" /\ asked = 0 /\ accepted = 0
    /\ wait = NoWait /\ wake = "none" /\ waking = "none"

-----------------------------------------------------------------------------
(* Sending: the lane of the session, and the worker's write operation *)

Refused == wait' = [wait EXCEPT !.pc = "refused"]

\* The input is queued in the lane; a session that has ended is closed.
Send ==
    /\ Known /\ wait.pc = "none" /\ lane = "idle"
    /\ IF rec.status = "running"
       THEN wait' = [wait EXCEPT !.pc = "sending"] /\ lane' = "input"
       ELSE Refused /\ UNCHANGED lane
    /\ UNCHANGED <<child, reader, journal, place, daemon, rec, saved, answers, reads,
                   crashes, faults, rpc, asked, accepted, wake, waking>>

\* The worker refuses input after a storage failure; else it takes the arrival
\* lock, which the terminal reader holds while it reads and appends.
WorkerBegins ==
    /\ wait.pc = "sending" /\ rpc = "none" /\ step = "idle"
    /\ IF failed
       THEN Refused /\ lane' = "idle" /\ UNCHANGED <<rpc, asked>>
       ELSE rpc' = "drain" /\ asked' = Arrived /\ UNCHANGED <<wait, lane>>
    /\ UNCHANGED <<child, reader, journal, place, daemon, rec, saved, answers, reads,
                   crashes, faults, accepted, wake, waking>>

\* drain_terminal
Drain ==
    /\ rpc = "drain"
    /\ \E n \in 1..unread : Take(n)
    /\ UNCHANGED <<record, reads, waiting>>

\* Mutant of FlushTail: what the redactor keeps back stays there.
FlushNothing ==
    /\ rpc = "drain" /\ step = "idle" /\ unread = 0
    /\ rpc' = "write"
    /\ UNCHANGED <<vars, asked, accepted, wait, wake, waking>>

\* flush_terminal_redaction_tail
FlushTail ==
    /\ rpc = "drain" /\ step = "idle" /\ unread = 0
    /\ AppendOutput(held)
    /\ held' = 0 /\ rpc' = "write"
    /\ UNCHANGED <<child, eof, place, daemon, record, reads, crashes,
                   asked, accepted, wait, wake, waking>>

\* The terminal takes the input and the cursor is read, or the write fails
\* because the child is gone.
WriteInput ==
    /\ rpc = "write" /\ step = "idle"
    /\ rpc' = "none" /\ accepted' = Arrived /\ lane' = "idle"
    /\ \/ wait' = [wait EXCEPT !.pc = "look", !.after = next]
       \/ exited /\ Refused
    /\ UNCHANGED <<child, reader, journal, place, daemon, rec, saved, answers, reads,
                   crashes, faults, asked, wake, waking>>

-----------------------------------------------------------------------------
(* Waiting *)

\* Where waitMatch begins to look in what read r returned: it counts from the
\* first retained byte of the record as it is now.
LookFrom(r) ==
    Lowest(reads[r].got) + (IF wait.after > rec.first THEN wait.after - rec.first ELSE 0)

Matches(r) == reads[r].got # {} /\ LookFrom(r) < Highest(reads[r].got)

\* The wait is settled once; what its other looks return is dropped.
Settle(result) ==
    /\ wait' = [wait EXCEPT !.pc = "finishing", !.result = result]
    /\ reads' = [reads EXCEPT !["call"] = NoRead, !["wake"] = NoRead]
    /\ wake' = "none" /\ waking' = "none"

outside == <<child, reader, journal, place, daemon, record, crashes, faults, rpc, asked, accepted>>

\* wait() refuses a lost session and looks.
Look ==
    /\ wait.pc = "look" /\ rec.status # "lost"
    /\ StartRead("call")
    /\ wait' = [wait EXCEPT !.pc = "looking"]
    /\ UNCHANGED <<rpc, asked, accepted, wake, waking>>

\* Mutant of LookRefused: the failure of the read is swallowed.
LookRefusedIfLost ==
    /\ wait.pc = "look" /\ rec.status = "lost"
    /\ Refused
    /\ UNCHANGED <<outside, reads, wake, waking>>

\* The session is lost, or the read failed and sendWait fails with it.
LookRefused ==
    /\ \/ wait.pc = "look" /\ rec.status = "lost"
       \/ wait.pc = "looking" /\ reads["call"].phase = "broken"
    /\ Refused
    /\ reads' = [reads EXCEPT !["call"] = NoRead]
    /\ UNCHANGED <<outside, wake, waking>>

\* Satisfied, or the session is over, or the wait is registered with its timer.
Looked ==
    /\ wait.pc = "looking" /\ HasRead("call")
    /\ IF Matches("call") THEN Settle("output")
       ELSE IF rec.status # "running" THEN Settle("exit")
       ELSE /\ wait' = [wait EXCEPT !.pc = "relook"]
            /\ reads' = [reads EXCEPT !["call"] = NoRead]
            /\ UNCHANGED <<wake, waking>>
    /\ UNCHANGED outside

\* A registered wait looks once more; a read that fails is dropped.
Relook ==
    /\ wait.pc = "relook"
    /\ StartRead("call")
    /\ wait' = [wait EXCEPT !.pc = "relooking"]
    /\ UNCHANGED <<rpc, asked, accepted, wake, waking>>

Relooked ==
    /\ wait.pc = "relooking" /\ Ended("call")
    /\ IF HasRead("call") /\ Matches("call") THEN Settle("output")
       ELSE /\ wait' = [wait EXCEPT !.pc = "pending"]
            /\ reads' = [reads EXCEPT !["call"] = NoRead]
            /\ UNCHANGED <<wake, waking>>
    /\ UNCHANGED outside

\* resolveOutputWaits and resolveExitWaits run after each saved snapshot.
SaveAndWake ==
    /\ SaveRecord
    /\ wake' = IF ~Registered THEN wake ELSE IF rec.status = "running" THEN "output" ELSE "exit"
    /\ UNCHANGED <<rpc, asked, accepted, wait, waking>>

WakeLook ==
    /\ wake # "none"
    /\ StartRead("wake")
    /\ wake' = "none" /\ waking' = wake
    /\ UNCHANGED <<rpc, asked, accepted, wait>>

WakeLooked ==
    /\ Ended("wake")
    /\ IF HasRead("wake") /\ Matches("wake") THEN Settle("output")
       ELSE IF HasRead("wake") /\ waking = "exit" THEN Settle("exit")
       ELSE /\ reads' = [reads EXCEPT !["wake"] = NoRead]
            /\ waking' = "none"
            /\ UNCHANGED <<wait, wake>>
    /\ UNCHANGED outside

\* The timer of the wait.
Deadline == Registered /\ Settle("deadline") /\ UNCHANGED outside

\* finishWait saves the record with the result and answers.  When the write fails
\* a call that had not registered fails; a registered one is never answered.
FinishWait ==
    /\ wait.pc = "finishing"
    /\ \/ /\ wait' = [wait EXCEPT !.pc = "answered"]
          /\ saved' = rec /\ UNCHANGED faults
       \/ /\ faults < MaxFaults /\ faults' = faults + 1
          /\ wait' = [wait EXCEPT !.pc = "unanswered"] /\ UNCHANGED saved
    /\ UNCHANGED <<child, reader, journal, place, daemon, rec, lane, answers, reads, crashes,
                   rpc, asked, accepted, wake, waking>>

-----------------------------------------------------------------------------
JournalStep ==
    /\ \/ ChildWrites \/ ChildExits
       \/ rpc = "none" /\ (ReaderReads \/ ReaderEnds)
       \/ TrimSucceeds \/ TrimFails
       \/ \E p \in Pollers : TakeSnapshot(p) \/ ApplySnapshot(p)
       \/ ReadStep
    /\ UNCHANGED waiting

WaitStep == Look \/ LookRefused \/ Looked \/ Relook \/ Relooked \/ WakeLook \/ WakeLooked \/ FinishWait
InputStep == WorkerBegins \/ Drain \/ FlushTail \/ WriteInput

\* Once the call is over, what follows is OutputJournal's.
WaitNext ==
    /\ wait.pc \notin Over
    /\ \/ JournalStep \/ SaveAndWake
       \/ Send \/ InputStep \/ WaitStep \/ Deadline

\* Threads and callbacks that can run do; the timer fires; removals and reads
\* come to an end; a child whose output cannot be stored is terminated.
\* Nothing else is asked of the child, and nothing of snapshots.
Fairness ==
    /\ WF_allVars(InputStep)
    /\ WF_allVars(failed /\ ChildExits /\ UNCHANGED waiting)
    /\ WF_allVars((TrimSucceeds \/ TrimFails) /\ UNCHANGED waiting)
    /\ WF_allVars(ReadStep /\ UNCHANGED waiting)
    /\ WF_allVars(Look \/ LookRefused \/ Looked) /\ WF_allVars(FinishWait)
    /\ WF_allVars(Deadline)

WaitSpec == WaitInit /\ [][WaitNext]_allVars /\ Fairness

-----------------------------------------------------------------------------
(* Properties *)

\* README.md: pty_send_wait "captures its output boundary immediately after PTY
\* input is accepted".  As long as the journal can be written, nothing that the
\* child had written when the operation began comes after the cursor, held back
\* by the redactor or not, and no reply comes before it.
BoundaryIsSound ==
    (Registered \/ wait.pc \in {"look", "looking"}) /\ ~failed =>
        asked <= wait.after /\ wait.after <= accepted

\* Every call comes to an end, with an answer or an error, unless its result
\* cannot be saved.
WaitAnswered == wait.pc = "sending" ~> wait.pc \in Over
=============================================================================
