--------------------------- MODULE OutputJournal ----------------------------
(***************************************************************************)
(* The output of one session: the worker appends what its child writes to   *)
(* chunk files and retires the oldest ones (worker/src/main.rs,             *)
(* append_output and the readers); the daemon, another process, lists and   *)
(* reads the files one by one (src/src/daemon/storage.ts, readOutputChunks),*)
(* keeps the cursors of the worker's last snapshot in the record, and       *)
(* checks the files against the saved cursors when it loads the session     *)
(* (migrateSession).                                                        *)
(*                                                                          *)
(* A byte of output is its sequence number in the redacted stream, a chunk  *)
(* the interval start..end-1, and a chunk file the chunk it holds.  What    *)
(* the redactor and the UTF-8 decoder keep back is a count of bytes.  The   *)
(* two pipes of an exec session end in the same journal under the same lock *)
(* and are one stream here.                                                 *)
(***************************************************************************)
EXTENDS Integers, Sequences

CONSTANTS
    SegmentBytes,       \* 64 KiB: chunks are coalesced up to it
    MaxOutputBytes,     \* max_output_bytes
    Hold,               \* the most that the redactor keeps back
    LastByte,           \* bound on the bytes the child writes
    MaxCrashes,         \* bound on daemon crashes
    MaxFaults,          \* bound on failing writes and removals
    Pollers             \* who asks for snapshots: the monitor, get() and execOutput()
ASSUME JournalAssumption ==
    /\ SegmentBytes \in Nat \ {0} /\ MaxOutputBytes \in Nat \ {0}
    /\ Hold \in Nat /\ LastByte \in Nat
    /\ MaxCrashes \in Nat /\ MaxFaults \in Nat

VARIABLES
    mode,               \* pty: oldest chunks are retired; exec: the output is cut off
    unread, exited,     \* the child: bytes in the terminal or pipe, and whether it is gone
    held, eof,          \* the reader: bytes kept back, and whether it has finished
    chunks, next, first, retained, truncated, failed,   \* the worker's State
    step,               \* "trim": append_output is retiring chunks, with the lock held
    files, place,       \* the output directory, and where the session directory is
    daemon,             \* up, down, or where it stands in migrateSession
    rec, saved,         \* the cursors in the record, and in session.json
    lane,               \* the mutation lane of the session
    answers,            \* snapshots that have left the worker
    reads,              \* reads of the journal in progress
    crashes, faults

child == <<mode, unread, exited>>
reader == <<held, eof>>
journal == <<chunks, next, first, retained, truncated, failed, step, files>>
record == <<rec, saved, lane, answers>>
vars == <<child, reader, journal, place, daemon, record, reads, crashes, faults>>

Positions == 0..LastByte
Chunks == [start : Positions, end : Positions]
Cursors == [next : Positions, first : Positions, truncated : BOOLEAN,
            status : {"running", "exited", "lost"}]
NoAnswer == [none |-> TRUE]

Readers == {"load", "call", "wake"}   \* migrateSession, a request, resolveOutputWaits
NoRead == [phase |-> "idle", listed |-> {}, got |-> {}, since |-> 0]
Loading == {"load", "discard", "reload"}

TypeOK ==
    /\ mode \in {"pty", "exec"}
    /\ unread \in Positions /\ exited \in BOOLEAN
    /\ held \in Positions /\ eof \in BOOLEAN
    /\ chunks \in Seq(Chunks)
    /\ next \in Positions /\ first \in Positions /\ retained \in Positions
    /\ truncated \in BOOLEAN /\ failed \in BOOLEAN
    /\ step \in {"idle", "trim"}
    /\ files \subseteq Chunks /\ place \in {"sessions", "quarantine"}
    /\ daemon \in {"up", "down"} \cup Loading
    /\ rec \in Cursors /\ saved \in Cursors
    /\ lane \in {"idle", "saving", "input"}
    /\ answers \in [Pollers -> Cursors \cup {NoAnswer}]
    /\ reads \in [Readers -> [phase : {"idle", "reading", "broken"}, listed : SUBSET Positions,
                              got : SUBSET Chunks, since : Positions]]
    /\ crashes \in 0..MaxCrashes /\ faults \in 0..MaxFaults

NewCursors == [next |-> 0, first |-> 0, truncated |-> FALSE, status |-> "running"]

\* The child has just been started and the daemon monitors its worker.
Init ==
    /\ mode \in {"pty", "exec"}
    /\ unread = 0 /\ exited = FALSE /\ held = 0 /\ eof = FALSE
    /\ chunks = <<>> /\ next = 0 /\ first = 0 /\ retained = 0
    /\ truncated = FALSE /\ failed = FALSE /\ step = "idle"
    /\ files = {} /\ place = "sessions"
    /\ daemon = "up" /\ rec = NewCursors /\ saved = NewCursors
    /\ lane = "idle"
    /\ answers = [p \in Pollers |-> NoAnswer]
    /\ reads = [r \in Readers |-> NoRead]
    /\ crashes = 0 /\ faults = 0

-----------------------------------------------------------------------------
(* The worker: append_output *)

Size(c) == c.end - c.start
FirstOf(cs, n) == IF cs = <<>> THEN n ELSE Head(cs).start

\* The previous chunk takes the new bytes too.
Coalesces(kept) ==
    /\ chunks # <<>>
    /\ chunks[Len(chunks)].end = next
    /\ Size(chunks[Len(chunks)]) + kept <= SegmentBytes

Written(kept) ==
    [start |-> IF Coalesces(kept) THEN chunks[Len(chunks)].start ELSE next, end |-> next + kept]

\* The previous chunk is extended in place, before the file is written.
Extended(kept) ==
    IF Coalesces(kept) THEN [chunks EXCEPT ![Len(chunks)] = Written(kept)] ELSE chunks

FileReplaced(c) == {f \in files : f.start # c.start} \cup {c}

\* What of m bytes is stored: a pty stores all of them, an exec session what
\* fits, cut at a character boundary.
Kept(m) ==
    LET room == MaxOutputBytes - retained
    IN  IF mode = "pty" \/ m <= room THEN {m} ELSE {k \in 0..room : k + 3 >= room}

StoreSucceeds(kept) ==
    /\ place = "sessions"
    /\ files' = FileReplaced(Written(kept))
    /\ chunks' = IF Coalesces(kept) THEN Extended(kept) ELSE Append(chunks, Written(kept))
    /\ next' = next + kept
    /\ retained' = retained + kept
    /\ IF mode = "pty" /\ retained + kept > MaxOutputBytes
       THEN step' = "trim" /\ UNCHANGED first
       ELSE step' = "idle" /\ first' = FirstOf(chunks', next')
    /\ UNCHANGED <<failed, faults>>

\* A file system error, or the directory is not there any more.  The new file
\* may be in place already: its permissions are set after the rename.
Faulty == \/ place = "sessions" /\ faults < MaxFaults /\ faults' = faults + 1
          \/ place = "quarantine" /\ UNCHANGED faults

StoreFails(kept) ==
    /\ Faulty
    /\ \/ UNCHANGED files
       \/ place = "sessions" /\ files' = FileReplaced(Written(kept))
    /\ chunks' = Extended(kept)
    /\ failed' = TRUE
    /\ UNCHANGED <<next, first, retained, step>>

\* append_output up to the retirement of old chunks.
AppendOutput(m) ==
    IF m = 0 \/ failed THEN UNCHANGED <<journal, faults>>
    ELSE \E kept \in Kept(m) :
            /\ truncated' = (truncated \/ kept < m)
            /\ IF kept = 0
               THEN UNCHANGED <<chunks, next, first, retained, failed, step, files, faults>>
               ELSE StoreSucceeds(kept) \/ StoreFails(kept)

\* Mutants of TrimSucceeds: the bytes are not taken off the count; the newest
\* chunk is removed.
TrimKeepsCount ==
    /\ step = "trim" /\ place = "sessions"
    /\ files' = files \ {Head(chunks)}
    /\ chunks' = Tail(chunks)
    /\ truncated' = TRUE
    /\ step' = "idle" /\ first' = FirstOf(chunks', next)
    /\ UNCHANGED <<retained, next, failed, child, reader, place, daemon, record, reads, crashes, faults>>
TrimNewest ==
    /\ step = "trim" /\ place = "sessions"
    /\ LET last == chunks[Len(chunks)]
       IN  /\ files' = files \ {last}
           /\ retained' = retained - Size(last)
    /\ chunks' = SubSeq(chunks, 1, Len(chunks) - 1)
    /\ truncated' = TRUE
    /\ step' = "idle" /\ first' = FirstOf(chunks', next)
    /\ UNCHANGED <<next, failed, child, reader, place, daemon, record, reads, crashes, faults>>

\* One turn of the loop that removes the oldest chunk.
TrimSucceeds ==
    /\ step = "trim" /\ place = "sessions"
    /\ files' = files \ {Head(chunks)}
    /\ chunks' = Tail(chunks)
    /\ retained' = retained - Size(Head(chunks))
    /\ truncated' = TRUE
    /\ IF retained' > MaxOutputBytes
       THEN UNCHANGED <<step, first>>
       ELSE step' = "idle" /\ first' = FirstOf(chunks', next)
    /\ UNCHANGED <<next, failed, child, reader, place, daemon, record, reads, crashes, faults>>

\* The chunk is forgotten although its file and its bytes are still there.
TrimFails ==
    /\ step = "trim" /\ Faulty
    /\ chunks' = Tail(chunks)
    /\ first' = FirstOf(Tail(chunks), next)
    /\ failed' = TRUE /\ step' = "idle"
    /\ UNCHANGED <<next, retained, truncated, files, child, reader, place, daemon, record, reads, crashes>>

-----------------------------------------------------------------------------
(* The child and the worker's readers *)

Arrived == next + held + unread

ChildWrites ==
    /\ ~exited /\ Arrived < LastByte
    /\ unread' = unread + 1
    /\ UNCHANGED <<mode, exited, reader, journal, place, daemon, record, reads, crashes, faults>>

\* Of its own accord, or terminated after output_limit or storage_failure.
ChildExits ==
    /\ ~exited /\ exited' = TRUE
    /\ UNCHANGED <<mode, unread, reader, journal, place, daemon, record, reads, crashes, faults>>

\* What redact_stream may keep back of what it has after n more bytes: the start
\* of a secret may be at the end.
HeldBack(n) == {k \in 0..Hold : k <= held + n}

\* n bytes are read, decoded and redacted, and what is not kept back is stored.
Take(n) ==
    /\ step = "idle" /\ ~eof
    /\ unread' = unread - n
    /\ \E k \in HeldBack(n) : held' = k /\ AppendOutput(held + n - k)
    /\ UNCHANGED <<mode, exited, eof, place, daemon, crashes>>

ReaderReads ==
    /\ \E n \in 1..unread : Take(n)
    /\ UNCHANGED <<record, reads>>

\* End of file: what was kept back is stored, then the end is noted.
ReaderEnds ==
    /\ step = "idle" /\ ~eof /\ exited /\ unread = 0
    /\ AppendOutput(held)
    /\ held' = 0 /\ eof' = TRUE
    /\ UNCHANGED <<child, place, daemon, record, reads, crashes>>

-----------------------------------------------------------------------------
(* The daemon follows the worker *)

Known == daemon = "up" /\ place = "sessions"

\* snapshot() needs the lock that append_output holds.
Snapshot ==
    [next |-> next, first |-> first, truncated |-> truncated,
     status |-> IF ~(exited /\ eof) THEN "running" ELSE IF failed THEN "lost" ELSE "exited"]

TakeSnapshot(p) ==
    /\ Known /\ rec.status = "running" /\ step = "idle" /\ answers[p] = NoAnswer
    /\ answers' = [answers EXCEPT ![p] = Snapshot]
    /\ UNCHANGED <<child, reader, journal, place, daemon, rec, saved, lane, reads, crashes, faults>>

\* finishNativeVersion, up to writeSession.  Answers may arrive in any order; a
\* record that has ended takes none.
ApplySnapshot(p) ==
    /\ answers[p] # NoAnswer /\ lane = "idle"
    /\ answers' = [answers EXCEPT ![p] = NoAnswer]
    /\ IF rec.status = "running" THEN rec' = answers[p] /\ lane' = "saving" ELSE UNCHANGED <<rec, lane>>
    /\ UNCHANGED <<child, reader, journal, place, daemon, saved, reads, crashes, faults>>

SaveRecord ==
    /\ lane = "saving"
    /\ saved' = rec /\ lane' = "idle"
    /\ UNCHANGED <<child, reader, journal, place, daemon, rec, answers, reads, crashes, faults>>

-----------------------------------------------------------------------------
(* readOutputChunks *)

\* readdir; since is not in the code: how far the journal reached then.
Listing == [phase |-> "reading", listed |-> {f.start : f \in files}, got |-> {}, since |-> next]

\* One of the listed files is read.  The worker may have extended it since, or
\* removed it: then the whole read fails with InvalidJournalError.
ReadFile(r, s) ==
    /\ reads[r].phase = "reading"
    /\ s \in reads[r].listed
    /\ LET there == {f \in files : f.start = s}
       IN  reads' = [reads EXCEPT ![r].listed = @ \ {s},
                                  ![r].got = @ \cup there,
                                  ![r].phase = IF there = {} THEN "broken" ELSE "reading"]
    /\ UNCHANGED <<child, reader, journal, place, daemon, record, crashes, faults>>

HasRead(r) == reads[r].phase = "reading" /\ reads[r].listed = {}
Ended(r) == HasRead(r) \/ reads[r].phase = "broken"

\* The bytes that a finished read returns.
Lowest(cs) == CHOOSE s \in {c.start : c \in cs} : \A c \in cs : s <= c.start
Highest(cs) == CHOOSE e \in {c.end : c \in cs} : \A c \in cs : c.end <= e
Continuous(cs) == \A c \in cs : c.end = Highest(cs) \/ \E d \in cs : d.start = c.end

\* read, search and raw of the JournalReader.
StartRead(r) ==
    /\ Known /\ reads[r] = NoRead
    /\ reads' = [reads EXCEPT ![r] = Listing]
    /\ UNCHANGED <<child, reader, journal, place, daemon, record, crashes, faults>>

AnswerRead(r) ==
    /\ daemon = "up" /\ Ended(r)
    /\ reads' = [reads EXCEPT ![r] = NoRead]
    /\ UNCHANGED <<child, reader, journal, place, daemon, record, crashes, faults>>

-----------------------------------------------------------------------------
(* The daemon crashes and loads the session again *)

Crash ==
    /\ daemon # "down" /\ crashes < MaxCrashes
    /\ crashes' = crashes + 1
    /\ daemon' = "down" /\ lane' = "idle"
    /\ answers' = [p \in Pollers |-> NoAnswer]
    /\ reads' = [r \in Readers |-> NoRead]
    /\ rec' = saved
    /\ UNCHANGED <<child, reader, journal, place, saved, faults>>

\* migrateSession begins, or reads the chunks once more.
ReadChunksAt(phase) ==
    /\ daemon' = phase
    /\ reads' = [reads EXCEPT !["load"] = Listing]

Restart ==
    /\ daemon = "down" /\ place = "sessions"
    /\ ReadChunksAt("load")
    /\ UNCHANGED <<child, reader, journal, place, record, crashes, faults>>

Loaded == reads["load"].got

\* 'chunk sequence is discontinuous', 'chunk cursor does not match session cursor'
CursorMatches ==
    /\ Continuous(Loaded)
    /\ mode = "pty" /\ Loaded # {} => Highest(Loaded) = saved.next

\* Mutant of Reconciled: the last chunk is taken for the first.
ReconciledLast ==
    IF mode = "exec" \/ Loaded = {} THEN saved
    ELSE [saved EXCEPT !.first = (CHOOSE c \in Loaded : c.end = Highest(Loaded)).start]

\* reconcileSession
Reconciled ==
    IF mode = "exec" THEN saved
    ELSE LET from == IF Loaded = {} THEN saved.next ELSE Lowest(Loaded)
             to == IF Loaded = {} THEN from ELSE Highest(Loaded)
         IN  [saved EXCEPT !.first = from, !.truncated = from > 0,
                           !.next = IF to > saved.next THEN to ELSE saved.next]

FinishLoad ==
    /\ rec' = Reconciled /\ saved' = Reconciled
    /\ daemon' = "up"
    /\ reads' = [reads EXCEPT !["load"] = NoRead]

\* The chunks are right: those the saved record has retired are discarded, if
\* it says that there were any.
AcceptChunks ==
    /\ daemon = "load" /\ HasRead("load") /\ CursorMatches
    /\ IF saved.truncated THEN ReadChunksAt("discard") /\ UNCHANGED <<rec, saved>>
                          ELSE FinishLoad
    /\ UNCHANGED <<child, reader, journal, place, lane, answers, crashes, faults>>

\* discardOutputBefore
Discard ==
    /\ daemon = "discard" /\ HasRead("load")
    /\ files' = files \ {c \in Loaded : c.end <= saved.first}
    /\ daemon' = "reload"
    /\ reads' = [reads EXCEPT !["load"].phase = "idle"]
    /\ UNCHANGED <<chunks, next, first, retained, truncated, failed, step,
                   child, reader, place, record, crashes, faults>>

ReadRetained ==
    /\ daemon = "reload" /\ reads["load"].phase = "idle"
    /\ ReadChunksAt("reload")
    /\ UNCHANGED <<child, reader, journal, place, record, crashes, faults>>

AcceptRetained ==
    /\ daemon = "reload" /\ HasRead("load") /\ CursorMatches
    /\ FinishLoad
    /\ UNCHANGED <<child, reader, journal, place, lane, answers, crashes, faults>>

\* InvalidJournalError: readSession moves the session directory away.
Quarantine ==
    /\ \/ daemon \in Loading /\ reads["load"].phase = "broken"
       \/ daemon \in {"load", "reload"} /\ HasRead("load") /\ ~CursorMatches
    /\ place' = "quarantine" /\ daemon' = "up"
    /\ reads' = [reads EXCEPT !["load"] = NoRead]
    /\ UNCHANGED <<child, reader, journal, record, crashes, faults>>

-----------------------------------------------------------------------------
WorkerStep == ReaderReads \/ ReaderEnds \/ TrimSucceeds \/ TrimFails
LoadStep == AcceptChunks \/ Discard \/ ReadRetained \/ AcceptRetained \/ Quarantine
RecordStep == SaveRecord \/ \E p \in Pollers : TakeSnapshot(p) \/ ApplySnapshot(p)
ReadStep == \E r \in Readers, s \in Positions : ReadFile(r, s)

Next ==
    \/ ChildWrites \/ ChildExits \/ WorkerStep
    \/ RecordStep \/ ReadStep
    \/ \E r \in {"call", "wake"} : StartRead(r) \/ AnswerRead(r)
    \/ Crash \/ Restart \/ LoadStep

Spec == Init /\ [][Next]_vars

-----------------------------------------------------------------------------
(* Properties *)

\* As long as no write has failed, the files are the chunks the worker knows of,
\* they follow each other without a gap up to the next sequence number, and the
\* bytes the worker counts are the bytes that they hold; once append_output
\* has let go of the lock they also fit the limit and begin where the worker
\* says they do.
JournalIsWhole ==
    ~failed =>
        /\ files = {chunks[i] : i \in 1..Len(chunks)}
        /\ \A i \in 1..Len(chunks) :
              /\ chunks[i].start < chunks[i].end
              /\ chunks[i].end = IF i = Len(chunks) THEN next ELSE chunks[i + 1].start
        /\ retained = next - FirstOf(chunks, next)
        /\ step = "idle" => retained <= MaxOutputBytes /\ first = FirstOf(chunks, next)

\* A read that got all the files it listed returns, without a gap, at least
\* every byte that was there when it began and is still retained, whatever the
\* worker wrote and removed meanwhile.
ReadIsWhole ==
    \A r \in Readers : HasRead(r) =>
        /\ Continuous(reads[r].got)
        /\ \A b \in FirstOf(chunks, next)..(reads[r].since - 1) :
              \E c \in reads[r].got : c.start <= b /\ b < c.end

\* The cursors of the daemon, in the record, on disk or on their way, never
\* promise output that the worker has not stored, and never deny a byte that
\* is still retained: discardOutputBefore removes by them.
CursorsNeverAhead ==
    \A c \in {rec, saved} \cup ({answers[p] : p \in Pollers} \ {NoAnswer}) :
        c.next <= next /\ c.first <= FirstOf(chunks, next)

\* README.md: a persistent session is eligible to reconnect "and recover its
\* output cursor and final state".  Only a session whose output storage has
\* failed is moved to quarantine by a daemon that starts.
SessionSurvivesRestart == place = "quarantine" => failed
=============================================================================
