--------------------------- MODULE WorkerProcess ----------------------------
(***************************************************************************)
(* A started Linux worker from the inside (worker/src/main.rs): the child   *)
(* and its descendants, the /proc scans that look for them, and the threads *)
(* that end them and report on them.  Besides the monitor these are the RPC *)
(* connections, the output reader when it gives up on the session, and main *)
(* once it has left its loop; each takes one of Slots.  A section under the *)
(* state lock is one step; the lock of the child handle is a variable,      *)
(* because `wait` keeps it while it blocks.                                 *)
(*                                                                          *)
(* A scan lists the pids and then reads each one listed; processes come and *)
(* go in between.  Of a process the scan needs its parent and whether it is *)
(* in the root's session: a process group lies within one session, so the   *)
(* group adds nothing to any verdict.  Start identities are the kind of a   *)
(* process: its own pids are handed out once, and only processes of others  *)
(* take a freed pid, though not between its listing and its reading.        *)
(***************************************************************************)
EXTENDS Naturals, FiniteSetsExt

CONSTANTS
    MaxPid,         \* pids 1..MaxPid, of which 1 is the direct child
    Slots,          \* the threads besides the monitor, one operation each
    Operations,     \* what they may be asked for
    MaxEvents,      \* how often in all the runtime limit passes, a reader fails,
                    \* or a process of others takes a freed pid
    ParentsLeave    \* a process may call setsid after it has forked

ASSUME WorkerAssumption ==
    /\ MaxPid \in Nat \ {0} /\ MaxEvents \in Nat
    /\ Operations \subseteq {"snapshot", "finalSnapshot", "stop", "shutdown", "rollback", "output"}
    /\ ParentsLeave \in BOOLEAN
    /\ "monitor" \notin Slots /\ "nobody" \notin Slots

Pids == 1..MaxPid
Root == 1
Threads == Slots \cup {"monitor"}

VARIABLES
    proc,           \* the process table
    nextPid,        \* the next pid of a descendant
    forked,         \* the processes that have had a child
    events,         \* how many of these there were
    holder,         \* who holds the lock of the child handle
    known, escaped, \* known_members and escaped_members of the containment
    st,             \* the worker's State, as far as it decides anything
    shutdown,       \* the flag that ends main's loop
    th,             \* what each thread is doing
    answer,         \* the snapshot that each call was answered with
    up              \* main has not returned

os == <<proc, nextPid, forked, events>>
members == <<known, escaped>>
vars == <<os, holder, members, st, shutdown, th, answer, up>>

-----------------------------------------------------------------------------
(* Values *)

\* A pid in the table, or as a scan has seen it.
Entry == [kind : {"free", "own", "zombie", "stranger"},
          ppid : 0..MaxPid, in : BOOLEAN]
Vacant(k) == [kind |-> k, ppid |-> 0, in |-> FALSE]
Free == Vacant("free")

Verdicts == {"none", "unknown", "escape", "remaining", "empty"}
NothingSeen == [p \in Pids |-> Free]

\* Where a thread can stand, and where what it calls can return to.
Returns == {"idle", "observe", "observed", "terminate", "sigterm", "sigkill", "grace",
            "graceCheck", "hard", "hardScan", "hardCheck", "lastScan", "wait", "waiting",
            "waited", "monitorDrain", "monitorLoop", "main", "snapshotDrain", "snapshot", "done"}
Steps == Returns \cup {"list", "read", "set"}

\* What a thread is doing.  pc: its step; to, after, ret: where its scan, its
\* observe_exit and its terminate_contained return; refresh: the scan sets
\* `confirmed`; listed, seen: the scan so far; verdict: its report; last:
\* the final look of wait_for_final_snapshot.
Activity == [pc : Steps, to : Returns, after : Returns, ret : Returns,
             op : Operations \cup {"none", "main"}, refresh : BOOLEAN, listed : SUBSET Pids,
             seen : [Pids -> Entry], verdict : Verdicts, last : BOOLEAN]
Idle == [pc |-> "idle", to |-> "idle", after |-> "idle", ret |-> "idle", op |-> "none",
         refresh |-> FALSE, listed |-> {}, seen |-> NothingSeen,
         verdict |-> "none", last |-> FALSE]

Answer == [status : {"none", "running", "exited", "lost"}, confirmed : BOOLEAN,
           exited : BOOLEAN, drained : BOOLEAN]
NoAnswer == [status |-> "none", confirmed |-> FALSE, exited |-> FALSE, drained |-> FALSE]

State == [rootExited : BOOLEAN, confirmed : BOOLEAN, requested : BOOLEAN,
          out : {"open", "eof", "failed"}, incomplete : BOOLEAN, storage : BOOLEAN,
          due : BOOLEAN, drainDue : BOOLEAN]

TypeOK ==
    /\ proc \in [Pids -> Entry] /\ nextPid \in 2..(MaxPid + 1)
    /\ forked \subseteq Pids
    /\ events \in 0..MaxEvents
    /\ holder \in Threads \cup {"nobody"}
    /\ known \subseteq Pids /\ escaped \subseteq Pids
    /\ st \in State
    /\ shutdown \in BOOLEAN
    /\ th \in [Threads -> Activity]
    /\ answer \in [Slots -> Answer] /\ up \in BOOLEAN

Init ==
    /\ proc = [NothingSeen EXCEPT ![Root] = [kind |-> "own", ppid |-> 0, in |-> TRUE]]
    /\ nextPid = 2 /\ forked = {} /\ events = 0
    /\ holder = "nobody"
    /\ known = {} /\ escaped = {}
    /\ st = [rootExited |-> FALSE, confirmed |-> FALSE, requested |-> FALSE, out |-> "open",
             incomplete |-> FALSE, storage |-> FALSE, due |-> FALSE, drainDue |-> FALSE]
    /\ shutdown = FALSE
    /\ th = [t \in Threads |-> IF t \in Slots THEN Idle
                               ELSE [Idle EXCEPT !.pc = "observe", !.after = "monitorDrain"]]
    /\ answer = [c \in Slots |-> NoAnswer]
    /\ up = TRUE

-----------------------------------------------------------------------------
(* Processes: external, what Linux and the child may do *)

Event == events < MaxEvents /\ events' = events + 1

Live(p) == proc[p].kind = "own"

\* What is left of the session that the child leads: processes that run, or
\* that wait to be reaped.
Session == {p \in Pids : proc[p].kind \in {"own", "zombie"} /\ proc[p].in}

\* A process ends; init adopts its children.  The direct child stays a zombie
\* until the worker reaps it; the parents of the others are taken to reap them.
Ended(p) ==
    [q \in Pids |-> IF q # p THEN [proc[q] EXCEPT !.ppid = IF @ = p THEN 0 ELSE @]
                    ELSE IF q = Root /\ Live(q) THEN [proc[q] EXCEPT !.kind = "zombie"]
                    ELSE Free]

Fork(p) ==
    /\ Live(p) /\ nextPid <= MaxPid
    /\ proc' = [proc EXCEPT ![nextPid] = [kind |-> "own", ppid |-> p, in |-> proc[p].in]]
    /\ nextPid' = nextPid + 1 /\ forked' = forked \cup {p}
    /\ UNCHANGED <<events, holder, members, st, shutdown, th, answer, up>>

\* setsid leaves the session; the leader of one cannot.
Setsid(p) ==
    /\ Live(p) /\ p # Root /\ proc[p].in
    /\ ParentsLeave \/ p \notin forked
    /\ proc' = [proc EXCEPT ![p].in = FALSE]
    /\ UNCHANGED <<nextPid, forked, events, holder, members, st, shutdown, th, answer, up>>

Exit(p) ==
    /\ proc[p].kind \in {"own", "stranger"}
    /\ proc' = Ended(p)
    /\ UNCHANGED <<nextPid, forked, events, holder, members, st, shutdown, th, answer, up>>

\* A process of somebody else is given a pid that was used before.
Reuse(p) ==
    /\ proc[p].kind = "free" /\ p < nextPid
    /\ \A t \in Threads : p \notin th[t].listed
    /\ Event
    /\ proc' = [proc EXCEPT ![p] = Vacant("stranger")]
    /\ UNCHANGED <<nextPid, forked, holder, members, st, shutdown, th, answer, up>>

-----------------------------------------------------------------------------
(* Steps of a thread *)

At(t, pc) == up /\ th[t].pc = pc
Goto(t, pc) == th' = [th EXCEPT ![t].pc = pc]

\* containment_report, with or without refresh_termination_confirmed around it.
BeginScan(t, to, refresh) ==
    th' = [th EXCEPT ![t].pc = "list", ![t].to = to, ![t].refresh = refresh,
                     ![t].verdict = "none",
                     ![t].after = IF to = "observed" THEN @ ELSE "idle"]
EndScan(t, verdict) ==
    [th[t] EXCEPT !.pc = IF th[t].refresh THEN "set" ELSE th[t].to,
                  !.to = IF th[t].refresh THEN @ ELSE "idle", !.verdict = verdict,
                  !.listed = {}, !.seen = NothingSeen]

\* linux_processes: the directory is listed, ...
List(t) ==
    /\ At(t, "list")
    /\ th' = [th EXCEPT ![t].pc = "read", ![t].listed = {p \in Pids : proc[p].kind # "free"}]
    /\ UNCHANGED <<os, holder, members, st, shutdown, answer, up>>

\* ... and then the stat of each entry.  One that is gone by then makes the
\* whole scan say "unknown", whatever else it reads.
Read(t) ==
    /\ At(t, "read") /\ th[t].listed # {}
    /\ LET p == Min(th[t].listed) IN
       th' = IF proc[p].kind = "free"
             THEN [th EXCEPT ![t] = EndScan(t, "unknown")]
             ELSE [th EXCEPT ![t].listed = @ \ {p}, ![t].seen[p] = proc[p]]
    /\ UNCHANGED <<os, holder, members, st, shutdown, answer, up>>

\* containment_report_from_scan on a complete scan: the members and escapes
\* to remember, and the verdict.
Descendants(seen) ==
    LET d[p \in Pids] == \/ p = Root
                         \/ seen[p].kind = "own" /\ seen[p].ppid # 0 /\ d[seen[p].ppid]
    IN  {p \in Pids : d[p]}
\* A mutant: a member that no earlier scan has seen is overlooked.
JudgeForgetsUnknown(seen) ==
    LET seenMembers == {p \in known : seen[p].kind \in {"own", "zombie"} /\ seen[p].in}
    IN  [known |-> known, escaped |-> escaped,
         verdict |-> IF seen[Root].kind = "free" /\ seenMembers = {} THEN "empty"
                     ELSE "remaining"]
Judge(seen) ==
    LET reused == {p \in escaped : seen[p].kind = "stranger"}
        left == {p \in escaped : \/ seen[p].kind # "free"
                                 \/ \E r \in reused : r < p}
        inside == {p \in Pids : seen[p].kind \in {"own", "zombie"} /\ seen[p].in}
        out == left \cup {p \in Descendants(seen) : ~ seen[p].in}
        Report(k, e, v) == [known |-> k, escaped |-> e, verdict |-> v]
    IN  IF reused # {} \/ seen[Root].kind = "stranger" THEN Report(known, left, "unknown")
        ELSE IF seen[Root].kind \in {"own", "zombie"}
        THEN Report(known \cup inside, out, IF out # {} THEN "escape" ELSE "remaining")
        ELSE Report(known, left, IF ~ (inside \subseteq known) THEN "unknown"
                                 ELSE IF left # {}             THEN "escape"
                                 ELSE IF inside = {}           THEN "empty"
                                 ELSE "remaining")

ReportScan(t) ==
    /\ At(t, "read") /\ th[t].listed = {}
    /\ LET r == Judge(th[t].seen) IN
       /\ known' = r.known /\ escaped' = r.escaped
       /\ th' = [th EXCEPT ![t] = EndScan(t, r.verdict)]
    /\ UNCHANGED <<os, holder, st, shutdown, answer, up>>

\* refresh_termination_confirmed takes the state lock after its scan.
Refresh(t) ==
    /\ At(t, "set")
    /\ st' = [st EXCEPT !.confirmed = st.rootExited /\ th[t].verdict = "empty"]
    /\ th' = [th EXCEPT ![t].pc = th[t].to, ![t].to = "idle", ![t].refresh = FALSE,
                        ![t].verdict = IF th[t].to = "hardCheck" THEN @ ELSE "none"]
    /\ UNCHANGED <<os, holder, members, shutdown, answer, up>>

\* try_wait or wait has found the exit: the child is reaped, record_exit.
Reap(t, to) ==
    /\ proc' = [proc EXCEPT ![Root] = Free]
    /\ st' = [st EXCEPT !.rootExited = TRUE]
    /\ BeginScan(t, to, TRUE)

\* observe_exit; the refresh of record_exit and its own follow each other.
ObserveExit(t) ==
    /\ At(t, "observe") /\ holder = "nobody"
    /\ \/ /\ proc[Root].kind = "zombie"
          /\ Reap(t, "observed")
       \/ /\ Live(Root)
          /\ th' = [th EXCEPT ![t].pc = th[t].after, ![t].after = "idle"]
          /\ UNCHANGED <<proc, st>>
       \/ /\ st.rootExited
          /\ BeginScan(t, th[t].after, TRUE)
          /\ UNCHANGED <<proc, st>>
    /\ UNCHANGED <<nextPid, forked, events, holder, members, shutdown, answer, up>>
Observed(t) ==
    /\ At(t, "observed")
    /\ BeginScan(t, th[t].after, TRUE)
    /\ UNCHANGED <<os, holder, members, st, shutdown, answer, up>>

Observe(t, after) == th' = [th EXCEPT ![t].pc = "observe", ![t].after = after, ![t].verdict = "none"]

-----------------------------------------------------------------------------
(* terminate_contained and terminate_and_wait *)

Begin(t, ret) == th' = [th EXCEPT ![t].pc = "terminate", ![t].ret = ret]

Terminate(t) ==
    /\ At(t, "terminate")
    /\ IF st.requested
       THEN Goto(t, th[t].ret) /\ UNCHANGED st
       ELSE Goto(t, "sigterm") /\ st' = [st EXCEPT !.requested = TRUE]
    /\ UNCHANGED <<os, holder, members, shutdown, answer, up>>

\* signal_direct_child: whoever has the pid by now may end, or must.
Signal(must) ==
    \/ proc[Root].kind \in {"own", "stranger"} /\ proc' = Ended(Root)
    \/ (must => proc[Root].kind \notin {"own", "stranger"}) /\ UNCHANGED proc

\* The report after a signal is remembered for its escapes, which only go into
\* the termination result; nothing depends on it.
SendTerm(t) ==
    /\ At(t, "sigterm") /\ holder = "nobody"
    /\ Signal(FALSE)
    /\ BeginScan(t, "grace", FALSE)
    /\ UNCHANGED <<nextPid, forked, events, holder, members, st, shutdown, answer, up>>
SendKill(t) ==
    /\ At(t, "sigkill") /\ holder = "nobody"
    /\ Signal(TRUE)
    /\ BeginScan(t, "hard", FALSE)
    /\ UNCHANGED <<nextPid, forked, events, holder, members, st, shutdown, answer, up>>

\* Two loops that end when their deadline has passed, or when they see that
\* the containment is empty.
Grace(t) ==
    /\ \/ At(t, "grace") /\ Observe(t, "graceCheck")
       \/ At(t, "graceCheck") /\ Goto(t, IF st.confirmed THEN "sigkill" ELSE "grace")
    /\ UNCHANGED <<os, holder, members, st, shutdown, answer, up>>
Hard(t) ==
    /\ \/ At(t, "hard") /\ Observe(t, "hardScan")
       \/ At(t, "hardScan") /\ BeginScan(t, "hardCheck", TRUE)
       \/ At(t, "hardCheck")
          /\ IF th[t].verdict = "empty" THEN Observe(t, "lastScan") ELSE Goto(t, "hard")
       \/ At(t, "lastScan") /\ BeginScan(t, th[t].ret, TRUE)
    /\ UNCHANGED <<os, holder, members, st, shutdown, answer, up>>
Late(t) ==
    /\ \/ At(t, "grace") /\ Goto(t, "sigkill")
       \/ At(t, "hard") /\ Observe(t, "lastScan")
    /\ UNCHANGED <<os, holder, members, st, shutdown, answer, up>>

\* The rest of terminate_and_wait: `wait` keeps the lock of the child handle.
WaitChild(t) ==
    /\ At(t, "wait")
    /\ \/ st.rootExited /\ Goto(t, "waited") /\ UNCHANGED holder
       \/ ~ st.rootExited /\ holder = "nobody" /\ holder' = t /\ Goto(t, "waiting")
    /\ UNCHANGED <<os, members, st, shutdown, answer, up>>
Waited(t) ==
    /\ At(t, "waiting") /\ proc[Root].kind = "zombie"
    /\ holder' = "nobody"
    /\ Reap(t, "waited")
    /\ UNCHANGED <<nextPid, forked, events, members, shutdown, answer, up>>

-----------------------------------------------------------------------------
(* monitor *)

\* update_reader_drain_state
Drained(s) ==
    [s EXCEPT !.incomplete = @ \/ (s.confirmed /\ s.out # "eof" /\ s.drainDue)]
\* A mutant: the readers are not waited for.
TerminalEarly(s) == s.confirmed
Terminal(s) == s.confirmed /\ (s.incomplete \/ s.out = "eof")

Monitor ==
    /\ \/ /\ At("monitor", "monitorDrain")
          /\ st' = Drained(st)
          /\ \/ Terminal(st') /\ Goto("monitor", "done")
             \/ ~ Terminal(st') /\ st.due /\ Begin("monitor", "monitorLoop")
             \/ ~ Terminal(st') /\ ~ st.due /\ Observe("monitor", "monitorDrain")
       \/ /\ At("monitor", "monitorLoop")
          /\ Observe("monitor", "monitorDrain")
          /\ UNCHANGED st
    /\ UNCHANGED <<os, holder, members, shutdown, answer, up>>

-----------------------------------------------------------------------------
(* handle: the operations; append_output; main *)

\* A connection is accepted, until main has left its loop, and its operation
\* begins; "rollback" is main itself, which the control thread woke.
Call(c) ==
    /\ up /\ th[c] = Idle /\ ~ shutdown
    /\ \E op \in Operations \ {"output"} :
         LET call == [Idle EXCEPT !.op = op] IN
         /\ th' = [th EXCEPT ![c] =
               CASE op = "rollback" -> [call EXCEPT !.pc = "main"]
                 [] op = "stop" \/ (op = "shutdown" /\ ~ st.confirmed) ->
                      [call EXCEPT !.pc = "terminate", !.ret = "wait"]
                 [] OTHER -> [call EXCEPT !.pc = "observe", !.after = "snapshotDrain"]]
         /\ shutdown' = (op = "rollback")
    /\ UNCHANGED <<os, holder, members, st, answer, up>>

\* append_output gives up: the journal fails, or an exec session is at its cap.
OutputEnds(c) ==
    /\ up /\ th[c] = Idle /\ "output" \in Operations /\ st.out = "open"
    /\ \E failed \in BOOLEAN : st' = [st EXCEPT !.storage = failed]
    /\ th' = [th EXCEPT ![c] = [Idle EXCEPT !.op = "output", !.pc = "terminate", !.ret = "done"]]
    /\ UNCHANGED <<os, holder, members, shutdown, answer, up>>

\* After terminate_and_wait a call takes its final snapshot, and main returns.
AfterWait(c) ==
    /\ At(c, "waited")
    /\ IF th[c].op \in {"stop", "shutdown"}
       THEN Observe(c, "snapshotDrain") /\ UNCHANGED up
       ELSE Goto(c, "done") /\ up' = FALSE
    /\ UNCHANGED <<os, holder, members, st, shutdown, answer>>

SnapshotDrain(c) ==
    /\ At(c, "snapshotDrain")
    /\ st' = Drained(st)
    /\ BeginScan(c, "snapshot", FALSE)
    /\ UNCHANGED <<os, holder, members, shutdown, answer, up>>

\* The status that snapshot makes of the state and of the report before it.
Status(s, verdict) ==
    LET unresolved == s.rootExited /\ verdict # "empty" /\ s.drainDue
    IN  IF /\ Terminal(s) \/ unresolved
           /\ s.storage \/ s.incomplete \/ unresolved \/ verdict = "unknown"
        THEN "lost"
        ELSE IF Terminal(s) THEN "exited" ELSE "running"

\* wait_for_final_snapshot looks again while the child runs; after its deadline
\* it looks once more.
SnapshotAgain(c, last) ==
    /\ At(c, "snapshot") /\ Status(st, th[c].verdict) = "running"
    /\ th[c].op # "snapshot" /\ ~ th[c].last
    /\ th' = [th EXCEPT ![c].pc = "observe", ![c].after = "snapshotDrain",
                        ![c].verdict = "none", ![c].last = last]
    /\ UNCHANGED <<os, holder, members, st, shutdown, answer, up>>

\* The answer; after a shutdown main leaves its loop.
Snapshot(c) ==
    /\ At(c, "snapshot")
    /\ LET status == Status(st, th[c].verdict) IN
       /\ status # "running" \/ th[c].op = "snapshot" \/ th[c].last
       /\ answer' = [answer EXCEPT ![c] =
             [status |-> status, confirmed |-> st.confirmed,
              exited |-> st.rootExited, drained |-> th[c].verdict = "empty"]]
    /\ IF th[c].op = "shutdown" /\ ~ shutdown
       THEN /\ shutdown' = TRUE
            /\ th' = [th EXCEPT ![c] = [Idle EXCEPT !.pc = "main", !.op = "main"]]
       ELSE /\ UNCHANGED shutdown
            /\ th' = [th EXCEPT ![c] = [Idle EXCEPT !.pc = "done", !.op = th[c].op]]
    /\ UNCHANGED <<os, holder, members, st, up>>

MainEnds(c) ==
    /\ At(c, "main")
    /\ IF st.confirmed THEN Goto(c, "waited") ELSE Begin(c, "wait")
    /\ UNCHANGED <<os, holder, members, st, shutdown, answer, up>>

-----------------------------------------------------------------------------
(* Output and time *)

\* The readers see the end of the output, or fail.
ReaderEnds ==
    /\ up /\ st.out = "open"
    /\ \A c \in Slots : th[c].op = "output" => th[c].pc = "done"
    /\ \/ st' = [st EXCEPT !.out = "eof"] /\ UNCHANGED events
       \/ st' = [st EXCEPT !.out = "failed", !.incomplete = TRUE] /\ Event
    /\ UNCHANGED <<proc, nextPid, forked, holder, members, shutdown, th, answer, up>>

Deadline ==
    /\ up /\ Event /\ ~ st.due
    /\ st' = [st EXCEPT !.due = TRUE]
    /\ UNCHANGED <<proc, nextPid, forked, holder, members, shutdown, th, answer, up>>
DrainDeadline ==
    /\ up /\ st.rootExited /\ ~ st.drainDue
    /\ st' = [st EXCEPT !.drainDue = TRUE]
    /\ UNCHANGED <<os, holder, members, shutdown, th, answer, up>>

-----------------------------------------------------------------------------
Processes == \E p \in Pids : Fork(p) \/ Setsid(p) \/ Exit(p) \/ Reuse(p)

Thread(t) ==
    \/ List(t) \/ Read(t) \/ ReportScan(t) \/ Refresh(t) \/ ObserveExit(t) \/ Observed(t)
    \/ Terminate(t) \/ SendTerm(t) \/ SendKill(t) \/ Grace(t) \/ Hard(t)
    \/ WaitChild(t) \/ Waited(t)
Slot(c) ==
    AfterWait(c) \/ SnapshotDrain(c) \/ Snapshot(c) \/ SnapshotAgain(c, FALSE) \/ MainEnds(c)

Next ==
    \/ Processes
    \/ \E t \in Threads : Thread(t) \/ Late(t)
    \/ \E c \in Slots : Call(c) \/ OutputEnds(c) \/ Slot(c) \/ SnapshotAgain(c, TRUE)
    \/ Monitor \/ ReaderEnds \/ Deadline \/ DrainDeadline

\* Threads run and deadlines pass.  Processes owe nothing, and no call is owed.
Fairness ==
    /\ \A t \in Threads : WF_vars(Thread(t)) /\ SF_vars(Late(t))
    /\ \A c \in Slots : WF_vars(Slot(c)) /\ SF_vars(SnapshotAgain(c, TRUE))
    /\ WF_vars(Monitor)

Spec == Init /\ [][Next]_vars /\ Fairness

-----------------------------------------------------------------------------
(* Properties *)

\* A confirmed termination (refresh_termination_confirmed) means that nothing is
\* left of the child's session: the daemon deletes records and frees slots on
\* it.  The scan behind it is not atomic, the lists it compares with are shared
\* by all threads, and it may be older than the state that it is written to.
ConfirmedMeansEmpty == st.confirmed => Session = {}

\* What snapshot answers is true when it arrives, and stays so: "exited" means
\* that the session is empty and the output was read to its end, and the proof
\* that the daemon asks for (confirmed and drained) that the session is empty.
\* A snapshot joins a report and a state that were not taken together.
AnswersAreTrue ==
    \A c \in Slots :
        /\ answer[c].status = "exited" => Session = {} /\ st.out = "eof"
        /\ answer[c].confirmed /\ answer[c].drained => Session = {}

\* "Timeout, output caps, rollback, and stop signal only the owned direct-child
\* handle with SIGTERM, then SIGKILL after a bounded grace period" (README.md):
\* a termination that was requested ends the child.
KilledInTheEnd == st.requested ~> (~ Live(Root) \/ ~ up)
=============================================================================
