------------------------------ MODULE BashTool ------------------------------
(***************************************************************************)
(* The foreground bash tool (src/src/plugin/pty/tools/bash.ts) over the     *)
(* approval ledger: the policy, the request for approval, the companion's   *)
(* decision or the native prompt, the use of the approval, the start of the *)
(* command, the wait for its end, and an abort by the user anywhere between *)
(* (abortableApprovalWait, abortableAsk, abortableExec).                    *)
(*                                                                          *)
(* The tool and the daemon are two processes (daemon-client.ts, call): the  *)
(* tool gives up an answer after a timeout, or when the daemon dies, and    *)
(* the daemon carries out later, or never, what it was asked.  inbox[c] are *)
(* the calls of tool call c that the daemon has not carried out; it takes   *)
(* them in order.  Waits are not queued and only read.                      *)
(*                                                                          *)
(* A tool call is the request that it makes, if it needs one.  Requests     *)
(* outside of Calls are somebody else's, who calls anything in any order;   *)
(* the companion claims, decides, lists and revokes at all times.           *)
(***************************************************************************)
EXTENDS ApprovalLedger, Sequences

CONSTANT Calls
ASSUME CallsAssumption == Calls \subseteq Requests

VARIABLES
    pc,                 \* where a tool call stands; a queued call is named after its operation
    aborted,            \* ctx.abort.aborted
    inbox,
    command,            \* the command of a tool call: none, running or ended
    yes, no, broken     \* not in the code: who was allowed by the policy or approved by a
                        \* person, who was refused or aborted before the start, and whose
                        \* request, or its cancellation, had an answer that failed

toolVars == <<pc, aborted, inbox, command, yes, no, broken>>
allVars == <<vars, toolVars>>

Operations == {"prepare", "native", "consume", "cancel", "start", "stop"}
Prompts == {"ask", "external"}
Over == {"done", "failed"}

ToolTypeOK ==
    /\ pc \in [Calls -> Operations \cup Prompts \cup Over \cup {"idle", "wait", "run"}]
    /\ aborted \in [Calls -> BOOLEAN]
    /\ inbox \in [Calls -> Seq(Operations)]
    /\ command \in [Calls -> {"none", "running", "ended"}]
    /\ yes \subseteq Requests \X {"policy", "once", "session"}
    /\ no \subseteq Calls /\ broken \subseteq Calls

ToolInit ==
    /\ Init
    /\ pc = [c \in Calls |-> "idle"]
    /\ aborted = [c \in Calls |-> FALSE]
    /\ inbox = [c \in Calls |-> <<>>]
    /\ command = [c \in Calls |-> "none"]
    /\ yes = {} /\ no = {} /\ broken = {}

-----------------------------------------------------------------------------
(* How a tool call moves on *)

Queue(queue, next) == IF next \in Operations THEN Append(queue, next) ELSE queue

\* The tool itself moves on.
Goto(c, next) ==
    /\ pc' = [pc EXCEPT ![c] = next]
    /\ inbox' = [inbox EXCEPT ![c] = Queue(@, next)]

\* The daemon has carried out the first call in the inbox; the tool moves on if
\* it still waits for that one.
Reply(c, next) ==
    LET rest == Tail(inbox[c])
        awaited == pc[c] = Head(inbox[c]) /\ rest = <<>>
    IN  /\ pc' = IF awaited THEN [pc EXCEPT ![c] = next] ELSE pc
        /\ inbox' = [inbox EXCEPT ![c] = IF awaited THEN Queue(rest, next) ELSE rest]

\* A variant that leaves the request when its approval fails.
AfterFailureLeft(at) == "failed"

\* Where a failed answer leads: the approval is cancelled if it was asked for.
AfterFailure(at) == IF at \in {"wait", "native", "consume"} THEN "cancel" ELSE "failed"

Fault(c, at) == broken' = IF at \in {"prepare", "cancel"} THEN broken \cup {c} ELSE broken

\* A variant that does not look at the abort before the start.
ProceedUnchecked(c) == {"start", "failed"}

\* The last look at the abort, then the shell and the timeout, which may be
\* refused, and the start.
Proceed(c) == IF aborted[c] THEN {"failed"} ELSE {"start", "failed"}

\* The approval is there; a directory outside of the worktree may have to be
\* asked for, which looks at the abort first.
Permitted(c) == Proceed(c) \cup IF aborted[c] THEN {"failed"} ELSE {"external"}

-----------------------------------------------------------------------------
(* The tool *)

\* authorize: the policy allows the command, wants it asked for, or denies it or
\* its directory or cannot be read, which ends the call.
Begin(c) ==
    /\ pc[c] = "idle"
    /\ \/ \E next \in {"failed", "prepare"} : Goto(c, next) /\ UNCHANGED yes
       \/ \E next \in Permitted(c) : Goto(c, next) /\ yes' = yes \cup {<<c, "policy">>}
    /\ UNCHANGED <<vars, aborted, command, no, broken>>

\* A prompt of the host is answered, or cannot be shown.
Answered(c, allowed) ==
    /\ pc[c] \in Prompts
    /\ \E next \in IF allowed
                   THEN IF pc[c] = "ask" THEN {"native"} ELSE Proceed(c)
                   ELSE IF pc[c] = "ask" THEN {"cancel"} ELSE {"failed"} :
          Goto(c, next)
    /\ yes' = IF allowed /\ pc[c] = "ask" THEN yes \cup {<<c, "once">>} ELSE yes
    /\ no' = IF allowed THEN no ELSE no \cup {c}
    /\ UNCHANGED <<vars, aborted, command, broken>>

\* A variant in which an open prompt does not hear the abort.
AbortsDeaf(at) == CASE at = "wait" -> "cancel" [] at = "run" -> "stop" [] OTHER -> at

\* What an abort does at once; everywhere else it is looked at later.
Aborts(at) ==
    CASE at \in {"wait", "ask"} -> "cancel"
      [] at = "external"        -> "failed"
      [] at = "run"             -> "stop"
      [] OTHER                  -> at

Abort(c) ==
    /\ ~aborted[c] /\ pc[c] \notin Over
    /\ aborted' = [aborted EXCEPT ![c] = TRUE]
    /\ IF Aborts(pc[c]) = pc[c] THEN UNCHANGED <<pc, inbox>> ELSE Goto(c, Aborts(pc[c]))
    /\ no' = IF pc[c] \in {"start", "run"} THEN no ELSE no \cup {c}
    /\ UNCHANGED <<vars, command, yes, broken>>

\* An answer does not come in time or the connection fails.
GivesUp(c) ==
    /\ pc[c] \in Operations \cup {"wait", "run"}
    /\ Goto(c, AfterFailure(pc[c])) /\ Fault(c, pc[c])
    /\ UNCHANGED <<vars, aborted, command, yes, no>>

\* execWait: the evidence is terminal, or the call fails.
RunEnds(c) ==
    /\ pc[c] = "run" /\ ~aborted[c]
    /\ Goto(c, IF command[c] = "ended" THEN "done" ELSE "failed")
    /\ UNCHANGED <<vars, aborted, command, yes, no, broken>>

-----------------------------------------------------------------------------
(* The daemon carries out what the tool asked.  A write that fails is an    *)
(* answer that fails, and so is a request that is gone.                     *)

Asked(c, operation) == inbox[c] # <<>> /\ Head(inbox[c]) = operation

Failing(c) == Reply(c, AfterFailure(Head(inbox[c]))) /\ Fault(c, Head(inbox[c]))

ServePrepare(c, written) ==
    /\ Asked(c, "prepare")
    /\ IF ~written THEN Failing(c) /\ UNCHANGED vars
       ELSE /\ IF Matching(c) # {}
               THEN Prune(TRUE) /\ \E next \in Permitted(c) : Reply(c, next)
               ELSE Create(c, TRUE, TRUE, TRUE) /\ Reply(c, IF aborted[c] THEN "cancel" ELSE "wait")
            /\ UNCHANGED broken
    /\ UNCHANGED <<aborted, command, yes, no>>

\* approvalWait goes round until the request is decided or left to the prompt.
ServeWait(c, written) ==
    /\ pc[c] = "wait"
    /\ IF Found(c) THEN Poll(c, written) ELSE UNCHANGED vars
    /\ IF ~Found(c) \/ ~written THEN Goto(c, AfterFailure("wait")) /\ Fault(c, "wait")
       ELSE /\ CASE Fresh(c) \in {"pending", "claimed"} -> UNCHANGED <<pc, inbox>>
                 [] Fresh(c) = "native_fallback"        -> Goto(c, "ask")
                 [] OTHER                               -> Goto(c, "consume")
            /\ UNCHANGED broken
    /\ UNCHANGED <<aborted, command, yes, no>>

\* The answer is not looked at.
ServeNative(c, written) ==
    /\ Asked(c, "native")
    /\ IF Found(c) THEN NativeApprove(c, written) ELSE UNCHANGED vars
    /\ IF Found(c) /\ written THEN Reply(c, "consume") /\ UNCHANGED broken ELSE Failing(c)
    /\ UNCHANGED <<aborted, command, yes, no>>

\* A variant that takes every answer for an approval.
GrantedAny(c) == TRUE

\* The answer is consumed or approved_session.
Granted(c) ==
    \/ Fresh(c) = "approved_once"
    \/ Fresh(c) \notin {"rejected", "cancelled", "expired", "consumed"} /\ Matching(c) # {}

ServeConsume(c, written) ==
    /\ Asked(c, "consume")
    /\ IF Found(c) THEN Consume(c, DigestOf[c], written) ELSE UNCHANGED vars
    /\ IF Found(c) /\ written
       THEN /\ \E next \in IF Granted(c) THEN Permitted(c) ELSE {"cancel"} : Reply(c, next)
            /\ UNCHANGED broken
       ELSE Failing(c)
    /\ UNCHANGED <<aborted, command, yes, no>>

\* Whatever it answers, the call fails with the first error.
ServeCancel(c, written) ==
    /\ Asked(c, "cancel")
    /\ IF Found(c) THEN Cancel(c, written) ELSE UNCHANGED vars
    /\ IF Found(c) /\ written THEN Reply(c, "failed") /\ UNCHANGED broken ELSE Failing(c)
    /\ UNCHANGED <<aborted, command, yes, no>>

\* nativeExecStart; a wait that is aborted already goes on to the stop.
ServeStart(c, spawned) ==
    /\ Asked(c, "start")
    /\ IF spawned
       THEN /\ command' = [command EXCEPT ![c] = "running"]
            /\ Reply(c, IF aborted[c] THEN "stop" ELSE "run") /\ UNCHANGED broken
       ELSE Failing(c) /\ UNCHANGED command
    /\ UNCHANGED <<vars, aborted, yes, no>>

\* stop, and a last wait; an end that is not confirmed is reported as such.
ServeStop(c, confirmed) ==
    /\ Asked(c, "stop")
    /\ command' = IF confirmed THEN [command EXCEPT ![c] = "ended"] ELSE command
    /\ Reply(c, "failed")
    /\ UNCHANGED <<vars, aborted, yes, no, broken>>

CommandEnds(c) ==
    /\ command[c] = "running"
    /\ command' = [command EXCEPT ![c] = "ended"]
    /\ UNCHANGED <<vars, pc, aborted, inbox, yes, no, broken>>

\* The daemon dies with all that it was asked; every answer fails.
DaemonRestarts ==
    /\ Restart
    /\ LET cut == {c \in Calls : pc[c] \in Operations \cup {"wait", "run"}}
           next(c) == IF c \in cut THEN AfterFailure(pc[c]) ELSE pc[c]
       IN  /\ pc' = [c \in Calls |-> next(c)]
           /\ inbox' = [c \in Calls |-> IF c \in cut THEN Queue(<<>>, next(c)) ELSE <<>>]
           /\ broken' = broken \cup {c \in cut : pc[c] \in {"prepare", "cancel"}}
    /\ UNCHANGED <<aborted, command, yes, no>>

-----------------------------------------------------------------------------
(* Everybody else *)

Approved(r) == status'[r] # status[r] /\ status'[r] \in {"approved_once", "approved_session"}

\* The TUI companion lists requests and grants, claims a request, decides what
\* it claimed, and revokes (reviewApprovals, claimApproval, decideApproval,
\* revokeGrant).  Its dialog bounds nothing: its calls too are carried out
\* late, and a decision without a token is the daemon's to refuse.
Companion(r, written) ==
    \/ Claim(r, written) \/ \E decision \in Decisions : Decide(r, decision, written)
    \/ RevokeGrant(r, written)
    \/ ListRequests(written) \/ Prune(written)

Others ==
    /\ \/ \E r \in Requests \ Calls, written \in BOOLEAN : RequestCall(r, written)
       \/ \E c \in Calls, written \in BOOLEAN : Companion(c, written)
       \/ \E o \in Owners, written \in BOOLEAN : CleanupConversation(o, written)
    /\ yes' = yes \cup {<<c, "once">> : c \in {q \in Calls : Approved(q)}}
                  \cup {<<r, "session">> : r \in {q \in Requests : Approved(q) /\ q \in grants'}}
    /\ no' = no \cup {c \in Calls : status[c] = "claimed" /\ status'[c] = "rejected"}
    /\ UNCHANGED <<pc, aborted, inbox, command, broken>>

TimePasses(r, d) == DeadlinePasses(r, d) /\ UNCHANGED toolVars

GrantEnds(g) == GrantExpires(g) /\ UNCHANGED toolVars

Serve(c, good) ==
    \/ ServePrepare(c, good) \/ ServeNative(c, good) \/ ServeConsume(c, good)
    \/ ServeCancel(c, good) \/ ServeStart(c, good) \/ ServeStop(c, good)

ToolNext ==
    \/ \E c \in Calls :
          \/ Begin(c) \/ \E allowed \in BOOLEAN : Answered(c, allowed)
          \/ Abort(c) \/ GivesUp(c) \/ RunEnds(c) \/ CommandEnds(c)
          \/ \E good \in BOOLEAN : Serve(c, good) \/ ServeWait(c, good)
    \/ DaemonRestarts
    \/ Others
    \/ \E r \in Requests : GrantEnds(r) \/ \E d \in Deadlines : TimePasses(r, d)

\* The policy is read; the daemon does what it was asked and answers waits, or
\* the client gives up; the leases run out.  Nobody needs to answer a prompt.
ToolFairness ==
    \A c \in Calls :
        /\ WF_allVars(Begin(c))
        /\ WF_allVars(Serve(c, TRUE)) /\ WF_allVars(ServeWait(c, TRUE))
        /\ \A d \in {"ui", "claim"} : WF_allVars(TimePasses(c, d))

ToolSpec == ToolInit /\ [][ToolNext]_allVars /\ ToolFairness

-----------------------------------------------------------------------------
(* Properties *)

\* A command runs only if the policy allows it or a person approved it: this
\* request, or the same command of the same conversation for the session
\* (execute, approvalPrepare, approvalConsume).
RunsOnlyOnYes ==
    \A c \in Calls :
        command[c] # "none"
        => \/ <<c, "policy">> \in yes \/ <<c, "once">> \in yes
           \/ \E q \in Requests : <<q, "session">> \in yes
                                  /\ OwnerOf[q] = OwnerOf[c] /\ DigestOf[q] = DigestOf[c]

\* A call that a person refused, or that was aborted before the daemon was
\* asked to start the command, never has its command run, however late the
\* daemon carries out what it was asked (execute).
NoMeansNo == \A c \in no : command[c] = "none"

\* A call that is over leaves no request behind that the companion could still
\* decide, whatever answer failed on the way, unless it is that of the request
\* itself or of its cancellation (execute, cancelApproval).
NothingLeftOpen ==
    \A c \in Calls \ broken : pc[c] \in Over => status[c] \notin Open

\* A call waits no longer than the leases: the companion decides, or the native
\* prompt takes over, also when the claimer vanished or a restart forgot its
\* token (approvalWait, refreshApproval).
WaitSettles == \A c \in Calls : (pc[c] = "wait") ~> (pc[c] # "wait")

\* A user who aborts gets the call back, whatever it was waiting for
\* (abortableApprovalWait, abortableAsk, abortableExec).
AbortEndsCall == \A c \in Calls : aborted[c] ~> (pc[c] \in Over)
=============================================================================
