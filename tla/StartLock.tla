----------------------------- MODULE StartLock ------------------------------
(***************************************************************************)
(* The start lock of the daemon (src/src/daemon/storage.ts) as its users    *)
(* take it: a client that finds no daemon acquires the lock, launches a     *)
(* daemon, hands the lock over to it and waits; the daemon claims the lock, *)
(* publishes its descriptor and releases the lock (DaemonClient, server.ts  *)
(* start).  Every file operation is a step, so processes interleave between *)
(* any two of them, and may die there.                                      *)
(*                                                                          *)
(* A lock file is the process that wrote it: its token, its pid and start   *)
(* identity, and the hand-off token if it is a client.  A process takes the *)
(* start lock once; the recovery lock it may take again and again, but its  *)
(* token only matters to others once it is dead.                            *)
(***************************************************************************)
EXTENDS Naturals, FiniteSets

CONSTANTS Clients, Ghost, None,
          MaxDeaths,    \* processes that die where they stand
          MaxTimeouts   \* 20 second deadlines that pass
ASSUME StartBoundsAssumption == MaxDeaths \in Nat /\ MaxTimeouts \in Nat

VARIABLES
    startLock, recovery,  \* the two lock files
    quarantine,           \* where a recoverer moves a recovery lock to
    descriptor,           \* the daemon that daemon.json names
    seen,                 \* the lock each process has read last
    pc, alive,
    deaths, timeouts

files == <<startLock, recovery, quarantine, descriptor>>
vars == <<files, seen, pc, alive, deaths, timeouts>>

Procs == Clients \X {"client", "daemon"}
Writers == Procs \cup {Ghost}
IsClient(p) == p[2] = "client"
DaemonOf(c) == <<c[1], "daemon">>
LauncherOf(d) == <<d[1], "client">>

PCs == {"off", "looking", "locking", "inspecting", "recovering", "watching", "doubting",
        "comparing", "recovered", "judging", "relocking", "won", "lost", "holding",
        "launched", "publishing", "published", "releasing", "unlocking", "over", "serving"}

TypeOK ==
    /\ startLock \in Writers \cup {None} /\ recovery \in Writers \cup {None}
    /\ quarantine \in [Procs -> Writers \cup {None}]
    /\ descriptor \in (Clients \X {"daemon"}) \cup {None}
    /\ seen \in [Procs -> Writers \cup {None}]
    /\ pc \in [Procs -> PCs]
    /\ \A p \in Procs : pc[p] \notin (IF IsClient(p) THEN {"off", "publishing", "published", "serving"}
                                      ELSE {"looking", "locking", "inspecting", "relocking", "launched"})
    /\ alive \in [Writers -> BOOLEAN]
    /\ deaths \in 0..MaxDeaths /\ timeouts \in 0..MaxTimeouts

\* A process that died before may have left both locks behind.
Init ==
    /\ startLock \in {None, Ghost} /\ recovery \in {None, Ghost}
    /\ quarantine = [p \in Procs |-> None]
    /\ descriptor = None
    /\ seen = [p \in Procs |-> None]
    /\ pc = [p \in Procs |-> IF IsClient(p) THEN "looking" ELSE "off"]
    /\ alive = [p \in Writers |-> p # Ghost]
    /\ deaths = 0 /\ timeouts = 0

-----------------------------------------------------------------------------
(* Helpers *)

At(p, where) == alive[p] /\ pc[p] = where
Go(p, where) == pc' = [pc EXCEPT ![p] = where]

\* startLockOwnerAlive, of a lock that was read (or found missing).
OwnerAlive(lock) == lock # None /\ alive[lock]

\* descriptorOwnerAlive
DaemonUp == descriptor # None /\ alive[descriptor]

\* A call of acquireStartLock or claimStartLock returned null: the client's
\* loop goes round, the daemon's start throws and its process ends.
Refused(p) ==
    /\ Go(p, IF IsClient(p) THEN "looking" ELSE "over")
    /\ alive' = [alive EXCEPT ![p] = IsClient(p)]

-----------------------------------------------------------------------------
(* acquireStartLock, claimStartLock *)

\* The client's loop: a daemon that is up ends it.
Look(p) ==
    /\ At(p, "looking")
    /\ Go(p, IF DaemonUp THEN "over" ELSE "locking")
    /\ UNCHANGED <<files, seen, alive, deaths, timeouts>>

\* writeExclusiveLock(startLockPath)
LinkStartLock(p) ==
    /\ At(p, "locking")
    /\ IF startLock = None THEN startLock' = p /\ Go(p, "holding")
       ELSE Go(p, "inspecting") /\ UNCHANGED startLock
    /\ UNCHANGED <<recovery, quarantine, descriptor, seen, alive, deaths, timeouts>>

\* The owner's pulse is taken with the read: a lock that turns stale in
\* between is found missing or stale by a later read just as well.
Inspect(p) ==
    /\ At(p, "inspecting")
    /\ IF OwnerAlive(startLock) THEN Refused(p) ELSE Go(p, "recovering") /\ UNCHANGED alive
    /\ UNCHANGED <<files, seen, deaths, timeouts>>

\* acquireStartLockRecovery: writeExclusiveLock(startLockRecoveryPath)
LinkRecovery(p) ==
    /\ At(p, "recovering")
    /\ IF recovery = None THEN recovery' = p /\ Go(p, "recovered")
       ELSE Go(p, "watching") /\ UNCHANGED recovery
    /\ UNCHANGED <<startLock, quarantine, descriptor, seen, alive, deaths, timeouts>>

ReadRecovery(p) ==
    /\ At(p, "watching")
    /\ seen' = [seen EXCEPT ![p] = recovery]
    /\ Go(p, "doubting")
    /\ UNCHANGED <<files, alive, deaths, timeouts>>

\* The owner is dead, or there was no lock to read: whatever lies there now
\* is renamed away.  (Who is dead stays dead until the rename.)
Quarantine(p) ==
    /\ At(p, "doubting")
    /\ IF OwnerAlive(seen[p])
       THEN Refused(p) /\ UNCHANGED <<recovery, quarantine>>
       ELSE /\ UNCHANGED alive
            /\ IF recovery = None
               THEN Go(p, "recovering") /\ UNCHANGED <<recovery, quarantine>>
               ELSE /\ quarantine' = [quarantine EXCEPT ![p] = recovery]
                    /\ recovery' = None /\ Go(p, "comparing")
    /\ UNCHANGED <<startLock, descriptor, seen, deaths, timeouts>>

\* A lock that is not the one that was read is linked back.
Compare(p) ==
    /\ At(p, "comparing")
    /\ IF quarantine[p] # seen[p]
       THEN /\ recovery' = IF recovery = None THEN quarantine[p] ELSE recovery
            /\ Refused(p)
       ELSE Go(p, "recovering") /\ UNCHANGED <<recovery, alive>>
    /\ quarantine' = [quarantine EXCEPT ![p] = None]
    /\ UNCHANGED <<startLock, descriptor, seen, deaths, timeouts>>

ReadAgain(p) ==
    /\ At(p, "recovered")
    /\ seen' = [seen EXCEPT ![p] = startLock]
    /\ Go(p, "judging")
    /\ UNCHANGED <<files, alive, deaths, timeouts>>

\* A variant that removes the lock of a live owner.
RemoveAny(p) ==
    /\ At(p, "judging") /\ IsClient(p)
    /\ startLock' = None /\ Go(p, "relocking")
    /\ UNCHANGED <<recovery, quarantine, descriptor, seen, alive, deaths, timeouts>>

\* acquireStartLock: the stale start lock is removed.
RemoveStale(p) ==
    /\ At(p, "judging") /\ IsClient(p)
    /\ IF OwnerAlive(seen[p])
       THEN Go(p, "lost") /\ UNCHANGED startLock
       ELSE startLock' = None /\ Go(p, "relocking")
    /\ UNCHANGED <<recovery, quarantine, descriptor, seen, alive, deaths, timeouts>>

LinkRecovered(p) ==
    /\ At(p, "relocking")
    /\ IF startLock = None THEN startLock' = p /\ Go(p, "won")
       ELSE Go(p, "lost") /\ UNCHANGED startLock
    /\ UNCHANGED <<recovery, quarantine, descriptor, seen, alive, deaths, timeouts>>

\* A variant that does not compare the hand-off token.
ClaimAny(d) ==
    /\ At(d, "judging") /\ ~IsClient(d)
    /\ startLock' = d /\ Go(d, "won")
    /\ UNCHANGED <<recovery, quarantine, descriptor, seen, alive, deaths, timeouts>>

\* claimStartLock: the hand-off token is the launcher's, or the daemon gives
\* up; its own lock replaces what is there.
Claim(d) ==
    /\ At(d, "judging") /\ ~IsClient(d)
    /\ IF seen[d] = LauncherOf(d)
       THEN startLock' = d /\ Go(d, "won")
       ELSE Go(d, "lost") /\ UNCHANGED startLock
    /\ UNCHANGED <<recovery, quarantine, descriptor, seen, alive, deaths, timeouts>>

\* The finally clauses: whatever recovery lock lies there is removed.
ClearRecovery(p) ==
    /\ At(p, "won") \/ At(p, "lost")
    /\ recovery' = None
    /\ IF pc[p] = "won" THEN Go(p, "holding") /\ UNCHANGED alive ELSE Refused(p)
    /\ UNCHANGED <<startLock, quarantine, descriptor, seen, deaths, timeouts>>

-----------------------------------------------------------------------------
(* The holders *)

\* DaemonClient looks for a daemon once more, then launches one.
Launch(c) ==
    /\ At(c, "holding") /\ IsClient(c)
    /\ pc' = IF DaemonUp THEN [pc EXCEPT ![c] = "releasing"]
             ELSE [pc EXCEPT ![c] = "launched", ![DaemonOf(c)] = "recovering"]
    /\ UNCHANGED <<files, seen, alive, deaths, timeouts>>

\* It waits until a daemon is up or its own has exited.
Await(c) ==
    /\ At(c, "launched")
    /\ DaemonUp \/ ~alive[DaemonOf(c)]
    /\ Go(c, "releasing")
    /\ UNCHANGED <<files, seen, alive, deaths, timeouts>>

\* The deadline ends the client's loop and, in either process, the contention
\* for the recovery lock.
Deadline(p) ==
    /\ timeouts < MaxTimeouts /\ timeouts' = timeouts + 1
    /\ \/ /\ At(p, "looking") \/ At(p, "recovering")
          /\ Go(p, "over")
          /\ alive' = [alive EXCEPT ![p] = IsClient(p)]
       \/ /\ IsClient(p) /\ (At(p, "holding") \/ At(p, "launched"))
          /\ Go(p, "releasing") /\ UNCHANGED alive
    /\ UNCHANGED <<files, seen, deaths>>

\* DaemonServer.start: a daemon that is up ends it.
Start(d) ==
    /\ At(d, "holding") /\ ~IsClient(d)
    /\ Go(d, IF DaemonUp THEN "releasing" ELSE "publishing")
    /\ UNCHANGED <<files, seen, alive, deaths, timeouts>>

\* writeDescriptor
Publish(d) ==
    /\ At(d, "publishing")
    /\ descriptor' = d
    /\ Go(d, "published")
    /\ UNCHANGED <<startLock, recovery, quarantine, seen, alive, deaths, timeouts>>

\* After its last file operation: a daemon serves, or its process ends.
Ends(p) ==
    /\ Go(p, IF descriptor = p THEN "serving" ELSE "over")
    /\ alive' = [alive EXCEPT ![p] = IsClient(p) \/ descriptor = p]

\* A variant whose identity probe fails, so that it keeps the lock.
ReadOwnUnprobed(p) ==
    /\ At(p, "releasing") \/ At(p, "published")
    /\ Ends(p)
    /\ UNCHANGED <<files, seen, deaths, timeouts>>

\* releaseStartLock: the lock is read, and removed if it is one's own.
ReadOwn(p) ==
    /\ At(p, "releasing") \/ At(p, "published")
    /\ IF startLock = p THEN Go(p, "unlocking") /\ UNCHANGED alive ELSE Ends(p)
    /\ UNCHANGED <<files, seen, deaths, timeouts>>

Unlock(p) ==
    /\ At(p, "unlocking")
    /\ startLock' = None
    /\ Ends(p)
    /\ UNCHANGED <<recovery, quarantine, descriptor, seen, deaths, timeouts>>

\* A process dies where it stands; a client that is done may just exit.
Die(p) ==
    /\ alive[p] /\ pc[p] # "off" /\ deaths < MaxDeaths
    /\ deaths' = deaths + 1
    /\ alive' = [alive EXCEPT ![p] = FALSE]
    /\ Go(p, "over")
    /\ UNCHANGED <<files, seen, timeouts>>

Step(p) ==
    \/ Look(p) \/ LinkStartLock(p) \/ Inspect(p)
    \/ LinkRecovery(p) \/ ReadRecovery(p) \/ Quarantine(p) \/ Compare(p)
    \/ ReadAgain(p) \/ RemoveStale(p) \/ LinkRecovered(p) \/ Claim(p) \/ ClearRecovery(p)
    \/ Launch(p) \/ Await(p) \/ Start(p) \/ Publish(p) \/ ReadOwn(p) \/ Unlock(p)

Next == \E p \in Procs : Step(p) \/ Deadline(p) \/ Die(p)

Spec == Init /\ [][Next]_vars /\ \A p \in Procs : WF_vars(Step(p))

-----------------------------------------------------------------------------
(* Properties *)

\* The processes that act on holding the start lock: a client that is about
\* to launch a daemon, a daemon that has claimed the lock and starts.
Holds(p) == alive[p] /\ pc[p] \in {"won", "holding", "publishing"}

\* While no deadline passes, the start lock is held by one process at a time, or
\* handed over from a client to the daemon it launched (acquireStartLock,
\* claimStartLock).
OneHolder ==
    timeouts = 0 => \A p, q \in Procs : Holds(p) /\ Holds(q) => p[1] = q[1]

\* What the lock is for: while no deadline passes, no two daemons serve one data
\* directory (DaemonServer.start).
OneDaemon ==
    timeouts = 0 =>
        \A p, q \in Procs :
            /\ alive[p] /\ alive[q]
            /\ {pc[p], pc[q]} \subseteq {"published", "serving"}
            => p = q

\* A start lock that a live process holds is given up in the end
\* (releaseStartLock and the claim that takes it over).
StartLockFreed == \A p \in Procs : (startLock = p /\ alive[p]) ~> (startLock # p \/ ~alive[p])
=============================================================================
