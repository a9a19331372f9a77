------------------------ MODULE WorkerProcessProofs -------------------------
(***************************************************************************)
(* What a worker says about the end of its session, for any number of       *)
(* processes, threads and operations, as long as no process calls setsid    *)
(* after it has forked.                                                     *)
(*                                                                          *)
(* A scan is not atomic.  Its invariant (Accounted) says that it cannot     *)
(* miss what is left of the session: a member was listed when the scan      *)
(* began, or descends from a process that was, and that process has         *)
(* forked, so it stays in the session until it ends.  Either way the scan   *)
(* has seen somebody inside, will see him, or will find him gone and give   *)
(* up.  A session that is empty stays empty, so a verdict may be as old as  *)
(* it likes when it is written to the state or put into an answer.          *)
(*                                                                          *)
(* The second part is about Redaction, what the readers of the same worker  *)
(* do to the output before it is stored.                                    *)
(***************************************************************************)
EXTENDS WorkerProcess, Redaction, WellFoundedInduction, TLAPS

\* Pids are handed out in order.
InOrder == \A p \in Pids : p >= nextPid => proc[p].kind = "free" /\ p \notin forked

\* Whoever is inside runs, or waits to be reaped; a scan sees him once.
Inside(e) == e.in => e.kind \in {"own", "zombie"}
SeenInv(x) == \A p \in Pids : /\ Inside(x.seen[p])
                              /\ x.seen[p].in => x.pc = "read" /\ p \notin x.listed
AllInside == /\ \A p \in Pids : Inside(proc[p])
             /\ \A t \in Threads : SeenInv(th[t])

\* The scan of a thread has seen p inside; or it will, or finds p gone.
Sees(x, p) == \/ x.seen[p].in
              \/ p \in x.listed /\ (proc[p].kind = "free" \/ proc[p].in)
Accounted(x) == \A r \in Session : Sees(x, r) \/ \E p \in forked : Sees(x, p)

ScanInv == \A t \in Threads : th[t].pc = "read" => Accounted(th[t])
VerdictInv == \A t \in Threads : th[t].verdict = "empty" => Session = {}

IndInv ==
    /\ TypeOK /\ InOrder /\ AllInside /\ ScanInv /\ VerdictInv
    /\ ConfirmedMeansEmpty /\ AnswersAreTrue

-----------------------------------------------------------------------------
(* What every step does *)

\* Processes end and are reaped; nobody comes.
Loses ==
    /\ proc' \in [Pids -> Entry] /\ UNCHANGED <<nextPid, forked>>
    /\ \A p \in Pids :
         \/ proc'[p] = Free
         \/ proc'[p].kind = proc[p].kind /\ proc'[p].in = proc[p].in
         \/ proc[p].kind = "own" /\ proc'[p].kind = "zombie" /\ proc'[p].in = proc[p].in

\* The rest of the state keeps its types, and neither the end of the output nor
\* an answer is taken back.
Frame ==
    /\ events' \in 0..MaxEvents /\ holder' \in Threads \cup {"nobody"}
    /\ known' \subseteq Pids /\ escaped' \subseteq Pids
    /\ shutdown' \in BOOLEAN /\ up' \in BOOLEAN /\ st' \in State
    /\ st.out = "eof" => st'.out = "eof"

LEMMA LosesSession ==
    ASSUME IndInv, Loses
    PROVE  /\ Session' \subseteq Session
           /\ InOrder'
           /\ \A p \in Pids : Inside(proc'[p])
           /\ \A p \in Pids : proc[p].kind = "free" \/ proc[p].in
                    => proc'[p].kind = "free" \/ proc'[p].in
           /\ \A x \in Activity : Accounted(x) => Accounted(x)'
  <1>1. /\ Session' \subseteq Session
        /\ \A p \in Pids : Inside(proc'[p])
        /\ \A p \in Pids : proc[p].kind = "free" \/ proc[p].in
                    => proc'[p].kind = "free" \/ proc'[p].in
    BY DEF IndInv, TypeOK, AllInside, Inside, Loses, Session, Entry, Free, Vacant
  <1>2. InOrder'
    BY DEF IndInv, TypeOK, InOrder, AllInside, Inside, Loses, Entry, Free, Vacant
  <1>3. ASSUME NEW x \in Activity, Accounted(x) PROVE Accounted(x)'
    <2>1. \A p \in Pids : Sees(x, p) => Sees(x, p)'
      BY <1>1 DEF Sees
    <2>2. Session \subseteq Pids /\ forked \subseteq Pids /\ forked' = forked
      BY DEF Session, IndInv, TypeOK, Loses
    <2> QED BY <1>1, <1>3, <2>1, <2>2 DEF Accounted
  <1> QED BY <1>1, <1>2, <1>3

\* A thread moves.  If its scan begins or goes on, it has to be shown that the
\* scan misses nobody; a verdict, a confirmation and an answer that speak of an
\* empty session have to be true.
LEMMA ThreadMoves ==
    ASSUME IndInv, Loses, Frame, NEW t \in Threads, NEW x \in Activity,
           th' = [th EXCEPT ![t] = x],
           SeenInv(x),
           x.pc = "read" => Accounted(x),
           x.verdict = "empty" => Session = {},
           st'.confirmed => Session = {},
           answer' \in [Slots -> Answer],
           \A c \in Slots :
              \/ answer'[c] = answer[c]
              \/ /\ answer'[c].status = "exited" => Session = {} /\ st'.out = "eof"
                 /\ answer'[c].confirmed /\ answer'[c].drained => Session = {}
    PROVE  IndInv'
  <1>1. Session = {} => Session' = {}
    BY LosesSession
  <1>2. TypeOK'
    BY DEF IndInv, TypeOK, Loses, Frame
  <1>3. \A u \in Threads : th'[u] = IF u = t THEN x ELSE th[u]
    BY DEF IndInv, TypeOK
  <1>4. AllInside'
    <2>1. \A u \in Threads : SeenInv(th'[u])
      BY <1>3 DEF IndInv, AllInside
    <2> QED BY <2>1, LosesSession DEF AllInside, Inside, SeenInv
  <1>5. ScanInv'
    <2>1. \A u \in Threads : th[u] \in Activity
      BY DEF IndInv, TypeOK
    <2>2. \A u \in Threads : th'[u].pc = "read" => th'[u] \in Activity /\ Accounted(th'[u])
      BY <1>3, <2>1 DEF IndInv, ScanInv
    <2>3. \A y \in Activity : Accounted(y) => Accounted(y)'
      BY LosesSession
    <2>4. SUFFICES ASSUME NEW u \in Threads, th'[u].pc = "read"
                   PROVE  Accounted(th[u])'
      BY DEF ScanInv
    <2>5. PICK y \in Activity : y = th'[u]
      BY <2>2, <2>4
    <2>6. Accounted(y)'
      BY <2>2, <2>3, <2>4, <2>5
    <2> QED BY <2>5, <2>6 DEF Accounted, Sees
  <1>6. VerdictInv'
    BY <1>1, <1>3 DEF IndInv, VerdictInv
  <1>7. ConfirmedMeansEmpty'
    BY <1>1 DEF ConfirmedMeansEmpty
  <1>8. AnswersAreTrue'
    BY <1>1 DEF IndInv, AnswersAreTrue, Frame
  <1>9. InOrder'
    BY LosesSession
  <1> QED BY <1>2, <1>4, <1>5, <1>6, <1>7, <1>8, <1>9 DEF IndInv

\* Most steps neither scan nor judge.
LEMMA ThreadWalks ==
    ASSUME IndInv, Loses, Frame, NEW t \in Threads, NEW x \in Activity,
           th' = [th EXCEPT ![t] = x],
           (x.pc # "read" /\ th[t].pc # "read") \/ x = th[t], x.seen = th[t].seen,
           x.verdict \in {th[t].verdict, "none"},
           st'.confirmed => st.confirmed,
           answer' = answer
    PROVE  IndInv'
  <1>1. SeenInv(x)
    BY DEF IndInv, AllInside, SeenInv
  <1>2. x.verdict = "empty" => Session = {}
    BY DEF IndInv, VerdictInv
  <1>3. st'.confirmed => Session = {}
    BY DEF IndInv, ConfirmedMeansEmpty
  <1>4. x.pc = "read" => Accounted(x)
    BY DEF IndInv, ScanInv
  <1>5. answer' \in [Slots -> Answer]
    BY DEF IndInv, TypeOK
  <1> QED BY <1>1, <1>2, <1>3, <1>4, <1>5, ThreadMoves

\* Steps without a thread.
LEMMA NoThread ==
    ASSUME IndInv, Loses, Frame, th' = th, st'.confirmed => st.confirmed, answer' = answer
    PROVE  IndInv'
  <1>1. "monitor" \in Threads /\ th["monitor"] \in Activity
    BY DEF IndInv, TypeOK, Threads
  <1>2. th' = [th EXCEPT !["monitor"] = th["monitor"]]
    BY DEF IndInv, TypeOK
  <1> QED BY <1>1, <1>2, ThreadWalks

\* What a step leaves alone.
LEMMA SameFrame ==
    ASSUME IndInv
    PROVE  /\ UNCHANGED <<proc, nextPid, forked>> => Loses
           /\ UNCHANGED <<events, holder, members, st, shutdown, up>> => Frame
  BY DEF IndInv, TypeOK, Loses, Frame, members

-----------------------------------------------------------------------------
(* Processes *)

\* A fork: the child is in the session only if its parent is, and then the
\* parent, which has forked now, stays there.
LEMMA ForkStep ==
    ASSUME IndInv, NEW p \in Pids, Fork(p)
    PROVE  IndInv'
  <1> DEFINE new == [kind |-> "own", ppid |-> p, in |-> proc[p].in]
  <1>1. /\ nextPid \in Pids /\ Live(p) /\ p # nextPid /\ p < nextPid
        /\ proc' = [proc EXCEPT ![nextPid] = new] /\ new \in Entry
        /\ forked' = forked \cup {p} /\ nextPid' = nextPid + 1
        /\ UNCHANGED <<events, holder, members, st, shutdown, th, answer, up>>
        /\ proc[nextPid].kind = "free" /\ nextPid \notin forked
        /\ MaxPid \in Nat
    BY WorkerAssumption DEF Fork, IndInv, TypeOK, InOrder, Pids, Entry, Live
  <1>2. TypeOK'
    <2>1. nextPid' \in 2..(MaxPid + 1)
      BY <1>1 DEF IndInv, TypeOK, Pids
    <2> QED BY <1>1, <2>1 DEF IndInv, TypeOK, members
  <1>3. InOrder'
    BY <1>1 DEF IndInv, InOrder, TypeOK, Pids
  <1>4. AllInside'
    BY <1>1 DEF IndInv, AllInside, Inside, SeenInv, TypeOK
  <1>5. /\ Session' \subseteq Session \cup {nextPid}
        /\ nextPid \in Session' => p \in Session
    BY <1>1 DEF Session, IndInv, TypeOK, Live
  <1>6. ScanInv'
    <2>1. SUFFICES ASSUME NEW t \in Threads, th[t].pc = "read", NEW r \in Session'
                   PROVE  Sees(th[t], r)' \/ \E q \in forked' : Sees(th[t], q)'
      BY <1>1 DEF ScanInv, Accounted
    <2>2. \A q \in Pids \ {nextPid} : Sees(th[t], q) => Sees(th[t], q)'
      BY <1>1 DEF Sees, IndInv, TypeOK
    <2>3. Accounted(th[t])
      BY <2>1 DEF IndInv, ScanInv
    <2>4. forked \subseteq Pids \ {nextPid} /\ forked \subseteq forked' /\ p \in forked'
      BY <1>1 DEF IndInv, TypeOK
    <2>5. CASE \E q \in forked : Sees(th[t], q)
      BY <2>2, <2>4, <2>5
    <2>6. CASE r = nextPid
      <3>1. Sees(th[t], p) \/ \E q \in forked : Sees(th[t], q)
        BY <1>5, <2>1, <2>3, <2>6 DEF Accounted
      <3> QED BY <1>1, <2>2, <2>4, <2>5, <3>1
    <2>7. CASE r # nextPid
      <3>1. r \in Session /\ r \in Pids
        BY <1>5, <2>1, <2>7 DEF Session
      <3> QED BY <2>2, <2>3, <2>5, <2>7, <3>1 DEF Accounted
    <2> QED BY <2>6, <2>7
  <1>7. Session = {} => Session' = {}
    BY <1>5
  <1>8. VerdictInv' /\ ConfirmedMeansEmpty' /\ AnswersAreTrue'
    BY <1>1, <1>7 DEF IndInv, VerdictInv, ConfirmedMeansEmpty, AnswersAreTrue
  <1> QED BY <1>2, <1>3, <1>4, <1>6, <1>8 DEF IndInv

\* A process leaves the session: no scan counts on it, because it never forked.
LEMMA SetsidStep ==
    ASSUME IndInv, ~ ParentsLeave, NEW p \in Pids, Setsid(p)
    PROVE  IndInv'
  <1>1. /\ p \notin forked /\ Live(p)
        /\ proc' = [proc EXCEPT ![p].in = FALSE]
        /\ UNCHANGED <<nextPid, forked, events, holder, members, st, shutdown, th, answer, up>>
    BY DEF Setsid
  <1>2. TypeOK'
    <2>1. proc' \in [Pids -> Entry]
      BY <1>1 DEF IndInv, TypeOK, Entry
    <2> QED BY <1>1, <2>1 DEF IndInv, TypeOK, members
  <1>3. InOrder' /\ AllInside'
    BY <1>1 DEF IndInv, InOrder, AllInside, Inside, SeenInv, TypeOK, Entry
  <1>4. Session' = Session \ {p}
    BY <1>1 DEF Session, IndInv, TypeOK, Entry
  <1>5. ScanInv'
    <2>1. SUFFICES ASSUME NEW t \in Threads, th[t].pc = "read", NEW r \in Session'
                   PROVE  Sees(th[t], r)' \/ \E q \in forked' : Sees(th[t], q)'
      BY <1>1 DEF ScanInv, Accounted
    <2>2. \A q \in Pids \ {p} : Sees(th[t], q) => Sees(th[t], q)'
      BY <1>1 DEF Sees, IndInv, TypeOK
    <2>3. Sees(th[t], r) \/ \E q \in forked : Sees(th[t], q)
      BY <1>4, <2>1 DEF IndInv, ScanInv, Accounted
    <2>4. r \in Pids \ {p} /\ forked \subseteq Pids \ {p}
      BY <1>1, <1>4, <2>1 DEF Session, IndInv, TypeOK
    <2> QED BY <1>1, <2>2, <2>3, <2>4
  <1>6. VerdictInv' /\ ConfirmedMeansEmpty' /\ AnswersAreTrue'
    BY <1>1, <1>4 DEF IndInv, VerdictInv, ConfirmedMeansEmpty, AnswersAreTrue
  <1> QED BY <1>2, <1>3, <1>5, <1>6 DEF IndInv

\* The end of a process only takes away.
LEMMA EndedLoses ==
    ASSUME IndInv, NEW p \in Pids, proc' = Ended(p), UNCHANGED <<nextPid, forked>>
    PROVE  Loses
  <1>1. 0 \in 0..MaxPid
    BY WorkerAssumption
  <1>2. Free \in Entry
    BY <1>1 DEF Free, Vacant, Entry
  <1>3. ASSUME NEW q \in Pids
        PROVE  /\ proc'[q] \in Entry
               /\ \/ proc'[q] = Free
                  \/ proc'[q].kind = proc[q].kind /\ proc'[q].in = proc[q].in
                  \/ proc[q].kind = "own" /\ proc'[q].kind = "zombie" /\ proc'[q].in = proc[q].in
    <2>1. proc[q] \in Entry
      BY DEF IndInv, TypeOK
    <2>2. CASE q # p
      BY <1>1, <2>1, <2>2 DEF Ended, Entry
    <2>3. CASE q = p
      BY <1>2, <2>1, <2>3 DEF Ended, Entry, Live
    <2> QED BY <2>2, <2>3
  <1>4. proc' \in [Pids -> Entry]
    BY <1>3 DEF Ended
  <1> QED BY <1>3, <1>4 DEF Loses

LEMMA ExitStep ==
    ASSUME IndInv, NEW p \in Pids, Exit(p)
    PROVE  IndInv'
  <1>1. Loses
    BY EndedLoses DEF Exit
  <1>2. Frame
    BY SameFrame DEF Exit
  <1> QED BY <1>1, <1>2, NoThread DEF Exit

\* A process of others takes a pid that no scan is about to read.
LEMMA ReuseStep ==
    ASSUME IndInv, NEW p \in Pids, Reuse(p)
    PROVE  IndInv'
  <1>1. /\ proc[p].kind = "free" /\ p < nextPid
        /\ \A t \in Threads : p \notin th[t].listed
        /\ events' \in 0..MaxEvents
        /\ proc' = [proc EXCEPT ![p] = Vacant("stranger")]
        /\ UNCHANGED <<nextPid, forked, holder, members, st, shutdown, th, answer, up>>
    BY WorkerAssumption DEF Reuse, Event, IndInv, TypeOK
  <1>2. Vacant("stranger") \in Entry /\ Vacant("stranger").in = FALSE
        /\ Vacant("stranger").kind = "stranger"
    BY WorkerAssumption DEF Vacant, Entry
  <1>3. TypeOK'
    BY <1>1, <1>2 DEF IndInv, TypeOK, members
  <1>4. InOrder' /\ AllInside'
    <2>1. nextPid \in Nat
      BY DEF IndInv, TypeOK
    <2> QED BY <1>1, <1>2, <2>1 DEF IndInv, InOrder, AllInside, Inside, SeenInv, TypeOK, Pids
  <1>5. Session' \subseteq Session
    BY <1>1, <1>2 DEF Session, IndInv, TypeOK
  <1>6. ScanInv'
    <2>1. SUFFICES ASSUME NEW t \in Threads, th[t].pc = "read", NEW r \in Session'
                   PROVE  Sees(th[t], r)' \/ \E q \in forked' : Sees(th[t], q)'
      BY <1>1 DEF ScanInv, Accounted
    <2>2. \A q \in Pids : Sees(th[t], q) => Sees(th[t], q)'
      BY <1>1 DEF Sees, IndInv, TypeOK
    <2>3. Sees(th[t], r) \/ \E q \in forked : Sees(th[t], q)
      BY <1>5, <2>1 DEF IndInv, ScanInv, Accounted
    <2>4. r \in Pids /\ forked \subseteq Pids
      BY <1>5, <2>1 DEF Session, IndInv, TypeOK
    <2> QED BY <1>1, <2>2, <2>3, <2>4
  <1>7. VerdictInv' /\ ConfirmedMeansEmpty' /\ AnswersAreTrue'
    BY <1>1, <1>5 DEF IndInv, VerdictInv, ConfirmedMeansEmpty, AnswersAreTrue
  <1> QED BY <1>3, <1>4, <1>6, <1>7 DEF IndInv

-----------------------------------------------------------------------------
(* The scan *)

LEMMA ListStep ==
    ASSUME IndInv, NEW t \in Threads, List(t)
    PROVE  IndInv'
  <1> DEFINE all == {p \in Pids : proc[p].kind # "free"}
             x == [th[t] EXCEPT !.pc = "read", !.listed = all]
  <1>1. th[t] \in Activity /\ th \in [Threads -> Activity]
    BY DEF IndInv, TypeOK
  <1>2. x \in Activity /\ x.seen = th[t].seen /\ x.listed = all /\ x.verdict = th[t].verdict
    BY <1>1 DEF Activity, Steps
  <1>3. th' = [th EXCEPT ![t] = x]
    BY <1>1 DEF List
  <1>4. Loses /\ Frame /\ answer' = answer /\ st' = st
    BY SameFrame DEF List, os
  <1>5. Accounted(x)
    <2>1. \A r \in Session : r \in x.listed /\ proc[r].in
      BY <1>2 DEF Session
    <2> QED BY <2>1 DEF Accounted, Sees
  <1>6. SeenInv(x)
    BY <1>2 DEF IndInv, AllInside, SeenInv, List, At
  <1>7. x.verdict = "empty" => Session = {}
    BY <1>2 DEF IndInv, VerdictInv
  <1>8. st'.confirmed => Session = {}
    BY <1>4 DEF IndInv, ConfirmedMeansEmpty
  <1>9. answer' \in [Slots -> Answer]
    BY <1>4 DEF IndInv, TypeOK
  <1> HIDE DEF x
  <1> QED BY <1>2, <1>3, <1>4, <1>5, <1>6, <1>7, <1>8, <1>9, ThreadMoves

\* A set of naturals that is not empty has a least element.
LEMMA LeastPid ==
    ASSUME NEW S \in SUBSET Nat, S # {}
    PROVE  Min(S) \in S
  <1>1. PICK m \in S : \A n \in S : ~(<<n, m>> \in OpToRel(<, Nat))
    BY NatLessThanWellFounded, WFMin
  <1>2. \A n \in S : ~ (n < m)
    BY <1>1 DEF OpToRel
  <1>3. \A n \in S : m =< n
    BY <1>2
  <1> QED BY <1>3 DEF Min

\* Nothing a thread calls returns into the middle of a scan.
LEMMA ReturnsAreSteps ==
    \A r \in Returns : r \in Steps /\ r \notin {"list", "read", "set"}
  BY DEF Returns, Steps

\* The end of a scan.
LEMMA EndScanType ==
    ASSUME IndInv, NEW t \in Threads, NEW v \in Verdicts
    PROVE  /\ EndScan(t, v) \in Activity
           /\ EndScan(t, v).pc # "read" /\ EndScan(t, v).verdict = v
           /\ SeenInv(EndScan(t, v))
  <1>1. th[t] \in Activity
    BY DEF IndInv, TypeOK
  <1>2. NothingSeen \in [Pids -> Entry] /\ \A p \in Pids : ~ NothingSeen[p].in
    BY WorkerAssumption DEF NothingSeen, Free, Vacant, Entry
  <1>3. th[t].to \in Returns /\ th[t].to \in Steps /\ th[t].to # "read"
    BY <1>1, ReturnsAreSteps DEF Activity
  <1>4. "set" \in Steps /\ "idle" \in Returns
    BY DEF Steps, Returns
  <1>5. EndScan(t, v) \in Activity
    BY <1>1, <1>2, <1>3, <1>4 DEF EndScan, Activity
  <1>6. /\ EndScan(t, v).pc # "read" /\ EndScan(t, v).verdict = v
        /\ EndScan(t, v).seen = NothingSeen
    BY <1>1, <1>3 DEF EndScan, Activity
  <1> QED BY <1>2, <1>5, <1>6 DEF SeenInv, Inside

\* A scan ends with a verdict that is not "empty", or is right about it.
LEMMA ScanEnds ==
    ASSUME IndInv, NEW t \in Threads, NEW v \in Verdicts, v = "empty" => Session = {},
           th' = [th EXCEPT ![t] = EndScan(t, v)],
           known' \subseteq Pids, escaped' \subseteq Pids,
           UNCHANGED <<os, holder, st, shutdown, answer, up>>
    PROVE  IndInv'
  <1>1. PICK x \in Activity : x = EndScan(t, v)
    BY EndScanType
  <1>2. x.pc # "read" /\ x.verdict = v /\ SeenInv(x)
    BY <1>1, EndScanType
  <1>3. Loses
    BY SameFrame DEF os
  <1>4. Frame
    BY DEF IndInv, TypeOK, Frame, os
  <1>5. st'.confirmed => Session = {}
    BY DEF IndInv, ConfirmedMeansEmpty
  <1>6. answer' \in [Slots -> Answer]
    BY DEF IndInv, TypeOK
  <1> QED BY <1>1, <1>2, <1>3, <1>4, <1>5, <1>6, ThreadMoves

LEMMA ReadStep ==
    ASSUME IndInv, NEW t \in Threads, Read(t)
    PROVE  IndInv'
  <1> DEFINE p == Min(th[t].listed)
             x == [th[t] EXCEPT !.listed = th[t].listed \ {p}, !.seen[p] = proc[p]]
  <1>1. th[t] \in Activity /\ th \in [Threads -> Activity] /\ proc \in [Pids -> Entry]
    BY DEF IndInv, TypeOK
  <1>2. p \in th[t].listed /\ p \in Pids
    <2>1. th[t].listed \in SUBSET Nat /\ th[t].listed # {} /\ th[t].listed \subseteq Pids
      BY <1>1, WorkerAssumption DEF Activity, Pids, Read
    <2> QED BY <2>1, LeastPid
  <1>3. UNCHANGED <<os, holder, members, st, shutdown, answer, up>> /\ th[t].pc = "read"
    BY DEF Read, At
  <1> HIDE DEF p
  <1>4. CASE proc[p].kind = "free"
    <2>1. th' = [th EXCEPT ![t] = EndScan(t, "unknown")]
      BY <1>4 DEF Read, p
    <2>2. "unknown" \in Verdicts /\ known' \subseteq Pids /\ escaped' \subseteq Pids
      BY <1>3 DEF Verdicts, IndInv, TypeOK, members
    <2> QED BY <1>3, <2>1, <2>2, ScanEnds
  <1>5. CASE proc[p].kind # "free"
    <2>1. th' = [th EXCEPT ![t].listed = @ \ {p}, ![t].seen[p] = proc[p]]
      BY <1>5 DEF Read, p
    <2>2. th' = [th EXCEPT ![t] = x]
      BY <1>1, <2>1
    <2>3. /\ x \in Activity /\ x.pc = th[t].pc /\ x.verdict = th[t].verdict
          /\ x.listed = th[t].listed \ {p}
          /\ x.seen = [th[t].seen EXCEPT ![p] = proc[p]]
      BY <1>1, <1>2 DEF Activity
    <2>4. th[t].seen \in [Pids -> Entry]
      BY <1>1 DEF Activity
    <2> HIDE DEF x
    <2>5. SeenInv(x)
      BY <1>2, <1>3, <2>3, <2>4 DEF IndInv, AllInside, SeenInv
    <2>6. Accounted(x)
      <3>1. \A q \in Pids : Sees(th[t], q) => Sees(x, q)
        <4>1. \A q \in Pids \ {p} : Sees(th[t], q) => Sees(x, q)
          BY <1>2, <2>3, <2>4 DEF Sees
        <4>2. Sees(th[t], p) => proc[p].in
          BY <1>2, <1>5 DEF Sees, IndInv, AllInside, SeenInv
        <4>3. x.seen[p] = proc[p]
          BY <1>2, <2>3, <2>4
        <4> QED BY <4>1, <4>2, <4>3 DEF Sees
      <3>2. Accounted(th[t]) /\ Session \subseteq Pids /\ forked \subseteq Pids
        BY <1>3 DEF IndInv, ScanInv, Session, TypeOK
      <3> QED BY <3>1, <3>2 DEF Accounted
    <2>7. Loses /\ Frame
      BY <1>3, SameFrame DEF os
    <2>8. x.verdict = "empty" => Session = {}
      BY <2>3 DEF IndInv, VerdictInv
    <2>9. st'.confirmed => Session = {}
      BY <1>3 DEF IndInv, ConfirmedMeansEmpty
    <2>10. answer' \in [Slots -> Answer]
      BY <1>3 DEF IndInv, TypeOK
    <2> QED BY <1>3, <2>2, <2>3, <2>5, <2>6, <2>7, <2>8, <2>9, <2>10, ThreadMoves
  <1> QED BY <1>4, <1>5

\* What containment_report_from_scan remembers, and when it says "empty".
LEMMA JudgeType ==
    ASSUME IndInv, NEW seen \in [Pids -> Entry]
    PROVE  /\ Judge(seen).known \subseteq Pids /\ Judge(seen).escaped \subseteq Pids
           /\ Judge(seen).verdict \in Verdicts
           /\ Judge(seen).verdict = "empty"
                => \A p \in Pids : ~ (seen[p].kind \in {"own", "zombie"} /\ seen[p].in)
  <1> DEFINE down == Descendants(seen)
  <1>1. down \subseteq Pids
    BY DEF Descendants
  <1>2. known \subseteq Pids /\ escaped \subseteq Pids
    BY DEF IndInv, TypeOK
  <1> HIDE DEF down
  <1>3. Judge(seen) =
         LET reused == {p \in escaped : seen[p].kind = "stranger"}
             left == {p \in escaped : \/ seen[p].kind # "free"
                                      \/ \E r \in reused : r < p}
             inside == {p \in Pids : seen[p].kind \in {"own", "zombie"} /\ seen[p].in}
             out == left \cup {p \in down : ~ seen[p].in}
             Report(k, e, v) == [known |-> k, escaped |-> e, verdict |-> v]
         IN  IF reused # {} \/ seen[Root].kind = "stranger" THEN Report(known, left, "unknown")
             ELSE IF seen[Root].kind \in {"own", "zombie"}
             THEN Report(known \cup inside, out, IF out # {} THEN "escape" ELSE "remaining")
             ELSE Report(known, left, IF ~ (inside \subseteq known) THEN "unknown"
                                      ELSE IF left # {}             THEN "escape"
                                      ELSE IF inside = {}           THEN "empty"
                                      ELSE "remaining")
    BY DEF Judge, down
  <1> QED BY <1>1, <1>2, <1>3 DEF Verdicts

\* The report of a scan that read everybody it listed: nobody is inside only if
\* nobody is.
LEMMA ReportScanStep ==
    ASSUME IndInv, NEW t \in Threads, ReportScan(t)
    PROVE  IndInv'
  <1>1. th[t].seen \in [Pids -> Entry]
    BY DEF IndInv, TypeOK, Activity
  <1> DEFINE r == Judge(th[t].seen)
  <1>2. /\ known' = r.known /\ escaped' = r.escaped
        /\ th' = [th EXCEPT ![t] = EndScan(t, r.verdict)]
        /\ th[t].pc = "read" /\ th[t].listed = {}
        /\ UNCHANGED <<os, holder, st, shutdown, answer, up>>
    BY DEF ReportScan, At
  <1>3. r.verdict = "empty" => Session = {}
    <2>1. SUFFICES ASSUME r.verdict = "empty", NEW q \in Session PROVE FALSE
      OBVIOUS
    <2>2. \A p \in Pids : ~ th[t].seen[p].in
      BY <1>1, <2>1, JudgeType DEF IndInv, AllInside, SeenInv, Inside
    <2>3. PICK p \in Pids : Sees(th[t], p)
      BY <1>2, <2>1 DEF IndInv, ScanInv, Accounted, Session, TypeOK
    <2> QED BY <1>2, <2>2, <2>3 DEF Sees
  <1>4. r.known \subseteq Pids /\ r.escaped \subseteq Pids /\ r.verdict \in Verdicts
    BY <1>1, JudgeType
  <1> HIDE DEF r
  <1> QED BY <1>2, <1>3, <1>4, ScanEnds

\* The verdict of a scan becomes `confirmed`, however much later.
LEMMA RefreshStep ==
    ASSUME IndInv, NEW t \in Threads, Refresh(t)
    PROVE  IndInv'
  <1> DEFINE x == [th[t] EXCEPT !.pc = th[t].to, !.to = "idle", !.refresh = FALSE,
                     !.verdict = IF th[t].to = "hardCheck" THEN th[t].verdict ELSE "none"]
  <1>1. th[t] \in Activity /\ th \in [Threads -> Activity]
    BY DEF IndInv, TypeOK
  <1>2. /\ x \in Activity /\ x.seen = th[t].seen /\ x.pc # "read"
        /\ x.verdict \in {th[t].verdict, "none"}
    <2>1. th[t].to \in Returns /\ th[t].to \in Steps /\ th[t].to # "read" /\ "idle" \in Returns
      BY <1>1, ReturnsAreSteps DEF Activity, Returns
    <2>2. "none" \in Verdicts
      BY DEF Verdicts
    <2> QED BY <1>1, <2>1, <2>2 DEF Activity
  <1>3. th' = [th EXCEPT ![t] = x]
    BY <1>1 DEF Refresh
  <1>4. Loses /\ answer' = answer
    BY SameFrame DEF Refresh, os
  <1>5. Frame
    BY DEF IndInv, TypeOK, Frame, Refresh, os, members, State
  <1>6. st'.confirmed => Session = {}
    BY DEF IndInv, TypeOK, State, Refresh, VerdictInv
  <1>7. SeenInv(x)
    BY <1>2 DEF IndInv, AllInside, SeenInv, Refresh, At
  <1>8. x.verdict = "empty" => Session = {}
    BY <1>2 DEF IndInv, VerdictInv
  <1>9. answer' \in [Slots -> Answer]
    BY <1>4 DEF IndInv, TypeOK
  <1> HIDE DEF x
  <1> QED BY <1>2, <1>3, <1>4, <1>5, <1>6, <1>7, <1>8, <1>9, ThreadMoves

-----------------------------------------------------------------------------
(* The walks of a thread *)

\* The ways a thread moves on outside a scan: to another step of its own, into
\* a scan, and into observe_exit.  Each is a walk.
Walk(t, x) ==
    /\ x \in Activity /\ th' = [th EXCEPT ![t] = x]
    /\ x.pc # "read" /\ x.seen = th[t].seen /\ x.verdict \in {th[t].verdict, "none"}

LEMMA GotoWalks ==
    ASSUME IndInv, NEW t \in Threads, NEW pc \in Returns, Goto(t, pc)
    PROVE  \E x : Walk(t, x)
  <1>1. th[t] \in Activity /\ th \in [Threads -> Activity] /\ pc \in Steps /\ pc # "read"
    BY ReturnsAreSteps DEF IndInv, TypeOK
  <1> DEFINE x == [th[t] EXCEPT !.pc = pc]
  <1>2. Walk(t, x)
    BY <1>1 DEF Walk, Goto, Activity
  <1> QED BY <1>2

LEMMA BeginScanWalks ==
    ASSUME IndInv, NEW t \in Threads, NEW to \in Returns, NEW refresh \in BOOLEAN,
           BeginScan(t, to, refresh)
    PROVE  \E x : Walk(t, x)
  <1>1. th[t] \in Activity /\ th \in [Threads -> Activity]
    BY DEF IndInv, TypeOK
  <1>2. "idle" \in Returns /\ "list" \in Steps /\ "none" \in Verdicts
    BY DEF Returns, Steps, Verdicts
  <1> DEFINE x == [th[t] EXCEPT !.pc = "list", !.to = to, !.refresh = refresh, !.verdict = "none",
                                !.after = IF to = "observed" THEN th[t].after ELSE "idle"]
  <1>3. x \in Activity /\ x.pc # "read" /\ x.seen = th[t].seen /\ x.verdict = "none"
    BY <1>1, <1>2 DEF Activity
  <1>4. th' = [th EXCEPT ![t] = x]
    BY <1>1 DEF BeginScan
  <1> QED BY <1>3, <1>4 DEF Walk

LEMMA ObserveWalks ==
    ASSUME IndInv, NEW t \in Threads, NEW after \in Returns, Observe(t, after)
    PROVE  \E x : Walk(t, x)
  <1>1. th[t] \in Activity /\ th \in [Threads -> Activity]
    BY DEF IndInv, TypeOK
  <1>2. "observe" \in Steps /\ "none" \in Verdicts
    BY DEF Returns, Steps, Verdicts
  <1> DEFINE x == [th[t] EXCEPT !.pc = "observe", !.after = after, !.verdict = "none"]
  <1>3. x \in Activity /\ x.pc # "read" /\ x.seen = th[t].seen /\ x.verdict = "none"
    BY <1>1, <1>2 DEF Activity
  <1>4. th' = [th EXCEPT ![t] = x]
    BY <1>1 DEF Observe
  <1> QED BY <1>3, <1>4 DEF Walk

LEMMA BeginWalks ==
    ASSUME IndInv, NEW t \in Threads, NEW ret \in Returns, Begin(t, ret)
    PROVE  \E x : Walk(t, x)
  <1>1. th[t] \in Activity /\ th \in [Threads -> Activity] /\ "terminate" \in Steps
    BY DEF IndInv, TypeOK, Steps, Returns
  <1> DEFINE x == [th[t] EXCEPT !.pc = "terminate", !.ret = ret]
  <1>2. Walk(t, x)
    BY <1>1 DEF Walk, Begin, Activity
  <1> QED BY <1>2

\* A walk keeps the invariant, whatever ends or is recorded with it.
LEMMA WalkKeepsInv ==
    ASSUME IndInv, Loses, Frame, NEW t \in Threads, th[t].pc # "read", \E x : Walk(t, x),
           st'.confirmed => st.confirmed, answer' = answer
    PROVE  IndInv'
  <1>1. PICK x : Walk(t, x)
    OBVIOUS
  <1> QED BY <1>1, ThreadWalks DEF Walk

\* The child that is reaped is gone.
LEMMA ReapLoses ==
    ASSUME IndInv, proc' = [proc EXCEPT ![Root] = Free], UNCHANGED <<nextPid, forked>>
    PROVE  Loses
  <1>1. Free \in Entry /\ Root \in Pids
    BY WorkerAssumption DEF Free, Vacant, Entry, Root, Pids
  <1> QED BY <1>1 DEF IndInv, TypeOK, Loses

\* A signal ends the process that has the pid of the child, or nobody.
LEMMA SignalLoses ==
    ASSUME IndInv, NEW must \in BOOLEAN, Signal(must), UNCHANGED <<nextPid, forked>>
    PROVE  Loses
  <1>1. Root \in Pids
    BY WorkerAssumption DEF Root, Pids
  <1>2. CASE proc' = Ended(Root)
    BY <1>1, <1>2, EndedLoses
  <1>3. CASE UNCHANGED proc
    BY <1>3, SameFrame
  <1> QED BY <1>2, <1>3 DEF Signal

\* Where a thread stands is where it may return to.
LEMMA OwnReturns ==
    ASSUME IndInv, NEW t \in Threads
    PROVE  th[t].to \in Returns /\ th[t].after \in Returns /\ th[t].ret \in Returns
  BY DEF IndInv, TypeOK, Activity

-----------------------------------------------------------------------------
(* The steps of a thread *)

LEMMA ObserveExitStep ==
    ASSUME IndInv, NEW t \in Threads, ObserveExit(t)
    PROVE  IndInv'
  <1>1. /\ th[t].pc # "read" /\ answer' = answer
        /\ UNCHANGED <<nextPid, forked, events, holder, members, shutdown, up>>
    BY DEF ObserveExit, At
  <1>2. "observed" \in Returns /\ TRUE \in BOOLEAN /\ "idle" \in Returns
    BY DEF Returns
  <1>3. CASE Reap(t, "observed")
    <2>1. Loses
      BY <1>1, <1>3, ReapLoses DEF Reap
    <2>2. Frame /\ (st'.confirmed => st.confirmed)
      BY <1>1, <1>3 DEF Reap, IndInv, TypeOK, State, Frame, members
    <2>3. \E x : Walk(t, x)
      BY <1>2, <1>3, BeginScanWalks DEF Reap
    <2> QED BY <1>1, <2>1, <2>2, <2>3, WalkKeepsInv
  <1>4. CASE UNCHANGED <<proc, st>> /\ BeginScan(t, th[t].after, TRUE)
    <2>1. \E x : Walk(t, x)
      BY <1>4, OwnReturns, BeginScanWalks
    <2> QED BY <1>1, <1>4, <2>1, SameFrame, WalkKeepsInv
  <1>5. CASE /\ UNCHANGED <<proc, st>>
             /\ th' = [th EXCEPT ![t].pc = th[t].after, ![t].after = "idle"]
    <2> DEFINE x == [th[t] EXCEPT !.pc = th[t].after, !.after = "idle"]
    <2>1. th[t] \in Activity /\ th \in [Threads -> Activity]
      BY DEF IndInv, TypeOK
    <2>2. th[t].after \in Steps /\ th[t].after # "read"
      BY OwnReturns, ReturnsAreSteps
    <2>3. Walk(t, x)
      <3>1. x \in Activity /\ x.pc # "read" /\ x.seen = th[t].seen /\ x.verdict = th[t].verdict
        BY <1>2, <2>1, <2>2 DEF Activity
      <3>2. th' = [th EXCEPT ![t] = x]
        BY <1>5, <2>1
      <3> QED BY <3>1, <3>2 DEF Walk
    <2> QED BY <1>1, <1>5, <2>3, SameFrame, WalkKeepsInv
  <1> QED BY <1>3, <1>4, <1>5 DEF ObserveExit

LEMMA ObservedStep ==
    ASSUME IndInv, NEW t \in Threads, Observed(t)
    PROVE  IndInv'
  <1>1. \E x : Walk(t, x)
    BY OwnReturns, BeginScanWalks DEF Observed
  <1> QED BY <1>1, SameFrame, WalkKeepsInv DEF Observed, At, os

LEMMA TerminateStep ==
    ASSUME IndInv, NEW t \in Threads, Terminate(t)
    PROVE  IndInv'
  <1>1. \E x : Walk(t, x)
    <2>1. "sigterm" \in Returns
      BY DEF Returns
    <2> QED BY <2>1, OwnReturns, GotoWalks DEF Terminate
  <1>2. Frame /\ (st'.confirmed => st.confirmed)
    BY DEF Terminate, IndInv, TypeOK, State, Frame, members, os
  <1> QED BY <1>1, <1>2, SameFrame, WalkKeepsInv DEF Terminate, At, os

LEMMA SignalStep ==
    ASSUME IndInv, NEW t \in Threads, SendTerm(t) \/ SendKill(t)
    PROVE  IndInv'
  <1>1. Loses
    BY SignalLoses DEF SendTerm, SendKill
  <1>2. \E x : Walk(t, x)
    <2>1. "grace" \in Returns /\ "hard" \in Returns
      BY DEF Returns
    <2> QED BY <2>1, BeginScanWalks DEF SendTerm, SendKill
  <1>3. Frame
    BY SameFrame DEF SendTerm, SendKill
  <1> QED BY <1>1, <1>2, <1>3, WalkKeepsInv DEF SendTerm, SendKill, At

LEMMA WaitingStep ==
    ASSUME IndInv, NEW t \in Threads, Grace(t) \/ Hard(t) \/ Late(t)
    PROVE  IndInv'
  <1>1. {"sigkill", "grace", "graceCheck", "hardScan", "hardCheck", "hard", "lastScan"} \subseteq Returns
    BY DEF Returns
  <1>2. \E x : Walk(t, x)
    <2>1. CASE Grace(t)
      BY <1>1, <2>1, ObserveWalks, GotoWalks DEF Grace
    <2>2. CASE Hard(t)
      BY <1>1, <2>2, ObserveWalks, GotoWalks, BeginScanWalks, OwnReturns DEF Hard
    <2>3. CASE Late(t)
      BY <1>1, <2>3, ObserveWalks, GotoWalks DEF Late
    <2> QED BY <2>1, <2>2, <2>3
  <1>3. UNCHANGED <<os, holder, members, st, shutdown, answer, up>> /\ th[t].pc # "read"
    BY DEF Grace, Hard, Late, At
  <1> QED BY <1>2, <1>3, SameFrame, WalkKeepsInv DEF os

LEMMA WaitChildStep ==
    ASSUME IndInv, NEW t \in Threads, WaitChild(t) \/ Waited(t)
    PROVE  IndInv'
  <1>1. {"waited", "waiting"} \subseteq Returns
    BY DEF Returns
  <1>2. CASE WaitChild(t)
    <2>1. \E x : Walk(t, x)
      BY <1>1, <1>2, GotoWalks DEF WaitChild
    <2>2. Frame
      BY <1>2 DEF WaitChild, IndInv, TypeOK, Frame, members, os
    <2> QED BY <1>2, <2>1, <2>2, SameFrame, WalkKeepsInv DEF WaitChild, At, os
  <1>3. CASE Waited(t)
    <2>1. Loses
      BY <1>3, ReapLoses DEF Waited, Reap
    <2>2. \E x : Walk(t, x)
      BY <1>1, <1>3, BeginScanWalks DEF Waited, Reap
    <2>3. Frame /\ (st'.confirmed => st.confirmed)
      BY <1>3 DEF Waited, Reap, IndInv, TypeOK, State, Frame, members
    <2> QED BY <1>3, <2>1, <2>2, <2>3, WalkKeepsInv DEF Waited, At
  <1> QED BY <1>2, <1>3

-----------------------------------------------------------------------------
(* The monitor, the calls and main *)

\* update_reader_drain_state only ever gives up on the readers.
LEMMA DrainedKeeps ==
    ASSUME IndInv
    PROVE  Drained(st) \in State /\ Drained(st).confirmed = st.confirmed /\ Drained(st).out = st.out
  BY DEF IndInv, TypeOK, State, Drained

LEMMA MonitorStep ==
    ASSUME IndInv, Monitor
    PROVE  IndInv'
  <1>1. /\ "monitor" \in Threads /\ {"done", "monitorLoop", "monitorDrain"} \subseteq Returns
    BY DEF Threads, Returns
  <1>2. \E x : Walk("monitor", x)
    BY <1>1, GotoWalks, BeginWalks, ObserveWalks DEF Monitor
  <1>3. st' = Drained(st) \/ st' = st
    BY DEF Monitor
  <1>4. Frame /\ (st'.confirmed => st.confirmed)
    BY <1>3, DrainedKeeps DEF Monitor, IndInv, TypeOK, Frame, members, os
  <1> QED BY <1>1, <1>2, <1>4, SameFrame, WalkKeepsInv DEF Monitor, At, os

\* A thread that takes up something new.
LEMMA IdleType ==
    /\ Idle \in Activity /\ \A p \in Pids : ~ Idle.seen[p].in
    /\ Idle.verdict = "none" /\ Idle.pc = "idle" /\ Idle.listed = {}
  <1>1. NothingSeen \in [Pids -> Entry] /\ \A p \in Pids : ~ NothingSeen[p].in
    BY WorkerAssumption DEF NothingSeen, Free, Vacant, Entry
  <1>2. "idle" \in Returns /\ "idle" \in Steps /\ "none" \in Verdicts
    BY DEF Returns, Steps, Verdicts
  <1> QED BY <1>1, <1>2 DEF Idle, Activity

\* A call that is accepted or answered.
LEMMA Afresh ==
    ASSUME IndInv, NEW c \in Slots, NEW x \in Activity, th' = [th EXCEPT ![c] = x],
           x.pc # "read", x.seen = Idle.seen, x.verdict = "none",
           UNCHANGED <<os, holder, members, up>>, shutdown' \in BOOLEAN,
           st' \in State, st'.confirmed = st.confirmed, st'.out = st.out,
           answer' \in [Slots -> Answer],
           \A d \in Slots :
              \/ answer'[d] = answer[d]
              \/ /\ answer'[d].status = "exited" => Session = {} /\ st'.out = "eof"
                 /\ answer'[d].confirmed /\ answer'[d].drained => Session = {}
    PROVE  IndInv'
  <1>1. c \in Threads
    BY DEF Threads
  <1>2. Loses
    BY SameFrame DEF os
  <1>3. Frame
    BY DEF Frame, IndInv, TypeOK, os, members
  <1>4. SeenInv(x)
    BY IdleType DEF SeenInv, Inside
  <1>5. st'.confirmed => Session = {}
    BY DEF IndInv, ConfirmedMeansEmpty
  <1> QED BY <1>1, <1>2, <1>3, <1>4, <1>5, ThreadMoves

LEMMA CallStep ==
    ASSUME IndInv, NEW c \in Slots, Call(c)
    PROVE  IndInv'
  <1>1. PICK op \in Operations \ {"output"} :
          LET call == [Idle EXCEPT !.op = op] IN
          /\ th' = [th EXCEPT ![c] =
               CASE op = "rollback" -> [call EXCEPT !.pc = "main"]
                 [] op = "stop" \/ (op = "shutdown" /\ ~ st.confirmed) ->
                      [call EXCEPT !.pc = "terminate", !.ret = "wait"]
                 [] OTHER -> [call EXCEPT !.pc = "observe", !.after = "snapshotDrain"]]
          /\ shutdown' = (op = "rollback")
    BY DEF Call
  <1>2. {"main", "terminate", "wait", "observe", "snapshotDrain"} \subseteq Returns
        /\ {"main", "terminate", "observe"} \subseteq Steps
    BY DEF Returns, Steps
  <1> DEFINE x1 == [Idle EXCEPT !.op = op, !.pc = "main"]
             x2 == [Idle EXCEPT !.op = op, !.pc = "terminate", !.ret = "wait"]
             x3 == [Idle EXCEPT !.op = op, !.pc = "observe", !.after = "snapshotDrain"]
  <1>3. \A x \in {x1, x2, x3} :
           x \in Activity /\ x.pc # "read" /\ x.seen = Idle.seen /\ x.verdict = "none"
    BY <1>2, IdleType DEF Activity
  <1>4. \E x \in {x1, x2, x3} : th' = [th EXCEPT ![c] = x]
    BY <1>1, IdleType DEF Activity
  <1>5. shutdown' \in BOOLEAN
    BY <1>1
  <1>6. answer' \in [Slots -> Answer] /\ st \in State
    BY DEF Call, IndInv, TypeOK
  <1> HIDE DEF x1, x2, x3
  <1> QED BY <1>3, <1>4, <1>5, <1>6, Afresh DEF Call

LEMMA OutputEndsStep ==
    ASSUME IndInv, NEW c \in Slots, OutputEnds(c)
    PROVE  IndInv'
  <1> DEFINE x == [Idle EXCEPT !.op = "output", !.pc = "terminate", !.ret = "done"]
  <1>1. {"terminate", "done"} \subseteq Returns /\ "terminate" \in Steps
    BY DEF Returns, Steps
  <1>2. x \in Activity /\ x.pc # "read" /\ x.seen = Idle.seen /\ x.verdict = "none"
    BY <1>1, IdleType DEF Activity, OutputEnds
  <1>3. st' \in State /\ st'.confirmed = st.confirmed /\ st'.out = st.out
    BY DEF OutputEnds, IndInv, TypeOK, State
  <1>4. answer' \in [Slots -> Answer] /\ answer' = answer /\ shutdown' \in BOOLEAN
    BY DEF OutputEnds, IndInv, TypeOK
  <1>5. th' = [th EXCEPT ![c] = x]
    BY DEF OutputEnds
  <1> HIDE DEF x
  <1> QED BY <1>2, <1>3, <1>4, <1>5, Afresh DEF OutputEnds

LEMMA SlotWalkStep ==
    ASSUME IndInv, NEW c \in Slots, AfterWait(c) \/ SnapshotDrain(c) \/ MainEnds(c)
    PROVE  IndInv'
  <1>1. /\ c \in Threads
        /\ {"snapshotDrain", "done", "snapshot", "waited", "wait"} \subseteq Returns
    BY DEF Threads, Returns
  <1>2. CASE AfterWait(c)
    <2>1. \E x : Walk(c, x)
      BY <1>1, <1>2, ObserveWalks, GotoWalks DEF AfterWait
    <2>2. Frame
      BY <1>2 DEF AfterWait, IndInv, TypeOK, Frame, members, os
    <2> QED BY <1>1, <1>2, <2>1, <2>2, SameFrame, WalkKeepsInv DEF AfterWait, At, os
  <1>3. CASE SnapshotDrain(c)
    <2>1. \E x : Walk(c, x)
      BY <1>1, <1>3, BeginScanWalks DEF SnapshotDrain
    <2>2. Frame /\ (st'.confirmed => st.confirmed)
      BY <1>3, DrainedKeeps DEF SnapshotDrain, IndInv, TypeOK, Frame, members, os
    <2> QED BY <1>1, <1>3, <2>1, <2>2, SameFrame, WalkKeepsInv DEF SnapshotDrain, At, os
  <1>4. CASE MainEnds(c)
    <2>1. \E x : Walk(c, x)
      BY <1>1, <1>4, GotoWalks, BeginWalks DEF MainEnds
    <2> QED BY <1>1, <1>4, <2>1, SameFrame, WalkKeepsInv DEF MainEnds, At, os
  <1> QED BY <1>2, <1>3, <1>4

LEMMA SnapshotAgainStep ==
    ASSUME IndInv, NEW c \in Slots, NEW last \in BOOLEAN, SnapshotAgain(c, last)
    PROVE  IndInv'
  <1> DEFINE x == [th[c] EXCEPT !.pc = "observe", !.after = "snapshotDrain",
                                !.verdict = "none", !.last = last]
  <1>1. c \in Threads /\ th[c] \in Activity /\ th \in [Threads -> Activity]
    BY DEF Threads, IndInv, TypeOK
  <1>2. "observe" \in Steps /\ "snapshotDrain" \in Returns /\ "none" \in Verdicts
    BY DEF Steps, Returns, Verdicts
  <1>3. Walk(c, x)
    <2>1. x \in Activity /\ x.pc # "read" /\ x.seen = th[c].seen /\ x.verdict = "none"
      BY <1>1, <1>2 DEF Activity
    <2>2. th' = [th EXCEPT ![c] = x]
      BY <1>1 DEF SnapshotAgain
    <2> QED BY <2>1, <2>2 DEF Walk
  <1> QED BY <1>1, <1>3, SameFrame, WalkKeepsInv DEF SnapshotAgain, At, os

\* An answer joins the state with the report before it; both are about a session
\* that cannot fill up again.
LEMMA SnapshotStep ==
    ASSUME IndInv, NEW c \in Slots, Snapshot(c)
    PROVE  IndInv'
  <1> DEFINE status == Status(st, th[c].verdict)
             told == [status |-> status, confirmed |-> st.confirmed,
                      exited |-> st.rootExited, drained |-> th[c].verdict = "empty"]
             x1 == [Idle EXCEPT !.pc = "main", !.op = "main"]
             x2 == [Idle EXCEPT !.pc = "done", !.op = th[c].op]
  <1>1. c \in Threads /\ th[c] \in Activity /\ st \in State /\ answer \in [Slots -> Answer]
    BY DEF Threads, IndInv, TypeOK
  <1>2. status \in {"running", "exited", "lost"}
    BY DEF Status
  <1>3. status = "exited" => st.confirmed /\ st.out = "eof"
    BY <1>1 DEF Status, Terminal, State
  <1>4. told \in Answer
    BY <1>1, <1>2 DEF Answer, State
  <1>5. st.confirmed => Session = {}
    BY DEF IndInv, ConfirmedMeansEmpty
  <1>6. answer' = [answer EXCEPT ![c] = told]
    BY DEF Snapshot
  <1>7. /\ told.status = "exited" => Session = {} /\ st.out = "eof"
        /\ told.confirmed => Session = {}
    BY <1>3, <1>5
  <1> HIDE DEF told, status
  <1>8. /\ answer' \in [Slots -> Answer]
        /\ \A d \in Slots :
              \/ answer'[d] = answer[d]
              \/ /\ answer'[d].status = "exited" => Session = {} /\ st.out = "eof"
                 /\ answer'[d].confirmed /\ answer'[d].drained => Session = {}
    BY <1>1, <1>4, <1>6, <1>7
  <1>9. {"main", "done"} \subseteq Steps
    BY DEF Steps, Returns
  <1>10. \A x \in {x1, x2} :
           x \in Activity /\ x.pc # "read" /\ x.seen = Idle.seen /\ x.verdict = "none"
    BY <1>1, <1>9, IdleType DEF Activity
  <1>11. \E x \in {x1, x2} : th' = [th EXCEPT ![c] = x]
    BY DEF Snapshot
  <1>12. shutdown' \in BOOLEAN /\ UNCHANGED <<os, holder, members, st, up>>
    BY DEF Snapshot, IndInv, TypeOK
  <1> HIDE DEF x1, x2
  <1> QED BY <1>1, <1>8, <1>10, <1>11, <1>12, Afresh

-----------------------------------------------------------------------------
(* Output and time *)

LEMMA TimeStep ==
    ASSUME IndInv, ReaderEnds \/ Deadline \/ DrainDeadline
    PROVE  IndInv'
  <1>1. UNCHANGED <<proc, nextPid, forked, holder, members, shutdown, th, answer, up>>
    BY DEF ReaderEnds, Deadline, DrainDeadline, os
  <1>2. events' \in 0..MaxEvents
    BY WorkerAssumption DEF ReaderEnds, Deadline, DrainDeadline, Event, os, IndInv, TypeOK
  <1>3. st' \in State /\ (st.out = "eof" => st'.out = "eof") /\ (st'.confirmed => st.confirmed)
    BY DEF ReaderEnds, Deadline, DrainDeadline, IndInv, TypeOK, State
  <1>4. Frame
    BY <1>1, <1>2, <1>3 DEF Frame, IndInv, TypeOK, members
  <1> QED BY <1>1, <1>3, <1>4, SameFrame, NoThread

-----------------------------------------------------------------------------
(* The theorems *)

LEMMA InitIndInv == Init => IndInv
  <1> SUFFICES ASSUME Init PROVE IndInv
    OBVIOUS
  <1>1. MaxPid \in Nat \ {0} /\ MaxEvents \in Nat /\ Root \in Pids
    BY WorkerAssumption DEF Root, Pids
  <1>2. Free \in Entry /\ [kind |-> "own", ppid |-> 0, in |-> TRUE] \in Entry
    BY <1>1 DEF Entry, Free, Vacant
  <1>3. proc \in [Pids -> Entry]
    BY <1>2 DEF Init, NothingSeen
  <1>4. /\ th \in [Threads -> Activity]
        /\ \A t \in Threads : th[t].pc # "read" /\ th[t].verdict = "none" /\ SeenInv(th[t])
    <2> DEFINE x == [Idle EXCEPT !.pc = "observe", !.after = "monitorDrain"]
    <2>1. "observe" \in Steps /\ "monitorDrain" \in Returns
      BY DEF Steps, Returns
    <2>2. x \in Activity /\ x.pc # "read" /\ x.verdict = "none" /\ x.seen = Idle.seen
      BY <2>1, IdleType DEF Activity
    <2> HIDE DEF x
    <2>3. th = [t \in Threads |-> IF t \in Slots THEN Idle ELSE x]
      BY DEF Init, x
    <2> QED BY <2>2, <2>3, IdleType DEF SeenInv, Inside
  <1>5. TypeOK
    <2>1. st \in State /\ NoAnswer \in Answer
      BY DEF Init, State, NoAnswer, Answer
    <2>2. nextPid \in 2..(MaxPid + 1) /\ events \in 0..MaxEvents
      BY <1>1 DEF Init
    <2> QED BY <1>3, <1>4, <2>1, <2>2 DEF Init, TypeOK
  <1>6. InOrder
    BY <1>1 DEF Init, InOrder, Pids, Root, NothingSeen, Free, Vacant
  <1>7. AllInside
    BY <1>1, <1>4 DEF Init, AllInside, Inside, NothingSeen, Free, Vacant
  <1>8. ScanInv /\ VerdictInv
    BY <1>4 DEF ScanInv, VerdictInv
  <1>9. ConfirmedMeansEmpty /\ AnswersAreTrue
    BY DEF Init, ConfirmedMeansEmpty, AnswersAreTrue, NoAnswer
  <1> QED BY <1>5, <1>6, <1>7, <1>8, <1>9 DEF IndInv

LEMMA NextIndInv ==
    ASSUME IndInv, ~ ParentsLeave, [Next]_vars
    PROVE  IndInv'
  <1>1. CASE UNCHANGED vars
    <2>1. Loses /\ Frame
      BY <1>1, SameFrame DEF vars, os
    <2> QED BY <1>1, <2>1, NoThread DEF vars
  <1>2. CASE Processes
    BY <1>2, ForkStep, SetsidStep, ExitStep, ReuseStep DEF Processes
  <1>3. ASSUME NEW t \in Threads, Thread(t) \/ Late(t) PROVE IndInv'
    BY <1>3, ListStep, ReadStep, ReportScanStep, RefreshStep, ObserveExitStep, ObservedStep,
       TerminateStep, SignalStep, WaitingStep, WaitChildStep DEF Thread
  <1>4. ASSUME NEW c \in Slots, Call(c) \/ OutputEnds(c) \/ Slot(c) \/ SnapshotAgain(c, TRUE)
        PROVE  IndInv'
    BY <1>4, CallStep, OutputEndsStep, SlotWalkStep, SnapshotStep, SnapshotAgainStep DEF Slot
  <1>5. CASE Monitor \/ ReaderEnds \/ Deadline \/ DrainDeadline
    BY <1>5, MonitorStep, TimeStep
  <1> QED BY <1>1, <1>2, <1>3, <1>4, <1>5 DEF Next

\* The worker's state keeps its types, pids are handed out in order, and no scan
\* can miss a member of the session, if no process leaves it after a fork.
THEOREM WorkerInvariant ==
    ASSUME ~ ParentsLeave
    PROVE  Spec => []IndInv
  <1>1. IndInv /\ [Next]_vars => IndInv'
    BY NextIndInv
  <1> QED BY <1>1, InitIndInv, PTL DEF Spec

THEOREM WorkerTypeCorrect ==
    ASSUME ~ ParentsLeave
    PROVE  Spec => []TypeOK
  BY WorkerInvariant, PTL DEF IndInv

\* A confirmed termination (refresh_termination_confirmed) means that nothing is
\* left of the child's session, however many threads scan at once.
THEOREM ConfirmedMeansEmptyHolds ==
    ASSUME ~ ParentsLeave
    PROVE  Spec => []ConfirmedMeansEmpty
  BY WorkerInvariant, PTL DEF IndInv

\* Whatever snapshot has answered about the end of the session and of the output
\* is true and stays so.
THEOREM AnswersAreTrueHolds ==
    ASSUME ~ ParentsLeave
    PROVE  Spec => []AnswersAreTrue
  BY WorkerInvariant, PTL DEF IndInv

-----------------------------------------------------------------------------
(***************************************************************************)
(* The redactor of a worker's output, for any alphabet, any secrets and any *)
(* pieces.  Three of its definitions are recursive: the rounds of redact    *)
(* and of the split, one per secret, and the scan for one secret.  First    *)
(* the functions are shown to exist, then by induction over the secrets, or *)
(* from the end of the text, what they compute: which positions a scan      *)
(* replaces, and where the split may lie.                                   *)
(***************************************************************************)

(* Recursion *)

\* A set of numbers with 0 and every successor is all of them: the least
\* number outside it would be the successor of one inside.
LEMMA NatSets ==
    ASSUME NEW B \in SUBSET Nat, 0 \in B, \A n \in B : n + 1 \in B
    PROVE  B = Nat
<1> SUFFICES ASSUME B # Nat PROVE FALSE
  OBVIOUS
<1> DEFINE C == Nat \ B
<1>1. C \in SUBSET Nat /\ C # {}
  OBVIOUS
<1>2. PICK m \in C : \A n \in C : ~(<<n, m>> \in OpToRel(<, Nat))
  <2> HIDE DEF C
  <2> QED BY <1>1, NatLessThanWellFounded, WFMin
<1>3. \A n \in C : ~(n < m)
  BY <1>2 DEF OpToRel
<1>4. m \in Nat /\ m # 0 /\ m - 1 \in Nat
  OBVIOUS
<1>5. m - 1 \in B
  BY <1>3, <1>4
<1> QED BY <1>4, <1>5

\* A value that is computed in n rounds, h being what a round makes of it.
Runs(f, n, base, h) ==
    /\ f[0] = base
    /\ \A k \in 1..n : f[k] = h[<<k, f[k - 1]>>]

LEMMA RoundsExist ==
    ASSUME NEW n \in Nat, NEW V, NEW base \in V, NEW h \in [(1..n) \X V -> V]
    PROVE  \E f \in [0..n -> V] : Runs(f, n, base, h)
<1> DEFINE B == {m \in Nat : m <= n => \E f \in [0..m -> V] : Runs(f, m, base, h)}
<1>1. 0 \in B
  <2>1. [k \in 0..0 |-> base] \in [0..0 -> V] /\ Runs([k \in 0..0 |-> base], 0, base, h)
    BY DEF Runs
  <2> QED BY <2>1
<1>2. ASSUME NEW m \in B PROVE m + 1 \in B
  <2>0. m \in Nat
    OBVIOUS
  <2>1. SUFFICES ASSUME m + 1 <= n
                 PROVE  \E f \in [0..(m + 1) -> V] : Runs(f, m + 1, base, h)
    BY <2>0
  <2>2. PICK g \in [0..m -> V] : Runs(g, m, base, h)
    BY <2>0, <2>1
  <2> DEFINE f == [k \in 0..(m + 1) |-> IF k = m + 1 THEN h[<<m + 1, g[m]>>] ELSE g[k]]
  <2>3. g[m] \in V /\ h[<<m + 1, g[m]>>] \in V
    BY <2>0, <2>1, <2>2
  <2>4. f \in [0..(m + 1) -> V]
    BY <2>0, <2>2, <2>3
  <2>5. f[m + 1] = h[<<m + 1, g[m]>>] /\ \A k \in 0..m : f[k] = g[k]
    BY <2>0
  <2>6. Runs(f, m + 1, base, h)
    <3> HIDE DEF f
    <3> QED BY <2>0, <2>2, <2>5 DEF Runs
  <2> HIDE DEF f
  <2> QED BY <2>4, <2>6
<1>3. B = Nat
  <2> HIDE DEF B
  <2>1. B \in SUBSET Nat
    BY DEF B
  <2> QED BY <1>1, <1>2, <2>1, NatSets
<1> QED BY <1>3

\* A set that is collected from lo to hi in strides: piece[i] is what is found
\* at i, next[i] where the search goes on.
Collects(f, lo, hi, piece, next) ==
    /\ f[hi + 1] = {}
    /\ \A i \in lo..hi : f[i] = piece[i] \cup f[next[i]]

LEMMA ScansExist ==
    ASSUME NEW lo \in Int, NEW hi \in Int, lo <= hi + 1, NEW W,
           NEW piece \in [lo..hi -> SUBSET W], NEW next \in [lo..hi -> Int],
           \A i \in lo..hi : i < next[i] /\ next[i] <= hi + 1
    PROVE  \E f \in [lo..(hi + 1) -> SUBSET W] : Collects(f, lo, hi, piece, next)
<1> DEFINE B == {m \in Nat : lo <= hi + 1 - m =>
                    \E f \in [(hi + 1 - m)..(hi + 1) -> SUBSET W] : Collects(f, hi + 1 - m, hi, piece, next)}
<1>1. 0 \in B
  <2> DEFINE e == [i \in (hi + 1 - 0)..(hi + 1) |-> {}]
  <2>1. e \in [(hi + 1 - 0)..(hi + 1) -> SUBSET W] /\ Collects(e, hi + 1 - 0, hi, piece, next)
    BY DEF Collects
  <2> HIDE DEF e
  <2> QED BY <2>1
<1>2. ASSUME NEW m \in B PROVE m + 1 \in B
  <2>0. m \in Nat /\ m + 1 \in Nat
    OBVIOUS
  <2> DEFINE a == hi + 1 - (m + 1)
  <2>a. a \in Int /\ a + 1 = hi + 1 - m /\ a <= hi
    BY <2>0
  <2>1. SUFFICES ASSUME lo <= a
                 PROVE  \E f \in [a..(hi + 1) -> SUBSET W] : Collects(f, a, hi, piece, next)
    BY <2>0
  <2> HIDE DEF a
  <2>2. PICK g \in [(a + 1)..(hi + 1) -> SUBSET W] : Collects(g, a + 1, hi, piece, next)
    BY <2>a, <2>0, <2>1
  <2>3. /\ a \in lo..hi /\ next[a] \in (a + 1)..(hi + 1)
        /\ piece[a] \in SUBSET W /\ g[next[a]] \in SUBSET W
    BY <2>a, <2>1, <2>2
  <2> DEFINE f == [i \in a..(hi + 1) |-> IF i = a THEN piece[a] \cup g[next[a]] ELSE g[i]]
  <2>4. f \in [a..(hi + 1) -> SUBSET W]
    BY <2>a, <2>2, <2>3
  <2>5. f[a] = piece[a] \cup g[next[a]] /\ \A i \in (a + 1)..(hi + 1) : f[i] = g[i]
    BY <2>a
  <2>6. Collects(f, a, hi, piece, next)
    <3> HIDE DEF f
    <3>1. f[hi + 1] = {}
      BY <2>a, <2>2, <2>5 DEF Collects
    <3>2. ASSUME NEW i \in a..hi PROVE f[i] = piece[i] \cup f[next[i]]
      <4>1. CASE i = a
        BY <4>1, <2>3, <2>5
      <4>2. CASE i # a
        <5>1. i \in (a + 1)..hi /\ i \in (a + 1)..(hi + 1) /\ i \in lo..hi
          BY <4>2, <2>a, <2>1
        <5>2. next[i] \in (a + 1)..(hi + 1)
          BY <5>1, <2>a
        <5>3. g[i] = piece[i] \cup g[next[i]]
          BY <5>1, <2>2 DEF Collects
        <5> QED BY <5>1, <5>2, <5>3, <2>5
      <4> QED BY <4>1, <4>2
    <3> QED BY <3>1, <3>2 DEF Collects
  <2> HIDE DEF f
  <2> QED BY <2>4, <2>6
<1>3. B = Nat
  <2> HIDE DEF B
  <2>1. B \in SUBSET Nat
    BY DEF B
  <2> QED BY <1>1, <1>2, <2>1, NatSets
<1>4. PICK m \in Nat : m = hi + 1 - lo
  OBVIOUS
<1>5. m \in B
  <2> HIDE DEF B
  <2> QED BY <1>3
<1>6. lo <= hi + 1 - m =>
        \E f \in [(hi + 1 - m)..(hi + 1) -> SUBSET W] : Collects(f, hi + 1 - m, hi, piece, next)
  BY <1>5, Zenon
<1>7. hi + 1 - m = lo
  BY <1>4
<1> HIDE DEF B
<1>8. lo <= lo => \E f \in [lo..(hi + 1) -> SUBSET W] : Collects(f, lo, hi, piece, next)
  BY <1>6, <1>7, Zenon
<1> QED BY <1>8

-----------------------------------------------------------------------------
(* Occurrences *)

Texts == Seq(Alphabet)
Words == {s \in Seq(Alphabet) : Len(s) # 0}

\* Secret s stands in text at i, letter by letter.
LEMMA StandsIff ==
    ASSUME NEW text \in Texts, NEW s \in Texts, NEW i \in Nat, i # 0
    PROVE  Stands(text, s, i) <=> /\ i + Len(s) - 1 <= Len(text)
                                  /\ \A q \in 1..Len(s) : text[i + q - 1] = s[q]
<1> DEFINE last == i + Len(s) - 1
<1>1. Len(s) \in Nat /\ Len(text) \in Nat /\ last \in Int /\ last - i + 1 = Len(s)
  BY DEF Texts
<1>2. ASSUME last <= Len(text)
      PROVE  /\ SubSeq(text, i, last) \in Seq(Alphabet)
             /\ Len(SubSeq(text, i, last)) = Len(s)
             /\ \A q \in 1..Len(s) : SubSeq(text, i, last)[q] = text[i + q - 1]
  BY <1>1, <1>2 DEF Texts
<1>3. ASSUME last <= Len(text), \A q \in 1..Len(s) : text[i + q - 1] = s[q]
      PROVE  SubSeq(text, i, last) = s
  <2>1. \A q \in 1..Len(s) : SubSeq(text, i, last)[q] = s[q]
    BY <1>2, <1>3
  <2> QED BY <1>2, <1>3, <2>1 DEF Texts
<1> QED BY <1>1, <1>2, <1>3 DEF Stands

\* More output changes nothing about what stood before.
LEMMA StandsGrows ==
    ASSUME NEW text \in Texts, NEW data \in Texts, NEW s \in Texts, NEW i \in Nat, i # 0
    PROVE  /\ text \o data \in Texts
           /\ Len(text \o data) = Len(text) + Len(data) /\ Len(text) \in Nat /\ Len(data) \in Nat
           /\ Stands(text, s, i) => Stands(text \o data, s, i)
           /\ Stands(text \o data, s, i) /\ i + Len(s) - 1 <= Len(text) => Stands(text, s, i)
<1>1. /\ text \o data \in Texts
      /\ Len(text \o data) = Len(text) + Len(data) /\ Len(text) \in Nat /\ Len(data) \in Nat
      /\ Len(s) \in Nat
  BY DEF Texts
<1>2. \A q \in 1..Len(text) : (text \o data)[q] = text[q]
  BY DEF Texts
<1>3. i + Len(s) - 1 <= Len(text) => \A q \in 1..Len(s) : (text \o data)[i + q - 1] = text[i + q - 1]
  BY <1>1, <1>2
<1>4. Stands(text, s, i) <=> /\ i + Len(s) - 1 <= Len(text)
                             /\ \A q \in 1..Len(s) : text[i + q - 1] = s[q]
  BY StandsIff
<1>5. Stands(text \o data, s, i) <=> /\ i + Len(s) - 1 <= Len(text \o data)
                                     /\ \A q \in 1..Len(s) : (text \o data)[i + q - 1] = s[q]
  <2> PICK both \in Texts : both = text \o data
    BY <1>1
  <2> QED BY StandsIff
<1> QED BY <1>1, <1>3, <1>4, <1>5

\* Two secrets that are apart do not share a letter of the output.
LEMMA ApartFrom ==
    ASSUME NEW text \in Texts, NEW s \in Words, NEW t \in Words, Apart(s, t),
           NEW i \in Nat, i # 0, NEW j \in Nat, i <= j, j <= i + Len(s) - 1,
           Stands(text, s, i),
           \A q \in 1..Len(t) : j + q - 1 <= i + Len(s) - 1 => text[j + q - 1] = t[q]
    PROVE  i = j /\ s = t
<1> DEFINE d == j - i
<1>1. Len(s) \in Nat /\ Len(t) \in Nat /\ d \in 0..(Len(s) - 1) /\ s \in Texts
  BY DEF Words, Texts
<1>2. \A q \in 1..Len(s) : text[i + q - 1] = s[q]
  BY <1>1, StandsIff
<1>3. ASSUME NEW q \in 1..Len(t), d + q <= Len(s) PROVE s[d + q] = t[q]
  <2>1. d + q \in 1..Len(s) /\ i + (d + q) - 1 = j + q - 1
    BY <1>1, <1>3
  <2>2. text[i + (d + q) - 1] = s[d + q]
    BY <1>2, <2>1
  <2>3. text[j + q - 1] = t[q]
    BY <1>1, <1>3
  <2> QED BY <2>1, <2>2, <2>3
<1>4. d = 0 /\ s = t
  <2> HIDE DEF d
  <2> QED BY <1>1, <1>3 DEF Apart
<1> QED BY <1>4

LEMMA ApartStand ==
    ASSUME NEW text \in Texts, NEW s \in Words, NEW t \in Words, Apart(s, t), Apart(t, s),
           NEW i \in Nat, i # 0, NEW j \in Nat, j # 0,
           Stands(text, s, i), Stands(text, t, j),
           i <= j + Len(t) - 1, j <= i + Len(s) - 1
    PROVE  i = j /\ s = t
<1>1. s \in Texts /\ t \in Texts
  BY DEF Words, Texts
<1>2. /\ \A q \in 1..Len(s) : text[i + q - 1] = s[q]
      /\ \A q \in 1..Len(t) : text[j + q - 1] = t[q]
  BY <1>1, StandsIff
<1>3. CASE i <= j
  BY <1>2, <1>3, ApartFrom
<1>4. CASE j <= i
  BY <1>2, <1>4, ApartFrom
<1> QED BY <1>3, <1>4

-----------------------------------------------------------------------------
(* One secret *)

\* What a scan computes.
Scanned(f, text, s, low, high, gone) ==
    \A i \in (low + 1)..(high + 1) :
        /\ i > high => f[i] = {}
        /\ i <= high /\ Whole(text, s, high, gone, i) => f[i] = (i..(i + Len(s) - 1)) \cup f[i + Len(s)]
        /\ i <= high /\ ~Whole(text, s, high, gone, i) => f[i] = f[i + 1]

LEMMA ScanIs ==
    ASSUME NEW text, NEW s \in Words, NEW low \in Int, NEW high \in Int, low <= high, NEW gone
    PROVE  Scanned(Scan(text, s, low, high, gone), text, s, low, high, gone)
<1> DEFINE piece == [i \in (low + 1)..high |-> IF Whole(text, s, high, gone, i) THEN i..(i + Len(s) - 1) ELSE {}]
           next == [i \in (low + 1)..high |-> IF Whole(text, s, high, gone, i) THEN i + Len(s) ELSE i + 1]
           F(f) == [i \in (low + 1)..(high + 1) |->
                       IF i > high THEN {}
                       ELSE IF Whole(text, s, high, gone, i) THEN (i..(i + Len(s) - 1)) \cup f[i + Len(s)]
                       ELSE f[i + 1]]
<1>0. Len(s) \in Nat /\ Len(s) # 0
  BY DEF Words
<1>1. piece \in [(low + 1)..high -> SUBSET Int]
  BY <1>0
<1>2. next \in [(low + 1)..high -> Int]
  BY <1>0
<1>3. \A i \in (low + 1)..high : i < next[i] /\ next[i] <= high + 1
  BY <1>0 DEF Whole
<1>4. PICK f \in [(low + 1)..(high + 1) -> SUBSET Int] : Collects(f, low + 1, high, piece, next)
  <2> PICK lo \in Int : lo = low + 1
    OBVIOUS
  <2> HIDE DEF piece, next
  <2>1. lo <= high + 1 /\ piece \in [lo..high -> SUBSET Int] /\ next \in [lo..high -> Int]
        /\ \A i \in lo..high : i < next[i] /\ next[i] <= high + 1
    BY <1>1, <1>2, <1>3
  <2>2. \E f \in [lo..(high + 1) -> SUBSET Int] : Collects(f, lo, high, piece, next)
    BY <2>1, ScansExist
  <2> QED BY <2>2
<1>5. ASSUME NEW i \in (low + 1)..(high + 1) PROVE f[i] = F(f)[i]
  <2>1. CASE i > high
    <3>1. i = high + 1
      BY <2>1
    <3> QED BY <2>1, <3>1, <1>4 DEF Collects
  <2>2. CASE i <= high
    <3>1. f[i] = piece[i] \cup f[next[i]]
      <4> HIDE DEF piece, next
      <4> QED BY <2>2, <1>4 DEF Collects
    <3> QED BY <2>2, <3>1
  <2> QED BY <2>1, <2>2
<1>6. f = F(f)
  BY <1>4, <1>5
<1>7. Scan(text, s, low, high, gone) = CHOOSE g : g = F(g)
  BY DEF Scan
<1>8. PICK g : g = Scan(text, s, low, high, gone)
  OBVIOUS
<1>9. g = F(g)
  <2> HIDE DEF F
  <2> QED BY <1>6, <1>7, <1>8
<1>10. \A i \in (low + 1)..(high + 1) :
           g[i] = IF i > high THEN {}
                  ELSE IF Whole(text, s, high, gone, i) THEN (i..(i + Len(s) - 1)) \cup g[i + Len(s)]
                  ELSE g[i + 1]
  BY <1>9
<1>11. Scanned(g, text, s, low, high, gone)
  <2>1. ASSUME NEW i \in (low + 1)..(high + 1), i > high PROVE g[i] = {}
    BY <1>10, <2>1
  <2>2. ASSUME NEW i \in (low + 1)..(high + 1), i <= high, Whole(text, s, high, gone, i)
        PROVE  g[i] = (i..(i + Len(s) - 1)) \cup g[i + Len(s)]
    <3>1. ~(i > high)
      BY <2>2
    <3> QED BY <1>10, <2>2, <3>1, Zenon
  <2>3. ASSUME NEW i \in (low + 1)..(high + 1), i <= high, ~Whole(text, s, high, gone, i)
        PROVE  g[i] = g[i + 1]
    <3>1. ~(i > high)
      BY <2>3
    <3> QED BY <1>10, <2>3, <3>1, Zenon
  <2> QED BY <2>1, <2>2, <2>3, Zenon DEF Scanned
<1> QED BY <1>8, <1>11

\* A scan replaces occurrences and nothing else.
LEMMA ScanSound ==
    ASSUME NEW text, NEW s \in Words, NEW low \in Int, NEW high \in Int, low <= high, NEW gone
    PROVE  \A i \in (low + 1)..(high + 1) : \A p \in Scan(text, s, low, high, gone)[i] :
               \E j \in i..high : Whole(text, s, high, gone, j) /\ j <= p /\ p <= j + Len(s) - 1 /\ p \in Int
<1> DEFINE W(j) == Whole(text, s, high, gone, j)
           Good(i, p) == \E j \in i..high : W(j) /\ j <= p /\ p <= j + Len(s) - 1 /\ p \in Int
<1>0. Len(s) \in Nat /\ Len(s) # 0
  BY DEF Words
<1>1. PICK f : f = Scan(text, s, low, high, gone)
  OBVIOUS
<1>2. Scanned(f, text, s, low, high, gone)
  BY <1>1, ScanIs
<1>3. \A i \in (low + 1)..(high + 1) :
          /\ i > high => f[i] = {}
          /\ i <= high /\ W(i) => f[i] = (i..(i + Len(s) - 1)) \cup f[i + Len(s)]
          /\ i <= high /\ ~W(i) => f[i] = f[i + 1]
  BY <1>2 DEF Scanned
<1>4. \A j \in Int : W(j) => j + Len(s) - 1 <= high
  BY DEF Whole
<1> HIDE DEF W
<1> DEFINE B == {m \in Nat : \A i \in (low + 1)..(high + 1) : high + 1 - i <= m => \A p \in f[i] : Good(i, p)}
<1>5. 0 \in B
  <2>1. ASSUME NEW i \in (low + 1)..(high + 1), high + 1 - i <= 0 PROVE f[i] = {}
    BY <1>3, <2>1
  <2> QED BY <2>1
<1>6. ASSUME NEW m \in B PROVE m + 1 \in B
  <2>0. m \in Nat /\ m + 1 \in Nat
    OBVIOUS
  <2>1. ASSUME NEW i \in (low + 1)..(high + 1), high + 1 - i <= m + 1, NEW p \in f[i] PROVE Good(i, p)
    <3>0. i <= high
      BY <1>3
    <3>1. \A n \in (i + 1)..(high + 1) : p \in f[n] => Good(n, p)
      BY <2>0, <2>1
    <3>2. \A n \in (i + 1)..(high + 1) : Good(n, p) => Good(i, p)
      BY <3>0
    <3>3. CASE W(i) /\ p \in i..(i + Len(s) - 1)
      BY <3>0, <3>3, <1>0
    <3>4. CASE W(i) /\ p \in f[i + Len(s)]
      <4>1. i + Len(s) \in (i + 1)..(high + 1)
        BY <1>0, <1>4, <3>4
      <4> QED BY <4>1, <3>1, <3>2, <3>4
    <3>5. CASE p \in f[i + 1]
      <4>1. i + 1 \in (i + 1)..(high + 1)
        BY <3>0
      <4> QED BY <4>1, <3>1, <3>2, <3>5
    <3> HIDE DEF Good
    <3> QED BY <1>3, <3>0, <3>3, <3>4, <3>5
  <2> HIDE DEF Good
  <2> QED BY <2>0, <2>1
<1>7. B = Nat
  <2> HIDE DEF B
  <2>1. B \in SUBSET Nat
    BY DEF B
  <2> QED BY <1>5, <1>6, <2>1, NatSets
<1>8. ASSUME NEW i \in (low + 1)..(high + 1), NEW p \in f[i] PROVE Good(i, p)
  <2>1. high + 1 - i \in B
    <3> HIDE DEF B
    <3> QED BY <1>7
  <2> HIDE DEF Good
  <2> QED BY <2>1
<1> QED BY <1>1, <1>8 DEF W

\* It replaces every occurrence that is whole, if no two of them overlap.
LEMMA ScanComplete ==
    ASSUME NEW text, NEW s \in Words, NEW low \in Int, NEW high \in Int, low <= high, NEW gone,
           \A i, j \in (low + 1)..high :
               Whole(text, s, high, gone, i) /\ Whole(text, s, high, gone, j) /\ i < j => i + Len(s) <= j
    PROVE  \A i \in (low + 1)..(high + 1) : \A j \in i..high :
               Whole(text, s, high, gone, j) => j..(j + Len(s) - 1) \subseteq Scan(text, s, low, high, gone)[i]
<1> DEFINE W(j) == Whole(text, s, high, gone, j)
           Full(j, S) == j..(j + Len(s) - 1) \subseteq S
<1>0. Len(s) \in Nat /\ Len(s) # 0
  BY DEF Words
<1>1. PICK f : f = Scan(text, s, low, high, gone)
  OBVIOUS
<1>2. Scanned(f, text, s, low, high, gone)
  BY <1>1, ScanIs
<1>3. \A i \in (low + 1)..(high + 1) :
          /\ i > high => f[i] = {}
          /\ i <= high /\ W(i) => f[i] = (i..(i + Len(s) - 1)) \cup f[i + Len(s)]
          /\ i <= high /\ ~W(i) => f[i] = f[i + 1]
  BY <1>2 DEF Scanned
<1>4. \A j \in Int : W(j) => j + Len(s) - 1 <= high
  BY DEF Whole
<1>a. \A i, j \in (low + 1)..high : W(i) /\ W(j) /\ i < j => i + Len(s) <= j
  OBVIOUS
<1> HIDE DEF W
<1> DEFINE B == {m \in Nat : \A i \in (low + 1)..(high + 1) : high + 1 - i <= m =>
                                \A j \in i..high : W(j) => Full(j, f[i])}
<1>5. 0 \in B
  OBVIOUS
<1>6. ASSUME NEW m \in B PROVE m + 1 \in B
  <2>0. m \in Nat /\ m + 1 \in Nat
    OBVIOUS
  <2>1. ASSUME NEW i \in (low + 1)..(high + 1), high + 1 - i <= m + 1, NEW j \in i..high, W(j)
        PROVE  Full(j, f[i])
    <3>1. \A n \in (i + 1)..j : Full(j, f[n])
      <4>1. ASSUME NEW n \in (i + 1)..j
            PROVE  n \in (low + 1)..(high + 1) /\ high + 1 - n <= m /\ j \in n..high
        BY <2>0, <2>1
      <4> HIDE DEF Full
      <4> QED BY <4>1, <2>1
    <3>2. /\ W(i) => f[i] = (i..(i + Len(s) - 1)) \cup f[i + Len(s)]
          /\ ~W(i) => f[i] = f[i + 1]
      BY <1>3
    <3>3. CASE i = j
      BY <2>1, <3>2, <3>3
    <3>4. CASE i < j /\ W(i)
      <4>1. i + Len(s) \in (i + 1)..j
        BY <1>0, <1>a, <2>1, <3>4
      <4>2. Full(j, f[i + Len(s)])
        BY <4>1, <3>1
      <4> QED BY <3>2, <3>4, <4>2
    <3>5. CASE i < j /\ ~W(i)
      <4>1. i + 1 \in (i + 1)..j
        BY <3>5
      <4> QED BY <3>1, <3>2, <3>5, <4>1
    <3> QED BY <3>3, <3>4, <3>5
  <2> HIDE DEF Full
  <2> QED BY <2>0, <2>1
<1>7. B = Nat
  <2> HIDE DEF B
  <2>1. B \in SUBSET Nat
    BY DEF B
  <2> QED BY <1>5, <1>6, <2>1, NatSets
<1>8. ASSUME NEW i \in (low + 1)..(high + 1), NEW j \in i..high, W(j) PROVE Full(j, f[i])
  <2>1. high + 1 - i \in B
    <3> HIDE DEF B
    <3> QED BY <1>7
  <2> HIDE DEF Full
  <2> QED BY <2>1, <1>8
<1> QED BY <1>1, <1>8 DEF W

-----------------------------------------------------------------------------
(* All secrets *)

SecretsOK == secrets \in Seq(Words)

\* Position p lies in an occurrence of a secret within text[low+1..high].
Within(text, m, j, low, high) ==
    /\ j \in (low + 1)..high /\ j + Len(secrets[m]) - 1 <= high
    /\ Stands(text, secrets[m], j)
Taken(text, n, low, high, p) ==
    \E m \in 1..n, j \in (low + 1)..high :
        Within(text, m, j, low, high) /\ j <= p /\ p <= j + Len(secrets[m]) - 1 /\ p \in Int

LEMMA SecretsType ==
    ASSUME SecretsOK
    PROVE  /\ Len(secrets) \in Nat /\ DOMAIN secrets = 1..Len(secrets)
           /\ \A m \in DOMAIN secrets : /\ secrets[m] \in Words /\ secrets[m] \in Texts
                                        /\ Len(secrets[m]) \in Nat /\ Len(secrets[m]) # 0
<1>1. Len(secrets) \in Nat /\ DOMAIN secrets = 1..Len(secrets) /\ \A m \in DOMAIN secrets : secrets[m] \in Words
  BY DEF SecretsOK
<1> QED BY <1>1 DEF Words, Texts

LEMMA ReplacedSound ==
    ASSUME SecretsOK, NEW text, NEW low \in Int, NEW high \in Int, low <= high, NEW gone,
           NEW k \in DOMAIN secrets, NEW p \in Replaced(text, secrets[k], low, high, gone)
    PROVE  p \in Int /\ Taken(text, k, low, high, p)
<1>1. secrets[k] \in Words /\ k \in 1..k
  BY SecretsType
<1>2. low + 1 \in (low + 1)..(high + 1) /\ p \in Scan(text, secrets[k], low, high, gone)[low + 1]
  BY DEF Replaced
<1>3. PICK j \in (low + 1)..high :
          /\ Whole(text, secrets[k], high, gone, j)
          /\ j <= p /\ p <= j + Len(secrets[k]) - 1 /\ p \in Int
  BY <1>1, <1>2, ScanSound
<1>4. Within(text, k, j, low, high)
  BY <1>3 DEF Within, Whole
<1> QED BY <1>1, <1>3, <1>4 DEF Taken

Rounded(f, text, low, high) ==
    /\ f[0] = {}
    /\ \A k \in 1..Len(secrets) : f[k] = f[k - 1] \cup Replaced(text, secrets[k], low, high, f[k - 1])

LEMMA RoundsAre ==
    ASSUME SecretsOK, NEW text, NEW low \in Int, NEW high \in Int, low <= high
    PROVE  Rounded(Rounds(text, low, high), text, low, high)
<1> DEFINE n == Len(secrets)
           h == [z \in (1..n) \X (SUBSET Int) |-> z[2] \cup Replaced(text, secrets[z[1]], low, high, z[2])]
           F(f) == [k \in 0..n |-> IF k = 0 THEN {}
                                   ELSE f[k - 1] \cup Replaced(text, secrets[k], low, high, f[k - 1])]
<1>0. n \in Nat /\ DOMAIN secrets = 1..n
  BY SecretsType
<1>1. ASSUME NEW z \in (1..n) \X (SUBSET Int)
      PROVE  z[2] \cup Replaced(text, secrets[z[1]], low, high, z[2]) \in SUBSET Int
  BY <1>0, ReplacedSound
<1>2. h \in [(1..n) \X (SUBSET Int) -> SUBSET Int]
  BY <1>1
<1>3. {} \in SUBSET Int
  OBVIOUS
<1>4. PICK f \in [0..n -> SUBSET Int] : Runs(f, n, {}, h)
  <2> HIDE DEF h, n
  <2> QED BY <1>0, <1>2, <1>3, RoundsExist
<1>5. ASSUME NEW k \in 1..n PROVE f[k] = f[k - 1] \cup Replaced(text, secrets[k], low, high, f[k - 1])
  <2>1. f[k] = h[<<k, f[k - 1]>>] /\ k - 1 \in 0..n
    <3> HIDE DEF h
    <3> QED BY <1>0, <1>4 DEF Runs
  <2>2. <<k, f[k - 1]>> \in (1..n) \X (SUBSET Int)
    BY <2>1, <1>4
  <2> QED BY <2>1, <2>2
<1>6. f = F(f)
  <2>1. \A k \in 0..n : f[k] = F(f)[k]
    BY <1>0, <1>4, <1>5 DEF Runs
  <2> QED BY <1>4, <2>1
<1>7. Rounds(text, low, high) = CHOOSE g : g = F(g)
  BY DEF Rounds
<1>8. PICK g : g = Rounds(text, low, high)
  OBVIOUS
<1>9. g = F(g)
  <2> HIDE DEF F
  <2> QED BY <1>6, <1>7, <1>8
<1>10. Rounded(g, text, low, high)
  <2>1. g[0] = {}
    BY <1>9, <1>0
  <2>2. ASSUME NEW k \in 1..n PROVE g[k] = g[k - 1] \cup Replaced(text, secrets[k], low, high, g[k - 1])
    <3>1. k \in 0..n /\ k # 0
      BY <1>0
    <3>2. F(g)[k] = g[k - 1] \cup Replaced(text, secrets[k], low, high, g[k - 1])
      BY <3>1
    <3> HIDE DEF F
    <3> QED BY <1>9, <3>2, Zenon
  <2> QED BY <2>1, <2>2 DEF Rounded
<1> QED BY <1>8, <1>10

\* What the first k secrets replace lies in their occurrences.
LEMMA RedactSound ==
    ASSUME SecretsOK, NEW text, NEW low \in Int, NEW high \in Int, low <= high
    PROVE  \A k \in 0..Len(secrets) : \A p \in Rounds(text, low, high)[k] : Taken(text, k, low, high, p)
<1>1. PICK f : f = Rounds(text, low, high)
  OBVIOUS
<1>2. Rounded(f, text, low, high)
  BY <1>1, RoundsAre
<1>0. Len(secrets) \in Nat /\ DOMAIN secrets = 1..Len(secrets)
  BY SecretsType
<1> DEFINE B == {k \in Nat : k <= Len(secrets) => \A p \in f[k] : Taken(text, k, low, high, p)}
<1>3. 0 \in B
  BY <1>2 DEF Rounded
<1>4. ASSUME NEW k \in B PROVE k + 1 \in B
  <2>0. k \in Nat /\ k + 1 \in Nat
    OBVIOUS
  <2>1. ASSUME k + 1 <= Len(secrets), NEW p \in f[k + 1] PROVE Taken(text, k + 1, low, high, p)
    <3>0. k + 1 \in DOMAIN secrets /\ k + 1 \in 1..Len(secrets) /\ (k + 1) - 1 = k /\ k <= Len(secrets)
      BY <1>0, <2>0, <2>1
    <3>1. p \in f[k] \/ p \in Replaced(text, secrets[k + 1], low, high, f[k])
      BY <1>2, <3>0 DEF Rounded
    <3>2. CASE p \in f[k]
      <4>1. Taken(text, k, low, high, p)
        BY <3>0, <3>2
      <4> QED BY <2>0, <4>1 DEF Taken
    <3>3. CASE p \in Replaced(text, secrets[k + 1], low, high, f[k])
      BY <3>0, <3>3, ReplacedSound
    <3> QED BY <3>1, <3>2, <3>3
  <2> QED BY <2>0, <2>1
<1>5. B = Nat
  <2> HIDE DEF B
  <2>1. B \in SUBSET Nat
    BY DEF B
  <2> QED BY <1>3, <1>4, <2>1, NatSets
<1> QED BY <1>0, <1>1, <1>5

\* When the secrets do not overlap they replace all of their occurrences.
LEMMA RedactComplete ==
    ASSUME SecretsOK, SecretsApart, NEW text \in Texts, NEW low \in Nat, NEW high \in Nat, low <= high
    PROVE  \A m \in DOMAIN secrets, j \in (low + 1)..high :
               Within(text, m, j, low, high) => j..(j + Len(secrets[m]) - 1) \subseteq Redact(text, low, high)
<1>1. PICK f : f = Rounds(text, low, high)
  OBVIOUS
<1>2. Rounded(f, text, low, high)
  BY <1>1, RoundsAre
<1>0. Len(secrets) \in Nat /\ DOMAIN secrets = 1..Len(secrets)
  BY SecretsType
<1>a. \A k \in 0..Len(secrets) : \A p \in f[k] : Taken(text, k, low, high, p)
  BY <1>1, RedactSound
<1> DEFINE Full(m, j, k) == j..(j + Len(secrets[m]) - 1) \subseteq f[k]
           B == {k \in Nat : k <= Len(secrets) =>
                    \A m \in 1..k, j \in (low + 1)..high : Within(text, m, j, low, high) => Full(m, j, k)}
<1>3. 0 \in B
  OBVIOUS
<1>4. ASSUME NEW k \in B PROVE k + 1 \in B
  <2>0. k \in Nat /\ k + 1 \in Nat
    OBVIOUS
  <2>1. ASSUME k + 1 <= Len(secrets), NEW m \in 1..(k + 1), NEW j \in (low + 1)..high, Within(text, m, j, low, high)
        PROVE  Full(m, j, k + 1)
    <3>0. k + 1 \in DOMAIN secrets /\ k + 1 \in 1..Len(secrets) /\ (k + 1) - 1 = k /\ k \in 0..Len(secrets)
      BY <1>0, <2>0, <2>1
    <3>1. f[k + 1] = f[k] \cup Replaced(text, secrets[k + 1], low, high, f[k])
      BY <1>2, <3>0 DEF Rounded
    <3>2. \A n \in 1..k, i \in (low + 1)..high : Within(text, n, i, low, high) => Full(n, i, k)
      BY <3>0
    <3>3. CASE m \in 1..k
      <4>1. Full(m, j, k)
        BY <2>1, <3>2, <3>3
      <4> QED BY <3>1, <4>1
    <3>4. CASE m = k + 1
      <4> PICK s : s = secrets[m]
        OBVIOUS
      <4>1. s \in Words /\ Len(s) \in Nat /\ Len(s) # 0 /\ m \in DOMAIN secrets
        BY <3>0, <3>4, SecretsType
      <4>2. \A i \in (low + 1)..high : i \in Nat /\ i # 0
        OBVIOUS
      <4>3. CASE (j..(j + Len(s) - 1)) \cap f[k] = {}
        <5>1. Whole(text, s, high, f[k], j)
          BY <2>1, <4>3 DEF Within, Whole
        <5>2. ASSUME NEW i \in (low + 1)..high, NEW l \in (low + 1)..high, i < l,
                     Whole(text, s, high, f[k], i), Whole(text, s, high, f[k], l)
              PROVE  i + Len(s) <= l
          <6>1. SUFFICES ASSUME l <= i + Len(s) - 1 PROVE FALSE
            BY <4>1
          <6>2. Stands(text, s, i) /\ Stands(text, s, l) /\ Apart(s, s)
            BY <5>2, <4>1 DEF Whole, SecretsApart
          <6>3. i \in Nat /\ i # 0 /\ l \in Nat /\ l # 0 /\ i <= l + Len(s) - 1
            BY <4>1, <4>2, <5>2
          <6>4. i = l
            BY <4>1, <6>1, <6>2, <6>3, ApartStand
          <6> QED BY <5>2, <6>3, <6>4
        <5>3. j \in (low + 1)..high /\ low + 1 \in (low + 1)..(high + 1)
          OBVIOUS
        <5>a. \A i, l \in (low + 1)..high :
                  Whole(text, s, high, f[k], i) /\ Whole(text, s, high, f[k], l) /\ i < l => i + Len(s) <= l
          BY <5>2
        <5>b. \A i \in (low + 1)..(high + 1) : \A l \in i..high :
                  Whole(text, s, high, f[k], l) => l..(l + Len(s) - 1) \subseteq Scan(text, s, low, high, f[k])[i]
          <6>1. low \in Int /\ high \in Int /\ low <= high
            OBVIOUS
          <6> QED BY <4>1, <5>a, <6>1, ScanComplete, Zenon
        <5>4. j..(j + Len(s) - 1) \subseteq Scan(text, s, low, high, f[k])[low + 1]
          BY <5>1, <5>3, <5>b
        <5> QED BY <3>1, <3>4, <5>4 DEF Replaced
      <4>4. CASE (j..(j + Len(s) - 1)) \cap f[k] # {}
        <5>1. PICK p \in f[k] : p \in j..(j + Len(s) - 1)
          BY <4>4
        <5>2. Taken(text, k, low, high, p)
          BY <1>a, <3>0
        <5>3. PICK n \in 1..k, i \in (low + 1)..high :
                  Within(text, n, i, low, high) /\ i <= p /\ p <= i + Len(secrets[n]) - 1
          BY <5>2 DEF Taken
        <5>4. n \in DOMAIN secrets /\ secrets[n] \in Words /\ Len(secrets[n]) \in Nat
          BY <3>0, <1>0, SecretsType
        <5>5. Apart(s, secrets[n]) /\ Apart(secrets[n], s)
          BY <4>1, <5>4 DEF SecretsApart
        <5>6. i = j /\ secrets[n] = s
          <6>1. Stands(text, secrets[n], i) /\ Stands(text, s, j)
            BY <2>1, <5>3 DEF Within
          <6>2. i <= j + Len(s) - 1 /\ j <= i + Len(secrets[n]) - 1
            BY <4>1, <4>2, <5>1, <5>3, <5>4
          <6> QED BY <4>1, <4>2, <5>4, <5>5, <6>1, <6>2, ApartStand
        <5>7. Full(n, j, k)
          BY <3>2, <5>3, <5>6
        <5> QED BY <3>1, <5>6, <5>7
      <4> QED BY <4>3, <4>4
    <3> QED BY <2>0, <3>3, <3>4
  <2> HIDE DEF Full
  <2> QED BY <2>0, <2>1
<1>5. B = Nat
  <2> HIDE DEF B
  <2>1. B \in SUBSET Nat
    BY DEF B
  <2> QED BY <1>3, <1>4, <2>1, NatSets
<1>6. Redact(text, low, high) = f[Len(secrets)]
  BY <1>1 DEF Redact
<1>7. \A m \in 1..Len(secrets), j \in (low + 1)..high :
          Within(text, m, j, low, high) => Full(m, j, Len(secrets))
  <2> HIDE DEF Full
  <2> QED BY <1>0, <1>5
<1> QED BY <1>0, <1>6, <1>7

-----------------------------------------------------------------------------
(* The split *)

\* The greatest and the least of a set of numbers.
LEMMA MaxOf ==
    ASSUME NEW S \in SUBSET Nat, S # {}, NEW b \in Nat, \A x \in S : x <= b
    PROVE  Max(S) \in S /\ Max(S) \in Nat /\ \A x \in S : x <= Max(S)
<1> DEFINE C == {u \in Nat : \A x \in S : x <= u}
<1>1. C \in SUBSET Nat /\ C # {}
  OBVIOUS
<1>2. PICK u \in C : \A v \in C : ~(<<v, u>> \in OpToRel(<, Nat))
  <2> HIDE DEF C
  <2> QED BY <1>1, NatLessThanWellFounded, WFMin
<1>3. u \in Nat /\ (\A x \in S : x <= u) /\ \A v \in C : ~(v < u)
  BY <1>2 DEF OpToRel
<1>4. u \in S
  <2>1. SUFFICES ASSUME u \notin S PROVE FALSE
    OBVIOUS
  <2>2. \A x \in S : x <= u - 1
    BY <1>3, <2>1
  <2>3. u - 1 \in Nat
    <3> PICK x \in S : TRUE
      OBVIOUS
    <3> QED BY <1>3, <2>2
  <2> QED BY <1>3, <2>2, <2>3
<1>5. \E x \in S : \A y \in S : x >= y
  BY <1>3, <1>4
<1>6. Max(S) \in S /\ \A y \in S : Max(S) >= y
  BY <1>5 DEF Max
<1> QED BY <1>6

LEMMA MinOf ==
    ASSUME NEW S \in SUBSET Nat, S # {}
    PROVE  Min(S) \in S /\ Min(S) \in Nat /\ \A x \in S : Min(S) <= x
<1>1. PICK u \in S : \A v \in S : ~(<<v, u>> \in OpToRel(<, Nat))
  BY NatLessThanWellFounded, WFMin
<1>2. \A v \in S : ~(v < u)
  BY <1>1 DEF OpToRel
<1>3. \E x \in S : \A y \in S : x <= y
  BY <1>2
<1>4. Min(S) \in S /\ \A y \in S : Min(S) <= y
  BY <1>3 DEF Min
<1> QED BY <1>4

\* Every secret is shorter than what is held, and one more.
LEMMA HoldCovers ==
    ASSUME SecretsOK
    PROVE  Hold \in Nat /\ \A m \in DOMAIN secrets : Len(secrets[m]) <= Hold + 1
<1>0. /\ Len(secrets) \in Nat /\ DOMAIN secrets = 1..Len(secrets)
      /\ \A m \in DOMAIN secrets : Len(secrets[m]) \in Nat /\ Len(secrets[m]) # 0
  BY SecretsType
<1> DEFINE B == {k \in Nat : k <= Len(secrets) => \E b \in Nat : \A m \in 1..k : Len(secrets[m]) <= b}
<1>1. 0 \in B
  OBVIOUS
<1>2. ASSUME NEW k \in B PROVE k + 1 \in B
  <2>0. k \in Nat /\ k + 1 \in Nat
    OBVIOUS
  <2>1. ASSUME k + 1 <= Len(secrets) PROVE \E b \in Nat : \A m \in 1..(k + 1) : Len(secrets[m]) <= b
    <3>1. PICK b \in Nat : \A m \in 1..k : Len(secrets[m]) <= b
      BY <2>0, <2>1
    <3>2. k + 1 \in DOMAIN secrets
      BY <1>0, <2>0, <2>1
    <3>3. Len(secrets[k + 1]) \in Nat /\ b + Len(secrets[k + 1]) \in Nat
      BY <1>0, <3>2
    <3>4. ASSUME NEW m \in 1..(k + 1) PROVE Len(secrets[m]) <= b + Len(secrets[k + 1])
      <4>1. m \in DOMAIN secrets /\ Len(secrets[m]) \in Nat
        BY <1>0, <2>0, <2>1
      <4>2. m \in 1..k \/ m = k + 1
        BY <2>0
      <4> QED BY <3>1, <3>3, <4>1, <4>2
    <3> QED BY <3>3, <3>4
  <2> QED BY <2>0, <2>1
<1>3. B = Nat
  <2> HIDE DEF B
  <2>1. B \in SUBSET Nat
    BY DEF B
  <2> QED BY <1>1, <1>2, <2>1, NatSets
<1>4. PICK b \in Nat : \A m \in DOMAIN secrets : Len(secrets[m]) <= b
  <2>1. Len(secrets) \in B
    <3> HIDE DEF B
    <3> QED BY <1>0, <1>3
  <2>2. Len(secrets) <= Len(secrets) => \E b \in Nat : \A m \in 1..Len(secrets) : Len(secrets[m]) <= b
    BY <2>1, Zenon
  <2>3. Len(secrets) <= Len(secrets)
    BY <1>0
  <2> HIDE DEF B
  <2> QED BY <1>0, <2>2, <2>3, Zenon
<1> DEFINE S == {0} \cup {Len(secrets[k]) : k \in DOMAIN secrets}
<1>5. S \in SUBSET Nat /\ S # {} /\ \A x \in S : x <= b
  BY <1>0, <1>4
<1>6. Max(S) \in Nat /\ \A x \in S : x <= Max(S)
  <2> HIDE DEF S
  <2> QED BY <1>5, MaxOf
<1>7. Longest \in Nat /\ \A m \in DOMAIN secrets : Len(secrets[m]) <= Longest
  BY <1>6 DEF Longest
<1> QED BY <1>0, <1>7 DEF Hold

\* The first split, before a secret has moved it.
LEMMA FirstSplitIs ==
    ASSUME SecretsOK, NEW text \in Texts, from \in Nat, from <= Len(text)
    PROVE  /\ Len(text) \in Nat /\ FirstSplit(text) \in from..Len(text)
           /\ Len(text) - FirstSplit(text) <= Hold
           /\ FirstSplit(text) = from \/ FirstSplit(text) = Len(text) - Hold
<1>1. Len(text) \in Nat /\ Hold \in Nat
  BY HoldCovers DEF Texts
<1> PICK x, y : x = from /\ y = Len(text) - Hold
  OBVIOUS
<1>2. \E a \in {x, y} : \A c \in {x, y} : a >= c
  BY <1>1
<1>3. Max({x, y}) \in {x, y} /\ \A c \in {x, y} : Max({x, y}) >= c
  BY <1>2 DEF Max
<1>4. FirstSplit(text) = Max({x, y})
  BY DEF FirstSplit
<1> QED BY <1>1, <1>3, <1>4

\* One secret: the split stays, or moves to an occurrence over it.
LEMMA BackToIs ==
    ASSUME SecretsOK, from \in Nat, NEW text \in Texts, NEW first \in Nat, from <= first,
           NEW split \in from..first, NEW m \in DOMAIN secrets
    PROVE  LET s == secrets[m]
               new == BackTo(text, first, split, s)
           IN  /\ new \in from..first
               /\ \/ /\ new = split
                     /\ \A i \in (from + 1)..first : Stands(text, s, i) => i - 1 + Len(s) <= split
                  \/ /\ new + 1 \in (from + 1)..first /\ Stands(text, s, new + 1) /\ new + Len(s) > split
                     /\ \A i \in (from + 1)..first :
                            Stands(text, s, i) /\ i - 1 + Len(s) > split => i <= new + 1
<1> PICK s : s = secrets[m]
  OBVIOUS
<1>0. Len(s) \in Nat
  BY SecretsType
<1> DEFINE over == {i \in (from + 1)..first : Stands(text, s, i) /\ i - 1 + Len(s) > split}
<1>1. CASE over = {}
  <2>1. BackTo(text, first, split, s) = split
    BY <1>1 DEF BackTo
  <2> QED BY <1>0, <1>1, <2>1
<1>2. CASE over # {}
  <2>1. over \in SUBSET Nat /\ \A x \in over : x <= first
    OBVIOUS
  <2>2. Max(over) \in over /\ \A x \in over : x <= Max(over)
    <3> HIDE DEF over
    <3> QED BY <1>2, <2>1, MaxOf
  <2>3. BackTo(text, first, split, s) = Max(over) - 1
    BY <1>2 DEF BackTo
  <2> PICK top : top = Max(over)
    OBVIOUS
  <2>4. top \in (from + 1)..first /\ Stands(text, s, top) /\ top - 1 + Len(s) > split
    BY <2>2
  <2>5. ASSUME NEW i \in (from + 1)..first, Stands(text, s, i), i - 1 + Len(s) > split PROVE i <= top
    BY <2>2, <2>5
  <2>6. (top - 1) + 1 = top /\ top - 1 \in from..first /\ (top - 1) + Len(s) > split
    BY <1>0, <2>4
  <2> HIDE DEF over
  <2> QED BY <2>3, <2>4, <2>5, <2>6
<1> QED BY <1>1, <1>2

Splitted(f, text) ==
    /\ f[0] = FirstSplit(text)
    /\ \A k \in 1..Len(secrets) : f[k] = BackTo(text, FirstSplit(text), f[k - 1], secrets[k])
    /\ \A k \in 0..Len(secrets) : f[k] \in from..FirstSplit(text)

LEMMA SplitsAre ==
    ASSUME SecretsOK, NEW text \in Texts, from \in Nat, from <= Len(text)
    PROVE  Splitted(Splits(text), text)
<1> DEFINE n == Len(secrets)
<1> PICK first : first = FirstSplit(text)
  OBVIOUS
<1> DEFINE V == from..first
           h == [z \in (1..n) \X V |-> BackTo(text, first, z[2], secrets[z[1]])]
           F(f) == [k \in 0..n |-> IF k = 0 THEN first ELSE BackTo(text, first, f[k - 1], secrets[k])]
<1>0. n \in Nat /\ DOMAIN secrets = 1..n
  BY SecretsType
<1>1. first \in V /\ first \in Nat /\ from <= first
  BY FirstSplitIs
<1>2. ASSUME NEW z \in (1..n) \X V PROVE BackTo(text, first, z[2], secrets[z[1]]) \in V
  <2> PICK m, split : m = z[1] /\ split = z[2]
    OBVIOUS
  <2>1. m \in DOMAIN secrets /\ split \in from..first
    BY <1>0
  <2>2. BackTo(text, first, split, secrets[m]) \in from..first
    BY <1>1, <2>1, BackToIs
  <2> QED BY <2>2
<1>3. h \in [(1..n) \X V -> V]
  BY <1>2
<1>4. PICK f \in [0..n -> V] : Runs(f, n, first, h)
  <2> HIDE DEF h, n, V
  <2> QED BY <1>0, <1>1, <1>3, RoundsExist
<1>5. ASSUME NEW k \in 1..n PROVE f[k] = BackTo(text, first, f[k - 1], secrets[k])
  <2>1. f[k] = h[<<k, f[k - 1]>>] /\ k - 1 \in 0..n
    <3> HIDE DEF h
    <3> QED BY <1>0, <1>4 DEF Runs
  <2>2. <<k, f[k - 1]>> \in (1..n) \X V
    BY <2>1, <1>4
  <2> QED BY <2>1, <2>2
<1>6. f = F(f)
  <2>1. \A k \in 0..n : f[k] = F(f)[k]
    BY <1>0, <1>4, <1>5 DEF Runs
  <2> QED BY <1>4, <2>1
<1>7. Splits(text) = CHOOSE g : g = F(g)
  BY DEF Splits
<1>8. PICK g : g = Splits(text)
  OBVIOUS
<1>9. g = F(g)
  <2> HIDE DEF F
  <2> QED BY <1>6, <1>7, <1>8
<1>10. g[0] = first
  BY <1>9, <1>0
<1>11. ASSUME NEW k \in 1..n PROVE g[k] = BackTo(text, first, g[k - 1], secrets[k])
  <2>1. k \in 0..n /\ k # 0
    BY <1>0
  <2>2. F(g)[k] = BackTo(text, first, g[k - 1], secrets[k])
    BY <2>1
  <2> HIDE DEF F
  <2> QED BY <1>9, <2>2, Zenon
<1>12. \A k \in 0..n : g[k] \in from..first
  <2> DEFINE B == {k \in Nat : k <= n => g[k] \in from..first}
  <2>1. 0 \in B
    BY <1>1, <1>10
  <2>2. ASSUME NEW k \in B PROVE k + 1 \in B
    <3>1. k \in Nat /\ k + 1 \in Nat
      OBVIOUS
    <3>2. ASSUME k + 1 <= n PROVE g[k + 1] \in from..first
      <4>1. k + 1 \in DOMAIN secrets /\ k + 1 \in 1..n /\ (k + 1) - 1 = k /\ g[k] \in from..first
        BY <1>0, <3>1, <3>2
      <4>2. BackTo(text, first, g[k], secrets[k + 1]) \in from..first
        BY <1>1, <4>1, BackToIs
      <4> QED BY <1>11, <4>1, <4>2
    <3> QED BY <3>1, <3>2
  <2>3. B = Nat
    <3> HIDE DEF B
    <3>1. B \in SUBSET Nat
      BY DEF B
    <3> QED BY <2>1, <2>2, <3>1, NatSets
  <2> QED BY <2>3, <1>0
<1>13. Splitted(g, text)
  BY <1>10, <1>11, <1>12 DEF Splitted
<1> QED BY <1>8, <1>13

\* The split moves back by less than a secret for every secret.
LEMMA SplitBound ==
    ASSUME SecretsOK, NEW text \in Texts, from \in Nat, from <= Len(text)
    PROVE  /\ SplitOpen(text) \in from..FirstSplit(text)
           /\ Len(text) - SplitOpen(text) <= (Len(secrets) + 1) * Hold
<1> PICK first : first = FirstSplit(text)
  OBVIOUS
<1> PICK f : f = Splits(text)
  OBVIOUS
<1>0. /\ Len(secrets) \in Nat /\ DOMAIN secrets = 1..Len(secrets) /\ Hold \in Nat
      /\ \A m \in DOMAIN secrets : Len(secrets[m]) \in Nat /\ Len(secrets[m]) <= Hold + 1
  BY SecretsType, HoldCovers
<1>1. /\ f[0] = first
      /\ \A k \in 1..Len(secrets) : f[k] = BackTo(text, first, f[k - 1], secrets[k])
      /\ \A k \in 0..Len(secrets) : f[k] \in from..first
  BY SplitsAre DEF Splitted
<1>2. first \in Nat /\ from <= first /\ Len(text) - first <= Hold /\ Len(text) \in Nat
  BY FirstSplitIs
<1> DEFINE B == {k \in Nat : k <= Len(secrets) => first - f[k] <= k * Hold}
<1>3. 0 \in B
  BY <1>0, <1>1, <1>2
<1>4. ASSUME NEW k \in B PROVE k + 1 \in B
  <2>0. k \in Nat /\ k + 1 \in Nat
    OBVIOUS
  <2>1. ASSUME k + 1 <= Len(secrets) PROVE first - f[k + 1] <= (k + 1) * Hold
    <3>1. /\ k + 1 \in DOMAIN secrets /\ k + 1 \in 1..Len(secrets) /\ (k + 1) - 1 = k
          /\ f[k] \in from..first /\ first - f[k] <= k * Hold
      BY <1>0, <1>1, <2>0, <2>1
    <3>2. f[k + 1] = BackTo(text, first, f[k], secrets[k + 1])
      BY <1>1, <3>1
    <3>3. Len(secrets[k + 1]) \in Nat /\ Len(secrets[k + 1]) <= Hold + 1
      BY <1>0, <3>1
    <3>4. f[k + 1] \in from..first /\ (f[k + 1] = f[k] \/ f[k + 1] + Len(secrets[k + 1]) > f[k])
      BY <1>2, <3>1, <3>2, BackToIs
    <3>5. f[k] - f[k + 1] <= Hold
      BY <1>0, <3>1, <3>3, <3>4
    <3>6. (k + 1) * Hold = k * Hold + Hold /\ k * Hold \in Nat
      BY <1>0, <2>0
    <3>7. first \in Int /\ f[k] \in Int /\ f[k + 1] \in Int /\ Hold \in Int /\ k * Hold \in Int
      BY <1>0, <1>2, <3>1, <3>4, <3>6
    <3>8. \A a, b, c, x, y \in Int : a - b <= x /\ b - c <= y => a - c <= x + y
      OBVIOUS
    <3>9. first - f[k + 1] <= k * Hold + Hold
      BY <3>1, <3>5, <3>7, <3>8, Zenon
    <3> QED BY <3>6, <3>9, Zenon
  <2> QED BY <2>0, <2>1
<1>5. B = Nat
  <2> HIDE DEF B
  <2>1. B \in SUBSET Nat
    BY DEF B
  <2> QED BY <1>3, <1>4, <2>1, NatSets
<1>6. Len(secrets) \in B
  <2> HIDE DEF B
  <2> QED BY <1>0, <1>5
<1>7. SplitOpen(text) = f[Len(secrets)] /\ f[Len(secrets)] \in from..first
  BY <1>0, <1>1 DEF SplitOpen
<1>8. first - f[Len(secrets)] <= Len(secrets) * Hold
  BY <1>0, <1>6
<1>9. (Len(secrets) + 1) * Hold = Len(secrets) * Hold + Hold /\ Len(secrets) * Hold \in Nat
  BY <1>0
<1> QED BY <1>0, <1>2, <1>7, <1>8, <1>9

\* What holds of the split once the first n secrets have been looked at.
Unmoved(text, first, split, n) ==
    \/ split = first
    \/ \E m \in 1..n : /\ split + 1 \in (from + 1)..first
                       /\ Stands(text, secrets[m], split + 1)
                       /\ split + Len(secrets[m]) > first
Clear(text, split, n) ==
    \A m \in 1..n, i \in (from + 1)..split :
        Stands(text, secrets[m], i) => i - 1 + Len(secrets[m]) <= split

LEMMA SplitStep ==
    ASSUME SecretsOK, SecretsApart, NEW text \in Texts, from \in Nat,
           NEW first \in Nat, from <= first, NEW old \in from..first,
           NEW n \in Nat, n + 1 \in DOMAIN secrets, NEW new, new = BackTo(text, first, old, secrets[n + 1]),
           Unmoved(text, first, old, n), Clear(text, old, n)
    PROVE  Unmoved(text, first, new, n + 1) /\ Clear(text, new, n + 1)
<1> PICK k, s : k = n + 1 /\ s = secrets[n + 1]
  OBVIOUS
<1>0. /\ k \in DOMAIN secrets /\ s = secrets[k] /\ Len(s) \in Nat /\ Len(s) # 0
      /\ \A m \in 1..k : /\ m \in DOMAIN secrets /\ secrets[m] \in Words
                         /\ Len(secrets[m]) \in Nat /\ Len(secrets[m]) # 0
  BY SecretsType
<1>1. ASSUME NEW m \in 1..k, NEW l \in 1..k,
             NEW i \in (from + 1)..first, NEW j \in (from + 1)..first,
             Stands(text, secrets[m], i), Stands(text, secrets[l], j),
             i <= j + Len(secrets[l]) - 1, j <= i + Len(secrets[m]) - 1
      PROVE  i = j
  <2>1. Apart(secrets[m], secrets[l]) /\ Apart(secrets[l], secrets[m])
    BY <1>0 DEF SecretsApart
  <2>2. i \in Nat /\ i # 0 /\ j \in Nat /\ j # 0
    OBVIOUS
  <2> QED BY <1>0, <1>1, <2>1, <2>2, ApartStand
<1>2. /\ new \in from..first
      /\ \/ /\ new = old
            /\ \A i \in (from + 1)..first : Stands(text, s, i) => i - 1 + Len(s) <= old
         \/ /\ new + 1 \in (from + 1)..first /\ Stands(text, s, new + 1) /\ new + Len(s) > old
            /\ \A i \in (from + 1)..first : Stands(text, s, i) /\ i - 1 + Len(s) > old => i <= new + 1
  BY <1>0, BackToIs
<1>3. k \in 1..k /\ \A m \in 1..k : m \in 1..n \/ m = k
  OBVIOUS
<1>4. CASE new = old
  <2>1. Unmoved(text, first, new, k)
    BY <1>4 DEF Unmoved
  <2>2. ASSUME NEW m \in 1..k, NEW i \in (from + 1)..new, Stands(text, secrets[m], i)
        PROVE  i - 1 + Len(secrets[m]) <= new
    <3>1. CASE m \in 1..n
      BY <1>4, <2>2, <3>1 DEF Clear
    <3>2. CASE m = k
      <4>0. i \in (from + 1)..first /\ Stands(text, s, i)
        BY <1>0, <1>2, <2>2, <3>2
      <4>1. SUFFICES ASSUME i - 1 + Len(s) > new PROVE FALSE
        BY <1>0, <1>2, <3>2, <4>0
      <4>2. new + 1 \in (from + 1)..first /\ Stands(text, s, new + 1)
        BY <1>0, <1>2, <1>4, <4>0, <4>1
      <4> PICK top : top = new + 1
        OBVIOUS
      <4> PICK w : w = Len(s)
        OBVIOUS
      <4>a. w \in Nat /\ w # 0 /\ i \in Int /\ new \in Int /\ i <= new /\ i - 1 + w > new
        BY <1>0, <1>2, <4>1
      <4>3. i <= top + w - 1 /\ top <= i + w - 1
        BY <4>a
      <4>4. i = top
        BY <1>0, <1>1, <1>3, <4>0, <4>2, <4>3
      <4> QED BY <1>2, <2>2, <4>4
    <3> QED BY <1>3, <3>1, <3>2
  <2> QED BY <2>1, <2>2 DEF Clear
<1>5. CASE new # old
  <2> PICK top : top = new + 1
    OBVIOUS
  <2>0. top \in (from + 1)..first /\ Stands(text, s, top) /\ top - 1 + Len(s) > old /\ new \in Int
    BY <1>0, <1>2, <1>5
  <2>1. old = first
    <3>1. SUFFICES ASSUME old # first PROVE FALSE
      OBVIOUS
    <3>2. PICK m \in 1..n : /\ old + 1 \in (from + 1)..first /\ Stands(text, secrets[m], old + 1)
                            /\ old + Len(secrets[m]) > first
      BY <3>1 DEF Unmoved
    <3> PICK u : u = old + 1
      OBVIOUS
    <3>3. m \in 1..k /\ Len(secrets[m]) \in Nat
      BY <1>0
    <3> PICK w, x : w = Len(s) /\ x = Len(secrets[m])
      OBVIOUS
    <3>a. /\ w \in Nat /\ x \in Nat /\ top \in Int /\ top <= first
          /\ top - 1 + w > old /\ old + x > first
      <4>1. top \in Int /\ top <= first /\ w \in Nat /\ x \in Nat
        BY <1>0, <2>0, <3>3
      <4>2. top - 1 + w > old
        BY <2>0
      <4>3. old + x > first
        BY <3>2
      <4> QED BY <4>1, <4>2, <4>3
    <3>b. old \in Int /\ first \in Int /\ new \in Int
      BY <2>0
    <3>4. u <= top + w - 1 /\ top <= u + x - 1
      <4>1. u <= top + w - 1
        BY <3>a, <3>b
      <4>2. \A a, o, g, y \in Int : a <= g /\ o + y > g => a <= (o + 1) + y - 1
        OBVIOUS
      <4>3. x \in Int
        BY <3>a
      <4>4. top <= (old + 1) + x - 1
        BY <3>a, <3>b, <4>2, <4>3, Zenon
      <4> QED BY <4>1, <4>4
    <3>5. u = top
      BY <1>0, <1>1, <1>3, <2>0, <3>2, <3>3, <3>4
    <3> QED BY <2>0, <1>5, <3>5
  <2>2. Unmoved(text, first, new, k)
    <3> PICK w : w = Len(s)
      OBVIOUS
    <3>1. w \in Nat /\ top - 1 + w > first
      BY <1>0, <2>0, <2>1
    <3>2. new + w > first
      BY <2>0, <3>1
    <3> QED BY <1>0, <1>3, <2>0, <3>2 DEF Unmoved
  <2>3. ASSUME NEW m \in 1..k, NEW i \in (from + 1)..new, Stands(text, secrets[m], i)
        PROVE  i - 1 + Len(secrets[m]) <= new
    <3>0. i \in (from + 1)..first /\ i < top /\ Len(secrets[m]) \in Nat
      BY <1>0, <1>2
    <3>1. SUFFICES ASSUME i - 1 + Len(secrets[m]) > new PROVE FALSE
      BY <1>2, <3>0
    <3> PICK w, x : w = Len(s) /\ x = Len(secrets[m])
      OBVIOUS
    <3>a. w \in Nat /\ w # 0 /\ x \in Nat /\ i \in Int /\ new \in Int /\ i <= new /\ i - 1 + x > new
      BY <1>0, <2>0, <3>0, <3>1
    <3>2. i <= top + w - 1 /\ top <= i + x - 1
      BY <3>a
    <3>3. i = top
      BY <1>0, <1>1, <1>3, <2>0, <2>3, <3>0, <3>2
    <3> QED BY <3>0, <3>3
  <2> QED BY <2>2, <2>3 DEF Clear
<1> QED BY <1>4, <1>5

\* Of secrets that do not overlap no occurrence is cut in two by the split,
\* and only the one that lies over the first split has moved it.
LEMMA SplitApart ==
    ASSUME SecretsOK, SecretsApart, NEW text \in Texts, from \in Nat, from <= Len(text)
    PROVE  /\ FirstSplit(text) - SplitOpen(text) <= Hold
           /\ \A m \in DOMAIN secrets, i \in (from + 1)..SplitOpen(text) :
                  Stands(text, secrets[m], i) => i - 1 + Len(secrets[m]) <= SplitOpen(text)
<1> PICK first : first = FirstSplit(text)
  OBVIOUS
<1> PICK f : f = Splits(text)
  OBVIOUS
<1> PICK n : n = Len(secrets)
  OBVIOUS
<1>0. /\ n \in Nat /\ DOMAIN secrets = 1..n /\ Hold \in Nat
      /\ \A m \in DOMAIN secrets : Len(secrets[m]) \in Nat /\ Len(secrets[m]) <= Hold + 1
  BY SecretsType, HoldCovers
<1>1. /\ f[0] = first
      /\ \A k \in 1..n : f[k] = BackTo(text, first, f[k - 1], secrets[k])
      /\ \A k \in 0..n : f[k] \in from..first
  BY SplitsAre DEF Splitted
<1>2. first \in Nat /\ from <= first
  BY FirstSplitIs
<1> DEFINE B == {k \in Nat : k <= n => Unmoved(text, first, f[k], k) /\ Clear(text, f[k], k)}
<1>3. 0 \in B
  BY <1>1 DEF Unmoved, Clear
<1>4. ASSUME NEW k \in B PROVE k + 1 \in B
  <2>0. k \in Nat /\ k + 1 \in Nat
    OBVIOUS
  <2>1. ASSUME k + 1 <= n
        PROVE  Unmoved(text, first, f[k + 1], k + 1) /\ Clear(text, f[k + 1], k + 1)
    <3>1. /\ k + 1 \in DOMAIN secrets /\ k + 1 \in 1..n /\ (k + 1) - 1 = k
          /\ f[k] \in from..first /\ k <= n
      BY <1>0, <1>1, <2>0, <2>1
    <3>2. Unmoved(text, first, f[k], k) /\ Clear(text, f[k], k)
      BY <3>1
    <3>3. f[k + 1] = BackTo(text, first, f[k], secrets[k + 1])
      BY <1>1, <3>1
    <3> HIDE DEF B
    <3> PICK old, new : old = f[k] /\ new = f[k + 1]
      OBVIOUS
    <3> QED BY <1>2, <2>0, <3>1, <3>2, <3>3, SplitStep
  <2> QED BY <2>0, <2>1
<1>5. B = Nat
  <2> HIDE DEF B
  <2>1. B \in SUBSET Nat
    BY DEF B
  <2> QED BY <1>3, <1>4, <2>1, NatSets
<1>6. n \in B
  <2> HIDE DEF B
  <2> QED BY <1>0, <1>5
<1> PICK split : split = f[n]
  OBVIOUS
<1>7. Unmoved(text, first, split, n) /\ Clear(text, split, n)
  BY <1>0, <1>6
<1>8. SplitOpen(text) = split /\ split \in from..first
  BY <1>0, <1>1 DEF SplitOpen
<1>9. first - split <= Hold
  <2>1. CASE split = first
    BY <1>0, <1>2, <2>1
  <2>2. CASE split # first
    <3>1. PICK m \in 1..n : split + Len(secrets[m]) > first
      BY <1>7, <2>2 DEF Unmoved
    <3>2. Len(secrets[m]) \in Nat /\ Len(secrets[m]) <= Hold + 1
      BY <1>0
    <3> QED BY <1>0, <1>2, <1>8, <3>1, <3>2
  <2> QED BY <2>1, <2>2
<1> QED BY <1>0, <1>7, <1>8, <1>9 DEF Clear

\* At a finish: all of it, or up to the beginning of a secret.
LEMMA SplitFinishIs ==
    ASSUME SecretsOK, NEW text \in Texts, from \in Nat, from <= Len(text)
    PROVE  /\ SplitFinish(text) \in from..Len(text)
           /\ SplitFinish(text) = Len(text) \/ \E k \in DOMAIN secrets : Begins(text, secrets[k], SplitFinish(text) + 1)
<1> DEFINE inside(s, i) == \E j \in (from + 1)..i : Stands(text, s, j) /\ i < j + Len(s)
           open(s) == {i \in (from + 1)..Len(text) : Begins(text, s, i) /\ ~inside(s, i)}
           all == UNION {{i - 1 : i \in open(secrets[k])} : k \in DOMAIN secrets}
           S == {Len(text)} \cup all
<1>0. Len(text) \in Nat
  BY DEF Texts
<1>1. ASSUME NEW x \in all
      PROVE  x \in from..Len(text) /\ \E k \in DOMAIN secrets : Begins(text, secrets[k], x + 1)
  <2>1. PICK k \in DOMAIN secrets : x \in {i - 1 : i \in open(secrets[k])}
    OBVIOUS
  <2>2. PICK i \in (from + 1)..Len(text) : x = i - 1 /\ Begins(text, secrets[k], i)
    BY <2>1
  <2>3. i = x + 1 /\ x \in from..Len(text)
    BY <1>0, <2>2
  <2> QED BY <2>2, <2>3
<1>2. S \in SUBSET Nat /\ S # {}
  <2> HIDE DEF all
  <2> QED BY <1>0, <1>1
<1>3. Min(S) \in S
  <2> HIDE DEF S
  <2> QED BY <1>2, MinOf
<1>4. SplitFinish(text) = Min(S)
  BY DEF SplitFinish
<1> PICK split : split = SplitFinish(text)
  OBVIOUS
<1>5. split = Len(text) \/ split \in all
  <2> HIDE DEF all
  <2> QED BY <1>3, <1>4
<1> HIDE DEF all, S
<1> QED BY <1>0, <1>1, <1>5

-----------------------------------------------------------------------------
(* The stream *)

\* The tail begins where the output begins or was cut, or far enough from the
\* end for every secret that is still to come.
Anchored == from = 0 \/ from \in cuts \/ from + Hold <= Len(raw)

\* No secret lies over the beginning of the tail, unless a cut does too.
NoneOver ==
    \A m \in DOMAIN secrets, i \in 1..from :
        LET last == i + Len(secrets[m]) - 1
        IN  Stands(raw, secrets[m], i) /\ last > from => CutInside(i, last)

StreamInv ==
    /\ RedactTypeOK /\ SecretsOK
    /\ Anchored /\ (SecretsApart => NoneOver)
    /\ SecretsHidden /\ OnlySecretsGo /\ TailIsBounded

\* The output so far and one read more.
LEMMA ReadType ==
    ASSUME StreamInv, NEW data \in Texts, NEW text, text = raw \o data
    PROVE  /\ text \in Texts /\ raw \in Texts /\ Len(raw) \in Nat /\ Len(text) \in Nat
           /\ Len(raw) <= Len(text) /\ from \in Nat /\ from <= Len(raw) /\ from <= Len(text)
           /\ \A q \in 1..Len(raw) : text[q] = raw[q]
BY DEF StreamInv, RedactTypeOK, Texts

\* A secret that a read completes did not begin before the tail.
LEMMA NoneOverLater ==
    ASSUME StreamInv, SecretsApart, NEW data \in Texts, NEW text, text = raw \o data,
           NEW m \in DOMAIN secrets, NEW i \in 1..from, Stands(text, secrets[m], i),
           i + Len(secrets[m]) - 1 > from
    PROVE  CutInside(i, i + Len(secrets[m]) - 1)
<1> PICK s, last : s = secrets[m] /\ last = i + Len(s) - 1
  OBVIOUS
<1>0. /\ raw \in Texts /\ Len(raw) \in Nat /\ from \in Nat /\ i \in Nat /\ i # 0
      /\ s \in Texts /\ Len(s) \in Nat /\ Hold \in Nat /\ Len(s) <= Hold + 1
  <2>1. SecretsOK
    BY DEF StreamInv
  <2>2. raw \in Texts /\ Len(raw) \in Nat /\ from \in Nat
    BY ReadType
  <2> QED BY <2>1, <2>2, SecretsType, HoldCovers
<1>1. CASE last <= Len(raw)
  <2>1. Stands(raw, s, i)
    BY <1>0, <1>1, StandsGrows
  <2> QED BY <2>1 DEF StreamInv, NoneOver
<1>2. CASE last > Len(raw)
  <2>1. ~(from + Hold <= Len(raw))
    BY <1>0, <1>2
  <2>2. from \in cuts
    BY <1>0, <2>1 DEF StreamInv, Anchored
  <2> QED BY <2>2 DEF CutInside
<1> QED BY <1>0, <1>1, <1>2

\* What a cut left of a secret is still there.
LEMMA OpensGrows ==
    ASSUME StreamInv, NEW data \in Texts, NEW text, text = raw \o data, raw' = text,
           NEW s \in Texts, NEW c \in cuts, NEW i \in Nat, i # 0, i <= c, Opens(s, i, c)
    PROVE  Opens(s, i, c)'
<1>0. /\ raw \in Texts /\ text \in Texts /\ Len(raw) \in Nat /\ Len(text) \in Nat
      /\ c \in Nat /\ c <= Len(raw) /\ c <= Len(text) /\ \A q \in 1..Len(raw) : text[q] = raw[q]
  <2>1. /\ raw \in Texts /\ text \in Texts /\ Len(raw) \in Nat /\ Len(text) \in Nat
        /\ Len(raw) <= Len(text) /\ \A q \in 1..Len(raw) : text[q] = raw[q]
    BY ReadType
  <2>2. cuts \subseteq 0..Len(raw)
    BY DEF StreamInv, RedactTypeOK
  <2> QED BY <2>1, <2>2
<1>1. SubSeq(text, i, c) = SubSeq(raw, i, c)
  <2>1. /\ SubSeq(text, i, c) \in Seq(Alphabet) /\ SubSeq(raw, i, c) \in Seq(Alphabet)
        /\ Len(SubSeq(text, i, c)) = c - i + 1 /\ Len(SubSeq(raw, i, c)) = c - i + 1
    BY <1>0 DEF Texts
  <2>2. \A q \in 1..(c - i + 1) : /\ SubSeq(text, i, c)[q] = text[i + q - 1]
                                  /\ SubSeq(raw, i, c)[q] = raw[i + q - 1]
                                  /\ i + q - 1 \in 1..Len(raw)
    BY <1>0 DEF Texts
  <2> QED BY <1>0, <2>1, <2>2
<1> QED BY <1>1 DEF Opens

\* The positions in new lie behind the tail's beginning and in no secret that
\* begins there.
Innocent(text, new) ==
    /\ \A p \in new : p \in Int /\ p > from
    /\ \A m \in DOMAIN secrets, i \in (from + 1)..Len(text) :
           Stands(text, secrets[m], i) => (i..(i + Len(secrets[m]) - 1)) \cap new = {}

\* A step that stores such positions keeps the secrets hidden.
LEMMA HiddenKept ==
    ASSUME StreamInv, SecretsApart, NEW data \in Texts, NEW text, text = raw \o data,
           raw' = text, secrets' = secrets, cuts \subseteq cuts',
           NEW new, stored' = stored \cup new, Innocent(text, new)
    PROVE  SecretsHidden'
<1>0. /\ text \in Texts /\ raw \in Texts /\ Len(raw) \in Nat /\ Len(text) \in Nat
      /\ Len(raw) <= Len(text) /\ from \in Nat /\ from <= Len(raw)
  BY ReadType
<1>1. stored \subseteq 1..from /\ SecretsOK
  BY DEF StreamInv, RedactTypeOK
<1>2. ASSUME NEW m \in DOMAIN secrets, NEW i \in 1..Len(text), NEW last, last = i + Len(secrets[m]) - 1,
             Stands(text, secrets[m], i), ~(\E c \in cuts' : i <= c /\ c < last), NEW p \in i..last, p \in stored'
      PROVE  FALSE
  <2>0. secrets[m] \in Texts /\ Len(secrets[m]) \in Nat /\ last \in Int /\ i \in Nat /\ i # 0 /\ p \in Int
    BY <1>1, <1>2, SecretsType
  <2>1. ~CutInside(i, last)
    BY <1>2 DEF CutInside
  <2>2. ASSUME i \in 1..from, last > from PROVE FALSE
    BY <1>2, <2>1, <2>2, NoneOverLater
  <2>3. CASE p \in stored
    <3>1. p \in 1..from
      BY <1>1, <2>3
    <3>2. last <= Len(raw)
      BY <1>0, <2>0, <2>2, <3>1
    <3>3. Stands(raw, secrets[m], i)
      BY <1>0, <1>2, <2>0, <3>2, StandsGrows
    <3>4. i \in 1..Len(raw)
      BY <1>0, <3>1
    <3> QED BY <1>2, <2>1, <2>3, <3>3, <3>4 DEF StreamInv, SecretsHidden
  <2>4. CASE p \in new
    <3>1. i \in (from + 1)..Len(text)
      BY <1>0, <2>0, <2>2, <2>4 DEF Innocent
    <3> QED BY <1>2, <2>4, <3>1 DEF Innocent
  <2> QED BY <1>2, <2>3, <2>4
<1> QED BY <1>2 DEF SecretsHidden, CutInside, Stands

\* Why a position is missing in the journal.
Explained(p) ==
    \E k \in DOMAIN secrets, i \in 1..p :
        \/ Stands(raw, secrets[k], i) /\ p < i + Len(secrets[k])
        \/ \E c \in cuts : p <= c /\ Opens(secrets[k], i, c)

LEMMA LossKept ==
    ASSUME StreamInv, NEW data \in Texts, NEW text, text = raw \o data,
           raw' = text, secrets' = secrets, cuts \subseteq cuts', stored \subseteq stored', from' \in Nat,
           \A p \in (from + 1)..from' : p \in stored' \/ Explained(p)'
    PROVE  OnlySecretsGo'
<1>0. raw \in Texts /\ from \in Nat /\ SecretsOK
  BY ReadType DEF StreamInv
<1>1. ASSUME NEW p \in 1..from, p \notin stored PROVE Explained(p)'
  <2>1. PICK k \in DOMAIN secrets, i \in 1..p :
            \/ Stands(raw, secrets[k], i) /\ p < i + Len(secrets[k])
            \/ \E c \in cuts : p <= c /\ Opens(secrets[k], i, c)
    BY <1>1 DEF StreamInv, OnlySecretsGo
  <2>2. secrets[k] \in Texts /\ i \in Nat /\ i # 0 /\ p \in Nat /\ i <= p
    BY <1>0, SecretsType
  <2>3. CASE Stands(raw, secrets[k], i) /\ p < i + Len(secrets[k])
    <3>1. Stands(text, secrets[k], i)
      BY <1>0, <2>2, <2>3, StandsGrows
    <3>2. Stands(raw', secrets'[k], i)
      BY <3>1
    <3> QED BY <2>3, <3>2 DEF Explained, Stands
  <2>4. CASE \E c \in cuts : p <= c /\ Opens(secrets[k], i, c)
    <3>1. PICK c \in cuts : p <= c /\ Opens(secrets[k], i, c)
      BY <2>4
    <3>2. c \in Nat
      BY DEF StreamInv, RedactTypeOK
    <3> PICK s : s = secrets[k]
      OBVIOUS
    <3>a. s \in Texts /\ Opens(s, i, c) /\ i <= c
      BY <2>2, <3>1, <3>2 DEF Opens
    <3>b. Opens(s, i, c)'
      BY <2>2, <3>a, OpensGrows
    <3>3. Opens(secrets[k], i, c)' /\ c \in cuts'
      BY <3>b DEF Opens
    <3> QED BY <3>1, <3>3 DEF Explained
  <2> QED BY <2>1, <2>3, <2>4
<1>2. ASSUME NEW p \in (1..from') \ stored' PROVE Explained(p)'
  <2>1. p \in 1..from \/ p \in (from + 1)..from'
    BY <1>0
  <2> QED BY <1>1, <1>2, <2>1
<1> QED BY <1>2 DEF OnlySecretsGo, Explained

\* Invariants that depend on the secrets alone do not change.
LEMMA SecretsStay ==
    ASSUME secrets' = secrets
    PROVE  Hold' = Hold /\ (SecretsOK <=> SecretsOK') /\ (SecretsApart <=> SecretsApart')
BY DEF Hold, Longest, SecretsOK, SecretsApart, Apart

LEMMA TakenExplained ==
    ASSUME SecretsOK, NEW text \in Texts, NEW low \in Nat, NEW high \in Nat, low <= high,
           raw' = text, secrets' = secrets, NEW p \in Redact(text, low, high)
    PROVE  p \in (low + 1)..high /\ Explained(p)'
<1>0. Len(secrets) \in Nat /\ DOMAIN secrets = 1..Len(secrets)
  BY SecretsType
<1>1. Taken(text, Len(secrets), low, high, p)
  BY <1>0, RedactSound DEF Redact
<1>2. PICK m \in DOMAIN secrets, j \in (low + 1)..high :
          Within(text, m, j, low, high) /\ j <= p /\ p <= j + Len(secrets[m]) - 1 /\ p \in Int
  BY <1>0, <1>1 DEF Taken
<1>3. /\ Len(secrets[m]) \in Nat /\ j \in 1..p /\ p < j + Len(secrets[m]) /\ p \in (low + 1)..high
      /\ Stands(text, secrets[m], j)
  BY <1>2, SecretsType DEF Within
<1>4. Stands(raw', secrets'[m], j) /\ p < j + Len(secrets'[m]) /\ m \in DOMAIN secrets'
  BY <1>3
<1>5. Explained(p)'
  BY <1>3, <1>4 DEF Explained, Stands
<1> QED BY <1>3, <1>5

LEMMA PieceStep ==
    ASSUME StreamInv, NEW data \in Texts, Piece(data)
    PROVE  StreamInv'
<1> PICK text : text = raw \o data
  OBVIOUS
<1> PICK split : split = SplitOpen(text)
  OBVIOUS
<1> PICK new : new = (from + 1)..split \ Redact(text, from, split)
  OBVIOUS
<1>0. /\ text \in Texts /\ raw \in Texts /\ Len(raw) \in Nat /\ Len(text) \in Nat /\ SecretsOK
      /\ Len(raw) <= Len(text) /\ from \in Nat /\ from <= Len(raw) /\ from <= Len(text)
  BY ReadType DEF StreamInv
<1>1. /\ Len(text) <= MaxRaw /\ raw' = text /\ from' = split /\ stored' = stored \cup new
      /\ secrets' = secrets /\ cuts' = cuts /\ ended' = ended
  BY DEF Piece
<1>2. /\ Hold \in Nat /\ Hold' = Hold /\ Len(secrets) \in Nat
      /\ (SecretsOK <=> SecretsOK') /\ (SecretsApart <=> SecretsApart')
  BY <1>0, <1>1, SecretsStay, HoldCovers, SecretsType
<1> PICK first : first = FirstSplit(text)
  OBVIOUS
<1>3. /\ first \in from..Len(text) /\ Len(text) - first <= Hold
      /\ first = from \/ first = Len(text) - Hold
  BY <1>0, FirstSplitIs
<1>4. split \in from..first /\ Len(text) - split <= (Len(secrets) + 1) * Hold
  BY <1>0, SplitBound
<1>5. split \in Nat /\ from <= split /\ split <= Len(text)
  BY <1>0, <1>3, <1>4
<1>6. RedactTypeOK'
  <2>a. stored \subseteq 1..from
    BY DEF StreamInv, RedactTypeOK
  <2>b. new \subseteq 1..split /\ 1..from \subseteq 1..split
    BY <1>0, <1>5
  <2>1. stored' \subseteq 1..split
    BY <1>1, <2>a, <2>b
  <2>2. cuts' \subseteq 0..Len(text)
    BY <1>0, <1>1 DEF StreamInv, RedactTypeOK
  <2> QED BY <1>0, <1>1, <1>5, <2>1, <2>2 DEF StreamInv, RedactTypeOK, Texts
<1>7. Anchored'
  BY <1>0, <1>1, <1>2, <1>3, <1>4 DEF StreamInv, Anchored
<1>8. ASSUME SecretsApart
      PROVE  \A m \in DOMAIN secrets, i \in (from + 1)..split :
                 Stands(text, secrets[m], i) => i - 1 + Len(secrets[m]) <= split
  BY <1>0, <1>8, SplitApart
<1>9. ASSUME SecretsApart PROVE NoneOver'
  <2>1. ASSUME NEW m \in DOMAIN secrets, NEW i \in 1..split, NEW last, last = i + Len(secrets[m]) - 1,
               Stands(text, secrets[m], i), last > split
        PROVE  CutInside(i, last)
    <3>0. Len(secrets[m]) \in Nat /\ i \in Int /\ last \in Int
      BY <1>0, <2>1, SecretsType
    <3>1. i \in 1..from
      <4>1. SUFFICES ASSUME i \in (from + 1)..split PROVE FALSE
        BY <1>0, <1>5
      <4>2. i - 1 + Len(secrets[m]) <= split
        BY <1>8, <1>9, <2>1, <4>1
      <4> QED BY <1>5, <2>1, <3>0, <4>2
    <3>2. last > from
      BY <1>0, <1>5, <2>1, <3>0
    <3> QED BY <1>9, <2>1, <3>1, <3>2, NoneOverLater
  <2> QED BY <1>1, <2>1 DEF NoneOver, CutInside, Stands
<1>10. SecretsHidden'
  <2>1. SUFFICES ASSUME SecretsApart PROVE SecretsHidden'
    BY <1>2 DEF SecretsHidden
  <2>2. \A p \in new : p \in Int /\ p > from
    BY <1>0, <1>5
  <2>3. ASSUME NEW m \in DOMAIN secrets, NEW i \in (from + 1)..Len(text), Stands(text, secrets[m], i),
               NEW p \in i..(i + Len(secrets[m]) - 1), p \in new
        PROVE  FALSE
    <3>0. Len(secrets[m]) \in Nat /\ p \in Int /\ p <= split /\ i \in (from + 1)..split
      BY <1>0, <1>5, <2>3, SecretsType
    <3>1. i - 1 + Len(secrets[m]) <= split
      BY <1>8, <2>1, <2>3, <3>0
    <3>2. Within(text, m, i, from, split)
      BY <2>3, <3>0, <3>1 DEF Within
    <3>3. p \in Redact(text, from, split)
      BY <1>0, <1>5, <2>1, <2>3, <3>0, <3>2, RedactComplete
    <3> QED BY <2>3, <3>3
  <2>4. Innocent(text, new)
    BY <2>2, <2>3 DEF Innocent
  <2>5. cuts \subseteq cuts' /\ raw' = text /\ secrets' = secrets /\ stored' = stored \cup new
    BY <1>1
  <2> QED BY <2>1, <2>4, <2>5, HiddenKept
<1>11. OnlySecretsGo'
  <2>1. ASSUME NEW p \in (from + 1)..split PROVE p \in stored' \/ Explained(p)'
    <3>1. CASE p \in Redact(text, from, split)
      BY <1>0, <1>1, <1>5, <3>1, TakenExplained
    <3>2. CASE p \notin Redact(text, from, split)
      BY <1>1, <3>2
    <3> QED BY <3>1, <3>2
  <2> QED BY <1>1, <1>5, <2>1, LossKept
<1>12. TailIsBounded'
  <2>1. SecretsApart => Len(text) - split <= 2 * Hold
    <3>1. SUFFICES ASSUME SecretsApart PROVE Len(text) - split <= 2 * Hold
      OBVIOUS
    <3>2. first - split <= Hold
      BY <1>0, <3>1, SplitApart
    <3> QED BY <1>0, <1>2, <1>3, <1>5, <3>2
  <2> QED BY <1>1, <1>2, <1>4, <2>1 DEF TailIsBounded
<1> QED BY <1>0, <1>2, <1>6, <1>7, <1>9, <1>10, <1>11, <1>12 DEF StreamInv

\* What is replaced of the tail at a finish.
LEMMA TailExplained ==
    ASSUME SecretsOK, NEW text \in Texts, NEW low \in Nat, low <= Len(text),
           raw' = text, secrets' = secrets, Len(text) \in cuts', NEW p \in RedactTail(text, low)
    PROVE  p \in (low + 1)..Len(text) /\ Explained(p)'
<1>0. Len(text) \in Nat /\ MinLen \in Nat
  BY RedactionAssumption DEF Texts
<1>1. CASE \E k \in DOMAIN secrets : Begins(text, secrets[k], low + 1)
  <2>1. PICK k \in DOMAIN secrets : Begins(text, secrets[k], low + 1)
    BY <1>1
  <2>2. p \in (low + 1)..Len(text)
    BY <1>1 DEF RedactTail
  <2> PICK i, c : i = low + 1 /\ c = Len(text)
    OBVIOUS
  <2>3. i \in 1..p /\ p <= c /\ c - i + 1 = Len(text) - (low + 1) + 1 /\ c \in cuts'
    BY <1>0, <2>2
  <2>4. Opens(secrets[k], i, c)'
    BY <2>1, <2>3 DEF Opens, Begins
  <2>5. Explained(p)'
    BY <2>3, <2>4 DEF Explained
  <2> QED BY <2>2, <2>5
<1>2. CASE ~\E k \in DOMAIN secrets : Begins(text, secrets[k], low + 1)
  <2>1. p \in Redact(text, low, Len(text))
    BY <1>2 DEF RedactTail
  <2> QED BY <1>0, <2>1, TakenExplained
<1> QED BY <1>1, <1>2

\* The beginning of a secret at the end of the text lies on no other secret.
LEMMA BeginsApart ==
    ASSUME NEW text \in Texts, NEW s \in Words, NEW t \in Words, Apart(s, t),
           NEW i \in Nat, i # 0, NEW j \in Nat, i <= j, j <= i + Len(s) - 1,
           Stands(text, s, i), Begins(text, t, j)
    PROVE  i = j
<1>0. Len(text) \in Nat /\ Len(s) \in Nat /\ Len(t) \in Nat /\ text \in Seq(Alphabet) /\ t \in Seq(Alphabet)
  BY DEF Words, Texts
<1>1. i + Len(s) - 1 <= Len(text)
  BY DEF Stands
<1> PICK n : n = Len(text) - j + 1
  OBVIOUS
<1>2. n \in Int /\ n < Len(t) /\ SubSeq(text, j, Len(text)) = SubSeq(t, 1, n) /\ n > 0
  BY <1>0, <1>1 DEF Begins
<1>3. ASSUME NEW q \in 1..Len(t), j + q - 1 <= i + Len(s) - 1 PROVE text[j + q - 1] = t[q]
  <2>1. q \in 1..n
    BY <1>0, <1>1, <1>3
  <2>2. SubSeq(text, j, Len(text))[q] = text[j + q - 1]
    BY <1>0, <1>2, <2>1
  <2>3. SubSeq(t, 1, n)[q] = t[q]
    BY <1>0, <1>2, <2>1
  <2> QED BY <1>2, <2>2, <2>3
<1> QED BY <1>3, ApartFrom

LEMMA FinishStep ==
    ASSUME StreamInv, NEW data \in Texts, Finish(data), ended' \in BOOLEAN
    PROVE  StreamInv'
<1> PICK text : text = raw \o data
  OBVIOUS
<1> PICK split : split = SplitFinish(text)
  OBVIOUS
<1> PICK new : new = (from + 1)..Len(text) \ (Redact(text, from, split) \cup RedactTail(text, split))
  OBVIOUS
<1>0. /\ text \in Texts /\ raw \in Texts /\ Len(raw) \in Nat /\ Len(text) \in Nat /\ SecretsOK
      /\ Len(raw) <= Len(text) /\ from \in Nat /\ from <= Len(raw) /\ from <= Len(text)
  BY ReadType DEF StreamInv
<1>1. /\ Len(text) <= MaxRaw /\ raw' = text /\ from' = Len(text) /\ stored' = stored \cup new
      /\ secrets' = secrets /\ cuts' = cuts \cup {Len(text)}
  BY DEF Finish
<1>2. /\ Hold \in Nat /\ Hold' = Hold /\ Len(secrets) \in Nat
      /\ (SecretsOK <=> SecretsOK') /\ (SecretsApart <=> SecretsApart')
  BY <1>0, <1>1, SecretsStay, HoldCovers, SecretsType
<1>3. /\ split \in Nat /\ from <= split /\ split <= Len(text)
      /\ split = Len(text) \/ \E k \in DOMAIN secrets : Begins(text, secrets[k], split + 1)
  <2>1. /\ split \in from..Len(text)
        /\ split = Len(text) \/ \E k \in DOMAIN secrets : Begins(text, secrets[k], split + 1)
    BY <1>0, SplitFinishIs, Zenon
  <2>2. split \in Nat /\ from <= split /\ split <= Len(text)
    BY <1>0, <2>1
  <2> QED BY <2>1, <2>2
<1>4. RedactTypeOK'
  <2>a. stored \subseteq 1..from /\ cuts \subseteq 0..Len(raw)
    BY DEF StreamInv, RedactTypeOK
  <2>b. new \subseteq 1..Len(text) /\ 1..from \subseteq 1..Len(text)
    BY <1>0
  <2>1. stored' \subseteq 1..Len(text)
    BY <1>1, <2>a, <2>b
  <2>2. cuts' \subseteq 0..Len(text)
    <3>1. cuts \subseteq 0..Len(text) /\ Len(text) \in 0..Len(text)
      BY <1>0, <2>a
    <3> QED BY <1>1, <3>1
  <2> QED BY <1>0, <1>1, <2>1, <2>2 DEF StreamInv, RedactTypeOK, Texts
<1>5. Anchored'
  BY <1>1 DEF Anchored
<1>6. NoneOver'
  <2>1. ASSUME NEW m \in DOMAIN secrets, NEW i \in 1..Len(text), Stands(text, secrets[m], i),
               i + Len(secrets[m]) - 1 > Len(text)
        PROVE  FALSE
    <3>1. Len(secrets[m]) \in Nat /\ i + Len(secrets[m]) - 1 <= Len(text)
      BY <1>0, <2>1, SecretsType DEF Stands
    <3> QED BY <1>0, <2>1, <3>1
  <2> QED BY <1>1, <2>1 DEF NoneOver, Stands
<1>7. SecretsHidden'
  <2>1. SUFFICES ASSUME SecretsApart PROVE SecretsHidden'
    BY <1>2 DEF SecretsHidden
  <2>2. \A p \in new : p \in Int /\ p > from
    BY <1>0
  <2>3. ASSUME NEW m \in DOMAIN secrets, NEW i \in (from + 1)..Len(text), Stands(text, secrets[m], i),
               NEW p \in i..(i + Len(secrets[m]) - 1), p \in new
        PROVE  FALSE
    <3> PICK last : last = i - 1 + Len(secrets[m])
      OBVIOUS
    <3>0. /\ Len(secrets[m]) \in Nat /\ Len(secrets[m]) # 0 /\ secrets[m] \in Words
          /\ p \in Int /\ last \in Int /\ i <= last /\ p <= last
          /\ i \in Nat /\ i # 0 /\ last <= Len(text)
      BY <1>0, <2>3, SecretsType DEF Stands
    <3>1. CASE last <= split
      <4>1. i \in (from + 1)..split
        BY <1>0, <1>3, <3>0, <3>1
      <4>2. Within(text, m, i, from, split)
        BY <2>3, <3>0, <3>1, <4>1 DEF Within
      <4>3. p \in Redact(text, from, split)
        BY <1>0, <1>3, <2>1, <2>3, <4>1, <4>2, RedactComplete
      <4> QED BY <2>3, <4>3
    <3>2. CASE i > split
      <4>1. i \in (split + 1)..Len(text) /\ p \in (split + 1)..Len(text)
        BY <1>0, <1>3, <2>3, <3>0, <3>2
      <4>2. Within(text, m, i, split, Len(text))
        BY <1>0, <2>3, <3>0, <4>1 DEF Within
      <4>3. p \in Redact(text, split, Len(text))
        BY <1>0, <1>3, <2>1, <2>3, <4>1, <4>2, RedactComplete
      <4>4. p \in RedactTail(text, split)
        BY <4>1, <4>3 DEF RedactTail
      <4> QED BY <2>3, <4>4
    <3>3. CASE i <= split /\ split < last
      <4>1. PICK k \in DOMAIN secrets : Begins(text, secrets[k], split + 1)
        BY <1>0, <1>3, <3>0, <3>3
      <4>2. secrets[k] \in Words /\ Apart(secrets[m], secrets[k])
        BY <1>0, <2>1, SecretsType DEF SecretsApart
      <4> PICK j : j = split + 1
        OBVIOUS
      <4>3. j \in Nat /\ i <= j /\ j <= i + Len(secrets[m]) - 1 /\ i # j
        BY <1>3, <3>0, <3>3
      <4> QED BY <1>0, <2>3, <3>0, <4>1, <4>2, <4>3, BeginsApart
    <3> QED BY <1>0, <1>3, <3>0, <3>1, <3>2, <3>3
  <2>4. Innocent(text, new)
    BY <2>2, <2>3 DEF Innocent
  <2>5. cuts \subseteq cuts' /\ raw' = text /\ secrets' = secrets /\ stored' = stored \cup new
    BY <1>1
  <2> QED BY <2>1, <2>4, <2>5, HiddenKept
<1>8. OnlySecretsGo'
  <2>0. Len(text) \in cuts' /\ stored \subseteq stored' /\ cuts \subseteq cuts' /\ from' \in Nat
    BY <1>0, <1>1
  <2>1. ASSUME NEW p \in (from + 1)..Len(text) PROVE p \in stored' \/ Explained(p)'
    <3>1. CASE p \in Redact(text, from, split)
      BY <1>0, <1>1, <1>3, <3>1, TakenExplained
    <3>2. CASE p \in RedactTail(text, split)
      BY <1>0, <1>1, <1>3, <2>0, <3>2, TailExplained
    <3>3. CASE p \notin Redact(text, from, split) /\ p \notin RedactTail(text, split)
      BY <1>1, <3>3
    <3> QED BY <3>1, <3>2, <3>3
  <2> QED BY <1>1, <2>0, <2>1, LossKept
<1>9. TailIsBounded'
  <2>1. Len(text) - Len(text) = 0 /\ 0 <= (Len(secrets) + 1) * Hold /\ 0 <= 2 * Hold
    BY <1>0, <1>2
  <2> QED BY <1>1, <1>2, <2>1 DEF TailIsBounded
<1> QED BY <1>0, <1>2, <1>4, <1>5, <1>6, <1>7, <1>8, <1>9 DEF StreamInv

\* The secrets that are kept.
LEMMA KeptSecrets ==
    ASSUME NEW list \in Seq(Seq(Alphabet))
    PROVE  LongEnough(list)[Len(list)] \in Seq(Words)
<1> DEFINE n == Len(list)
           h == [z \in (1..n) \X Seq(Words) |->
                    IF Len(list[z[1]]) >= MinLen THEN Append(z[2], list[z[1]]) ELSE z[2]]
           F(f) == [k \in 0..n |-> IF k = 0 THEN <<>>
                                   ELSE IF Len(list[k]) >= MinLen THEN Append(f[k - 1], list[k])
                                   ELSE f[k - 1]]
<1>0. n \in Nat /\ <<>> \in Seq(Words)
  OBVIOUS
<1>1. ASSUME NEW k \in 1..n, NEW v \in Seq(Words)
      PROVE  (IF Len(list[k]) >= MinLen THEN Append(v, list[k]) ELSE v) \in Seq(Words)
  <2>1. list[k] \in Seq(Alphabet) /\ Len(list[k]) \in Nat
    OBVIOUS
  <2>2. CASE Len(list[k]) >= MinLen
    <3>1. list[k] \in Words
      BY <2>1, <2>2, RedactionAssumption DEF Words
    <3> QED BY <2>2, <3>1
  <2> QED BY <2>2
<1>2. h \in [(1..n) \X Seq(Words) -> Seq(Words)]
  BY <1>1
<1>3. PICK f \in [0..n -> Seq(Words)] : Runs(f, n, <<>>, h)
  <2> HIDE DEF h, n
  <2> QED BY <1>0, <1>2, RoundsExist
<1>4. ASSUME NEW k \in 1..n
      PROVE  f[k] = IF Len(list[k]) >= MinLen THEN Append(f[k - 1], list[k]) ELSE f[k - 1]
  <2>1. f[k] = h[<<k, f[k - 1]>>] /\ k - 1 \in 0..n
    <3>1. f[k] = h[<<k, f[k - 1]>>]
      <4> HIDE DEF h, n
      <4> QED BY <1>3, Zenon DEF Runs
    <3> QED BY <1>0, <3>1
  <2>2. <<k, f[k - 1]>> \in (1..n) \X Seq(Words)
    BY <2>1, <1>3
  <2> QED BY <2>1, <2>2
<1>5. f = F(f)
  <2>0. f[0] = <<>>
    BY <1>3, Zenon DEF Runs
  <2>1. ASSUME NEW k \in 0..n PROVE f[k] = F(f)[k]
    <3>1. CASE k = 0
      BY <2>0, <3>1
    <3>2. CASE k # 0
      <4>1. k \in 1..n
        BY <1>0, <3>2
      <4>2. F(f)[k] = IF Len(list[k]) >= MinLen THEN Append(f[k - 1], list[k]) ELSE f[k - 1]
        BY <3>2
      <4> HIDE DEF F
      <4> QED BY <1>4, <4>1, <4>2, Zenon
    <3> QED BY <3>1, <3>2
  <2> QED BY <1>3, <2>1
<1>6. LongEnough(list) = CHOOSE g : g = F(g)
  BY DEF LongEnough
<1>7. PICK g : g = LongEnough(list)
  OBVIOUS
<1>8. g = F(g)
  <2> HIDE DEF F
  <2> QED BY <1>5, <1>6, <1>7
<1>9. g[0] = <<>>
  BY <1>8, <1>0
<1>10. ASSUME NEW k \in 1..n
       PROVE  g[k] = IF Len(list[k]) >= MinLen THEN Append(g[k - 1], list[k]) ELSE g[k - 1]
  <2>1. k \in 0..n /\ k # 0
    BY <1>0
  <2>2. F(g)[k] = IF Len(list[k]) >= MinLen THEN Append(g[k - 1], list[k]) ELSE g[k - 1]
    BY <2>1
  <2> HIDE DEF F
  <2> QED BY <1>8, <2>2, Zenon
<1> DEFINE B == {k \in Nat : k <= n => g[k] \in Seq(Words)}
<1>11. 0 \in B
  BY <1>9, <1>0
<1>12. ASSUME NEW k \in B PROVE k + 1 \in B
  <2>1. k \in Nat /\ k + 1 \in Nat
    OBVIOUS
  <2>2. ASSUME k + 1 <= n PROVE g[k + 1] \in Seq(Words)
    <3>1. k + 1 \in 1..n /\ (k + 1) - 1 = k /\ g[k] \in Seq(Words)
      BY <1>0, <2>1, <2>2
    <3>2. g[k + 1] = IF Len(list[k + 1]) >= MinLen THEN Append(g[k], list[k + 1]) ELSE g[k]
      BY <1>10, <3>1
    <3> QED BY <1>1, <3>1, <3>2
  <2> QED BY <2>1, <2>2
<1>13. B = Nat
  <2> HIDE DEF B
  <2>1. B \in SUBSET Nat
    BY DEF B
  <2> QED BY <1>11, <1>12, <2>1, NatSets
<1>14. n \in B
  <2> HIDE DEF B
  <2> QED BY <1>0, <1>13
<1> QED BY <1>0, <1>7, <1>14

LEMMA InitStream == RedactInit => StreamInv
<1> SUFFICES ASSUME RedactInit PROVE StreamInv
  OBVIOUS
<1>1. SecretsOK
  <2>1. PICK list \in SecretLists : secrets = LongEnough(list)[Len(list)]
    BY DEF RedactInit
  <2>2. list \in Seq(Seq(Alphabet))
    BY RedactionAssumption
  <2> QED BY <2>1, <2>2, KeptSecrets DEF SecretsOK
<1>2. raw = <<>> /\ from = 0 /\ stored = {} /\ cuts = {} /\ ended = FALSE
  BY DEF RedactInit
<1>3. /\ raw \in Seq(Alphabet) /\ Len(raw) = 0 /\ Len(secrets) \in Nat /\ Hold \in Nat /\ MaxRaw \in Nat
      /\ secrets \in Seq(Seq(Alphabet))
  <2>1. secrets \in Seq(Seq(Alphabet))
    BY <1>1 DEF SecretsOK, Words
  <2> QED BY <1>1, <1>2, <2>1, SecretsType, HoldCovers, RedactionAssumption
<1>4. RedactTypeOK
  <2>1. from \in 0..Len(raw) /\ Len(raw) <= MaxRaw /\ stored \subseteq 1..from /\ cuts \subseteq 0..Len(raw)
    BY <1>2, <1>3
  <2> QED BY <1>2, <1>3, <2>1 DEF RedactTypeOK
<1>5. Anchored /\ NoneOver /\ SecretsHidden /\ OnlySecretsGo
  BY <1>2 DEF Anchored, NoneOver, SecretsHidden, OnlySecretsGo
<1>6. TailIsBounded
  <2>1. 0 <= (Len(secrets) + 1) * Hold /\ 0 <= 2 * Hold
    BY <1>3
  <2> QED BY <1>2, <1>3, <2>1 DEF TailIsBounded
<1> QED BY <1>1, <1>4, <1>5, <1>6 DEF StreamInv

LEMMA StutterStream ==
    ASSUME StreamInv, UNCHANGED redactVars
    PROVE  StreamInv'
<1>1. /\ secrets' = secrets /\ raw' = raw /\ from' = from
      /\ stored' = stored /\ cuts' = cuts /\ ended' = ended
  BY DEF redactVars
<1>2. Hold' = Hold /\ (SecretsOK <=> SecretsOK') /\ (SecretsApart <=> SecretsApart')
  BY <1>1, SecretsStay
<1>3. RedactTypeOK' /\ Anchored' /\ TailIsBounded'
  BY <1>1, <1>2 DEF StreamInv, RedactTypeOK, Anchored, TailIsBounded
<1>4. SecretsApart => NoneOver'
  BY <1>1 DEF StreamInv, NoneOver, CutInside, Stands
<1>5. SecretsHidden'
  BY <1>1, <1>2 DEF StreamInv, SecretsHidden, CutInside, Stands
<1>6. OnlySecretsGo'
  <2>1. \A s, i, c : Opens(s, i, c)' <=> Opens(s, i, c)
    BY <1>1 DEF Opens
  <2>2. ASSUME NEW p \in (1..from) \ stored PROVE Explained(p)'
    <3>1. PICK k \in DOMAIN secrets, i \in 1..p :
              \/ Stands(raw, secrets[k], i) /\ p < i + Len(secrets[k])
              \/ \E c \in cuts : p <= c /\ Opens(secrets[k], i, c)
      BY DEF StreamInv, OnlySecretsGo
    <3>2. \/ Stands(raw', secrets'[k], i) /\ p < i + Len(secrets'[k])
          \/ \E c \in cuts' : p <= c /\ Opens(secrets'[k], i, c)
      BY <1>1, <3>1
    <3> QED BY <1>1, <2>1, <3>2 DEF Explained, Stands
  <2> QED BY <1>1, <2>2 DEF OnlySecretsGo, Explained
<1> QED BY <1>2, <1>3, <1>4, <1>5, <1>6 DEF StreamInv

LEMMA NextStream ==
    ASSUME StreamInv, [RedactNext]_redactVars
    PROVE  StreamInv'
<1>1. ASSUME NEW data \in Pieces, Piece(data) PROVE StreamInv'
  <2>1. data \in Texts
    <3>1. PICK n \in 1..MaxPiece : data \in [1..n -> Alphabet]
      BY <1>1 DEF Pieces
    <3>2. n \in Nat
      BY RedactionAssumption
    <3> QED BY <3>1, <3>2 DEF Texts
  <2> QED BY <1>1, <2>1, PieceStep
<1>2. ASSUME FlushForInput PROVE StreamInv'
  <2>1. <<>> \in Texts
    BY DEF Texts
  <2>2. Finish(<<>>) /\ ended' \in BOOLEAN
    BY <1>2 DEF FlushForInput, StreamInv, RedactTypeOK
  <2> QED BY <2>1, <2>2, FinishStep
<1>3. ASSUME NEW data \in {<<>>, <<Replacement>>}, ReaderReturns(data) PROVE StreamInv'
  <2>1. data \in Texts
    <3>1. <<>> \in Seq(Alphabet) /\ <<Replacement>> \in Seq(Alphabet)
      BY RedactionAssumption
    <3> QED BY <3>1 DEF Texts
  <2>2. Finish(data) /\ ended' \in BOOLEAN
    BY <1>3 DEF ReaderReturns
  <2> QED BY <2>1, <2>2, FinishStep
<1> QED BY <1>1, <1>2, <1>3, StutterStream DEF RedactNext

\* The redactor's state keeps its types, and the tail begins where no secret
\* can lie over its beginning, now or later.
THEOREM StreamInvariant == RedactSpec => []StreamInv
<1>1. RedactInit => StreamInv
  BY InitStream
<1>2. StreamInv /\ [RedactNext]_redactVars => StreamInv'
  BY NextStream
<1> QED BY <1>1, <1>2, PTL DEF RedactSpec

\* Of secrets that do not overlap nothing reaches the journal unless an input or
\* the end of the stream came in the middle, however the output is cut into
\* pieces (redact_stream).
THEOREM SecretsHiddenHolds == RedactSpec => []SecretsHidden
  BY StreamInvariant, PTL DEF StreamInv

\* Whatever the secrets, nothing else is replaced (redact, redact_tail).
THEOREM OnlySecretsGoHolds == RedactSpec => []OnlySecretsGo
  BY StreamInvariant, PTL DEF StreamInv

\* Whatever the output, what is held back is bounded by the secrets
\* (redact_stream).
THEOREM TailIsBoundedHolds == RedactSpec => []TailIsBounded
  BY StreamInvariant, PTL DEF StreamInv

THEOREM RedactTypeCorrect == RedactSpec => []RedactTypeOK
  BY StreamInvariant, PTL DEF StreamInv
=============================================================================
