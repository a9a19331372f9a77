------------------------- MODULE OutputJournalProofs ------------------------
(***************************************************************************)
(* The journal is whole, the daemon's cursors are never ahead of it, and a  *)
(* read that got all its files has no gap: proved for every segment size,   *)
(* limit, amount of output, number of pollers, crashes and faults.          *)
(*                                                                          *)
(* The worker's chunks follow each other, but that a chunk is not repeated  *)
(* needs their order, which is carried along.  Once a write has failed, the *)
(* files and the chunks part; what holds of the files alone is therefore    *)
(* stated of the files alone: their starts are different, each ends where   *)
(* another begins or is the last, and they hold every retained byte.  A     *)
(* read has the same of what it got and of what it has still to read.       *)
(*                                                                          *)
(* The second part is about SendWait, the same journal under input and      *)
(* waits: the invariant holds there too, and the cursor of a wait divides   *)
(* what the child wrote before the input from what it wrote after it.       *)
(***************************************************************************)
EXTENDS SendWait, WellFoundedInduction, TLAPS

Oldest == FirstOf(chunks, next)

\* The worker's State, while the lock is held and when it is not.
StateInv ==
    /\ JournalIsWhole
    /\ ~failed => \A i, j \in 1..Len(chunks) : i < j => chunks[i].end <= chunks[j].start
    /\ step = "idle" => first = Oldest
    /\ step = "trim" => ~failed /\ retained > MaxOutputBytes
    /\ Oldest <= next

WorkerInv == TypeOK /\ Arrived <= LastByte /\ StateInv

\* The output directory, also after a failed write.
FilesInv ==
    /\ \A f \in files : f.start < f.end /\ f.start <= next
    /\ \A f, g \in files : f.start = g.start => f = g
    /\ \A f \in files : (\E g \in files : g.start = f.end) \/ (\A g \in files : g.start <= f.start)
    /\ \A b \in Oldest..(next - 1) : \E f \in files : f.start <= b /\ b < f.end

\* The starts of the files that a read listed.
All(r) == reads[r].listed \cup {c.start : c \in reads[r].got}

ReadInv(r) ==
    reads[r].phase = "reading" =>
        /\ reads[r].since <= next
        /\ \A s \in All(r) : s <= reads[r].since /\ (failed \/ s < next)
        /\ \A c \in reads[r].got : c.start < c.end /\ c.start \notin reads[r].listed
        /\ \A c, d \in reads[r].got : c.start = d.start => c = d
        /\ \A c \in reads[r].got : c.end \in All(r) \/ \A s \in All(r) : s <= c.start
        /\ \A f \in files : f.start \in reads[r].listed =>
              f.end \in All(r) \/ \A s \in All(r) : s <= f.start
        /\ \A f \in files : f.end <= reads[r].since => f \in reads[r].got \/ f.start \in reads[r].listed
        /\ \A b \in Oldest..(reads[r].since - 1) :
              \/ \E c \in reads[r].got : c.start <= b /\ b < c.end
              \/ \E f \in files : f.start \in reads[r].listed /\ f.start <= b /\ b < f.end

\* A cursor that the daemon may have.
Behind(c) == c.first <= c.next /\ c.next <= next /\ c.first <= Oldest

CursorInv ==
    /\ Behind(rec) /\ Behind(saved)
    /\ \A p \in Pollers : answers[p] # NoAnswer => Behind(answers[p])
    /\ daemon # "up" => lane # "saving" /\ \A p \in Pollers : answers[p] = NoAnswer
    /\ daemon \in Loading /\ reads["load"].phase = "reading" => saved.next <= reads["load"].since

IndInv == WorkerInv /\ FilesInv /\ CursorInv /\ \A r \in Readers : ReadInv(r)

-----------------------------------------------------------------------------
(* Lowest and Highest *)

\* A set of naturals that is not empty has a least element.
LEMMA Least ==
    ASSUME NEW S \in SUBSET Nat, S # {}
    PROVE  \E m \in S : \A n \in S : m <= n
  <1>1. PICK m \in S : \A n \in S : ~(<<n, m>> \in OpToRel(<, Nat))
    BY NatLessThanWellFounded, WFMin
  <1>2. \A n \in S : ~(n < m)
    BY <1>1 DEF OpToRel
  <1> QED BY <1>2

\* Lowest is the least start.
LEMMA LowestIsLeast ==
    ASSUME NEW cs \in SUBSET Chunks, cs # {}
    PROVE  /\ Lowest(cs) \in {c.start : c \in cs}
           /\ \A c \in cs : Lowest(cs) <= c.start
  <1> DEFINE S == {c.start : c \in cs}
  <1>1. S \in SUBSET Nat /\ S # {}
    BY JournalAssumption DEF Chunks, Positions
  <1>2. \E m \in S : \A n \in S : m <= n
    <2> HIDE DEF S
    <2> QED BY <1>1, Least
  <1>3. \E m \in S : \A c \in cs : m <= c.start
    BY <1>2
  <1> QED BY <1>3 DEF Lowest

\* Highest is the greatest end.
LEMMA HighestIsGreatest ==
    ASSUME NEW cs \in SUBSET Chunks, cs # {}
    PROVE  /\ Highest(cs) \in {c.end : c \in cs}
           /\ \A c \in cs : c.end <= Highest(cs)
  <1> DEFINE S == {LastByte - c.end : c \in cs}
  <1>1. \A c \in cs : c.end \in Nat /\ c.end <= LastByte /\ LastByte \in Nat
    BY JournalAssumption DEF Chunks, Positions
  <1>2. S \in SUBSET Nat /\ S # {}
    BY <1>1
  <1>3. \E m \in S : \A n \in S : m <= n
    <2> HIDE DEF S
    <2> QED BY <1>2, Least
  <1>4. PICK d \in cs : \A c \in cs : LastByte - d.end <= LastByte - c.end
    BY <1>3
  <1>5. \A c \in cs : c.end <= d.end
    BY <1>1, <1>4
  <1>6. \E m \in {c.end : c \in cs} : \A c \in cs : c.end <= m
    BY <1>5
  <1> QED BY <1>6 DEF Highest

\* The end that no other end exceeds is the highest.
LEMMA HighestIs ==
    ASSUME NEW cs \in SUBSET Chunks, NEW c \in cs, \A d \in cs : d.end <= c.end
    PROVE  Highest(cs) = c.end
  <1>1. \A d \in cs : d.end \in Nat
    BY JournalAssumption DEF Chunks, Positions
  <1>2. Highest(cs) \in {d.end : d \in cs} /\ c.end <= Highest(cs)
    BY HighestIsGreatest
  <1> QED BY <1>1, <1>2

-----------------------------------------------------------------------------
(* What the invariant says, in the forms that the steps use *)

\* The first byte of a sequence of chunks.
LEMMA FirstIsNumber ==
    ASSUME NEW cs \in Seq(Chunks), NEW n \in Positions
    PROVE  FirstOf(cs, n) \in Nat /\ n \in Nat
  <1>1. n \in Nat /\ \A c \in Chunks : c.start \in Nat
    BY JournalAssumption DEF Positions, Chunks
  <1>2. cs # <<>> => Head(cs) \in Chunks
    OBVIOUS
  <1> QED BY <1>1, <1>2 DEF FirstOf

\* The numbers are numbers.
LEMMA Numbers ==
    ASSUME TypeOK
    PROVE  /\ next \in Nat /\ first \in Nat /\ retained \in Nat /\ held \in Nat /\ unread \in Nat
           /\ Oldest \in Nat /\ Oldest <= LastByte /\ next <= LastByte /\ LastByte \in Nat
           /\ files \subseteq Chunks /\ \A c \in Chunks : c.start \in Nat /\ c.end \in Nat
           /\ chunks \in Seq(Chunks) /\ Len(chunks) \in Nat
           /\ \A i \in 1..Len(chunks) : chunks[i] \in Chunks
           /\ chunks # <<>> => Len(chunks) >= 1 /\ Oldest = chunks[1].start
           /\ chunks = <<>> => Len(chunks) = 0 /\ Oldest = next
           /\ \A r \in Readers : /\ reads[r].since \in Nat /\ reads[r].got \subseteq Chunks
                                 /\ reads[r].listed \subseteq Positions
  <1>1. /\ next \in Positions /\ first \in Positions /\ retained \in Positions
        /\ held \in Positions /\ unread \in Positions
        /\ files \subseteq Chunks /\ chunks \in Seq(Chunks)
    BY DEF TypeOK
  <1>2. \A r \in Readers : /\ reads[r].since \in Positions /\ reads[r].got \subseteq Chunks
                           /\ reads[r].listed \subseteq Positions
    BY DEF TypeOK
  <1>3. /\ Positions \subseteq Nat /\ LastByte \in Nat /\ \A b \in Positions : b <= LastByte
        /\ \A c \in Chunks : c.start \in Positions /\ c.end \in Positions
    BY JournalAssumption DEF Positions, Chunks
  <1>4. /\ Len(chunks) \in Nat /\ \A i \in 1..Len(chunks) : chunks[i] \in Chunks
        /\ chunks # <<>> => Len(chunks) >= 1 /\ Oldest = chunks[1].start
        /\ chunks = <<>> => Len(chunks) = 0 /\ Oldest = next
    BY <1>1 DEF Oldest, FirstOf
  <1>5. Oldest \in Positions
    BY <1>1, <1>3, <1>4
  <1> QED BY <1>1, <1>2, <1>3, <1>4, <1>5

\* While no write has failed, the files are in a row from the oldest byte to
\* the next one.
LEMMA InARow ==
    ASSUME WorkerInv, ~failed
    PROVE  /\ \A f \in files :
                 /\ f.start < f.end /\ f.end <= next /\ Oldest <= f.start
                 /\ f.end = next \/ \E g \in files : g.start = f.end
                 /\ f.end = next => \A g \in files : g.start <= f.start
           /\ \A f, g \in files : f.start = g.start => f = g
  <1>1. /\ files = {chunks[i] : i \in 1..Len(chunks)}
        /\ \A i \in 1..Len(chunks) :
              /\ chunks[i].start < chunks[i].end
              /\ chunks[i].end = IF i = Len(chunks) THEN next ELSE chunks[i + 1].start
        /\ \A i, j \in 1..Len(chunks) : i < j => chunks[i].end <= chunks[j].start
        /\ Len(chunks) \in Nat /\ next \in Nat
        /\ \A i \in 1..Len(chunks) : chunks[i].start \in Nat /\ chunks[i].end \in Nat
    BY Numbers DEF WorkerInv, StateInv, JournalIsWhole
  <1>2. chunks # <<>> => Oldest = chunks[1].start /\ Len(chunks) > 0
    BY Numbers DEF WorkerInv
  <1>3. ASSUME NEW i \in 1..Len(chunks)
        PROVE  /\ chunks[i].end <= next /\ Oldest <= chunks[i].start
               /\ chunks[i].end = next \/ \E j \in 1..Len(chunks) : chunks[j].start = chunks[i].end
               /\ chunks[i].end = next => i = Len(chunks)
    <2>1. chunks[Len(chunks)].end = next /\ 1 \in 1..Len(chunks) /\ Len(chunks) \in 1..Len(chunks)
      BY <1>1
    <2>2. chunks[i].end <= next
      BY <1>1, <2>1
    <2>3. Oldest = chunks[1].start
      BY <1>1, <1>2
    <2>4. Oldest <= chunks[i].start
      BY <1>1, <2>1, <2>3
    <2>5. chunks[i].end = next \/ \E j \in 1..Len(chunks) : chunks[j].start = chunks[i].end
      BY <1>1
    <2>6. chunks[i].end = next => i = Len(chunks)
      BY <1>1, <2>1
    <2> QED BY <2>2, <2>4, <2>5, <2>6
  <1>4. \A i, j \in 1..Len(chunks) : chunks[i].start = chunks[j].start => i = j
    BY <1>1
  <1>5. \A i \in 1..Len(chunks) : chunks[i].start <= chunks[Len(chunks)].start
    BY <1>1
  <1> QED BY <1>1, <1>3, <1>4, <1>5

\* How a step may change the journal under the eyes of the daemon: a file that
\* is new, or new in what it holds, ends after the last byte there was and
\* begins with it or with the last chunk; a file that is gone held no byte
\* that is still retained.
Grows ==
    /\ next <= next' /\ Oldest <= Oldest' /\ (failed => failed')
    /\ \A f \in files' : f \in files \/
          (~failed /\ next < f.end
           /\ (f.start = next \/ \E l \in files : l.start = f.start /\ l.end = next))
    /\ \A f \in files : f.end <= Oldest' \/
          \E g \in files' : g.start = f.start /\ f.end <= g.end

\* A journal that stays the same grows.
LEMMA SameGrows ==
    ASSUME IndInv, UNCHANGED <<chunks, next, failed, files>>
    PROVE  Grows
  <1>1. next \in Nat /\ Oldest \in Nat /\ \A f \in files : f.end \in Nat
    BY Numbers DEF IndInv, WorkerInv
  <1>2. Oldest' = Oldest
    BY DEF Oldest, FirstOf
  <1> QED BY <1>1, <1>2 DEF Grows

\* What is true of a read stays true while the journal grows.
LEMMA ReadsKept ==
    ASSUME IndInv, Grows, next' \in Nat, Oldest' \in Nat, files' \subseteq Chunks,
           NEW r \in Readers, reads'[r] = reads[r]
    PROVE  ReadInv(r)'
  <1> DEFINE R == reads[r]
  <1>1. /\ next \in Nat /\ Oldest \in Nat
        /\ \A f \in files : f.end \in Nat /\ f.start \in Nat
        /\ \A f \in files' : f.end \in Nat /\ f.start \in Nat
        /\ R.since \in Nat /\ \A c \in R.got : c.start \in Nat /\ c.end \in Nat
        /\ \A s \in R.listed : s \in Nat
    BY Numbers, JournalAssumption DEF IndInv, WorkerInv, Positions
  <1>2. All(r)' = All(r) /\ \A s \in All(r) : s \in Nat
    BY <1>1 DEF All
  <1>3. SUFFICES ASSUME R.phase = "reading"
                 PROVE  ReadInv(r)'
    BY DEF ReadInv
  <1>4. /\ R.since <= next
        /\ \A s \in All(r) : s <= R.since /\ (failed \/ s < next)
        /\ \A c \in R.got : c.start < c.end /\ c.start \notin R.listed
        /\ \A c, d \in R.got : c.start = d.start => c = d
        /\ \A c \in R.got : c.end \in All(r) \/ \A s \in All(r) : s <= c.start
    BY <1>3 DEF IndInv, ReadInv
  <1>5. /\ \A f \in files : f.start \in R.listed =>
              f.end \in All(r) \/ \A s \in All(r) : s <= f.start
        /\ \A f \in files : f.end <= R.since => f \in R.got \/ f.start \in R.listed
        /\ \A b \in Oldest..(R.since - 1) :
              \/ \E c \in R.got : c.start <= b /\ b < c.end
              \/ \E f \in files : f.start \in R.listed /\ f.start <= b /\ b < f.end
    BY <1>3 DEF IndInv, ReadInv
  <1>6. R.listed \subseteq All(r)
    BY DEF All
  <1> HIDE DEF R
  <1>7. R.since <= next' /\ \A s \in All(r) : s <= R.since /\ (failed' \/ s < next')
    BY <1>1, <1>2, <1>4 DEF Grows
  <1>8. ASSUME NEW f \in files', f.start \in R.listed
        PROVE  f.end \in All(r) \/ \A s \in All(r) : s <= f.start
    <2>1. CASE f \in files
      BY <2>1, <1>5, <1>8
    <2>2. CASE f \notin files
      <3>1. ~failed /\ (f.start = next \/ \E l \in files : l.start = f.start /\ l.end = next)
        BY <2>2 DEF Grows
      <3>2. f.start # next /\ next \notin All(r)
        BY <3>1, <1>1, <1>4, <1>6, <1>8
      <3> QED BY <3>1, <3>2, <1>5, <1>8
    <2> QED BY <2>1, <2>2
  <1>9. ASSUME NEW f \in files', f.end <= R.since
        PROVE  f \in R.got \/ f.start \in R.listed
    <2>1. f \in files
      BY <1>9, <1>1, <1>4 DEF Grows
    <2> QED BY <2>1, <1>5, <1>9
  <1>10. ASSUME NEW b \in Oldest'..(R.since - 1)
         PROVE  \/ \E c \in R.got : c.start <= b /\ b < c.end
                \/ \E f \in files' : f.start \in R.listed /\ f.start <= b /\ b < f.end
    <2>1. b \in Oldest..(R.since - 1) /\ b \in Nat /\ Oldest' <= b
      BY <1>1 DEF Grows
    <2>2. CASE \E c \in R.got : c.start <= b /\ b < c.end
      BY <2>2
    <2>3. CASE \E f \in files : f.start \in R.listed /\ f.start <= b /\ b < f.end
      <3>1. PICK f \in files : f.start \in R.listed /\ f.start <= b /\ b < f.end
        BY <2>3
      <3>2. ~(f.end <= Oldest')
        BY <3>1, <2>1, <1>1
      <3>3. PICK g \in files' : g.start = f.start /\ f.end <= g.end
        BY <3>2 DEF Grows
      <3>4. b < g.end
        BY <3>1, <3>3, <2>1, <1>1
      <3> QED BY <3>1, <3>3, <3>4
    <2> QED BY <2>1, <2>2, <2>3, <1>5
  <1>11. reads'[r] = R
    BY DEF R
  <1> QED BY <1>2, <1>4, <1>7, <1>8, <1>9, <1>10, <1>11 DEF ReadInv

-----------------------------------------------------------------------------
(* The worker *)

JournalTypes ==
    /\ chunks \in Seq(Chunks) /\ files \subseteq Chunks
    /\ next \in Positions /\ first \in Positions /\ retained \in Positions
    /\ truncated \in BOOLEAN /\ failed \in BOOLEAN /\ step \in {"idle", "trim"}

\* The chunk that is written is the last one, extended, or follows it.
LEMMA WrittenIsLast ==
    ASSUME IndInv, ~failed, NEW kept \in Nat \ {0}, next + kept <= LastByte
    PROVE  /\ Written(kept) \in Chunks
           /\ Written(kept).end = next + kept /\ Written(kept).start <= next
           /\ \/ Written(kept).start = next
              \/ \E l \in files : l.start = Written(kept).start /\ l.end = next
           /\ \A f \in files : f.start <= Written(kept).start
           /\ Coalesces(kept) => /\ Len(chunks) \in 1..Len(chunks)
                                 /\ chunks[Len(chunks)].end = next
                                 /\ Written(kept).start = chunks[Len(chunks)].start
           /\ ~Coalesces(kept) => Written(kept).start = next
  <1> DEFINE w == Written(kept)
  <1>1. TypeOK /\ WorkerInv
    BY DEF IndInv, WorkerInv
  <1>2. Coalesces(kept) =>
           /\ Len(chunks) \in 1..Len(chunks) /\ chunks[Len(chunks)].end = next
           /\ chunks[Len(chunks)] \in files /\ chunks[Len(chunks)] \in Chunks
    BY <1>1, Numbers DEF Coalesces, WorkerInv, StateInv, JournalIsWhole
  <1>3. /\ w.end = next + kept
        /\ w.start = IF Coalesces(kept) THEN chunks[Len(chunks)].start ELSE next
        /\ w = [start |-> w.start, end |-> w.end]
    BY DEF Written
  <1> HIDE DEF w
  <1>4. w.start \in Nat /\ w.start <= next
    <2>1. CASE Coalesces(kept)
      BY <2>1, <1>1, <1>2, <1>3, Numbers, InARow
    <2>2. CASE ~Coalesces(kept)
      BY <2>2, <1>1, <1>3, Numbers
    <2> QED BY <2>1, <2>2
  <1>5. w \in Chunks
    BY <1>1, <1>3, <1>4, Numbers DEF Chunks, Positions
  <1>6. w.start = next \/ \E l \in files : l.start = w.start /\ l.end = next
    BY <1>2, <1>3
  <1>7. \A f \in files : f.start <= w.start
    <2>1. \A f \in files : f.start \in Nat /\ f.end \in Nat /\ next \in Nat
      BY <1>1, Numbers
    <2> QED BY <1>1, <1>6, <2>1, InARow
  <1> QED BY <1>2, <1>3, <1>4, <1>5, <1>6, <1>7 DEF w

\* The directory after a chunk has been written is still in a row, and has
\* grown.
LEMMA ReplacedInARow ==
    ASSUME IndInv, ~failed, NEW kept \in Nat \ {0}, next + kept <= LastByte,
           NEW F, F = FileReplaced(Written(kept))
    PROVE  /\ F \subseteq Chunks
           /\ \A f \in F : f.start < f.end /\ f.start <= next
           /\ \A f, g \in F : f.start = g.start => f = g
           /\ \A f \in F : (\E g \in F : g.start = f.end) \/ (\A g \in F : g.start <= f.start)
           /\ \A f \in F : f \in files \/
                 (next < f.end /\ (f.start = next \/ \E l \in files : l.start = f.start /\ l.end = next))
           /\ \A f \in files : \E g \in F : g.start = f.start /\ f.end <= g.end
           /\ \A b \in next..(next + kept - 1) : \E f \in F : f.start <= b /\ b < f.end
  <1> DEFINE w == Written(kept)
  <1>1. TypeOK /\ WorkerInv
    BY DEF IndInv, WorkerInv
  <1>2. /\ w \in Chunks /\ w.end = next + kept /\ w.start <= next
        /\ w.start = next \/ \E l \in files : l.start = w.start /\ l.end = next
        /\ \A f \in files : f.start <= w.start
    BY WrittenIsLast
  <1>3. /\ w \in F /\ \A f \in F : f = w \/ (f \in files /\ f.start # w.start)
        /\ \A f \in files : f.start = w.start \/ f \in F
    BY DEF FileReplaced
  <1>4. /\ next \in Nat /\ files \subseteq Chunks
        /\ \A c \in Chunks : c.start \in Nat /\ c.end \in Nat
    BY <1>1, Numbers
  <1>5. /\ \A f \in files :
              /\ f.start < f.end /\ f.end <= next
              /\ f.end = next \/ \E g \in files : g.start = f.end
              /\ f.end = next => \A g \in files : g.start <= f.start
        /\ \A f, g \in files : f.start = g.start => f = g
    BY <1>1, InARow
  <1> HIDE DEF w
  <1>6. F \subseteq Chunks /\ \A f \in F : f.start < f.end /\ f.start <= next
    BY <1>2, <1>3, <1>4, <1>5
  <1>7. \A f, g \in F : f.start = g.start => f = g
    BY <1>3, <1>5
  <1>8. ASSUME NEW f \in F
        PROVE  (\E g \in F : g.start = f.end) \/ (\A g \in F : g.start <= f.start)
    <2>1. CASE f = w
      BY <2>1, <1>2, <1>3, <1>4
    <2>2. CASE f # w
      <3>1. f \in files /\ f.start # w.start
        BY <2>2, <1>3
      <3>2. CASE \E g \in files : g.start = f.end
        <4>1. PICK g \in files : g.start = f.end
          BY <3>2
        <4> QED BY <4>1, <1>3
      <3>3. CASE f.end = next
        <4>1. \A g \in files : g.start <= f.start
          BY <3>1, <3>3, <1>5
        <4>2. w.start = next
          <5>1. ASSUME NEW l \in files, l.start = w.start
                PROVE  FALSE
            BY <5>1, <4>1, <3>1, <1>2, <1>4
          <5> QED BY <5>1, <1>2
        <4> QED BY <4>2, <3>3, <1>3
      <3> QED BY <3>1, <3>2, <3>3, <1>5
    <2> QED BY <2>1, <2>2
  <1>9. \A f \in F : f \in files \/
           (next < f.end /\ (f.start = next \/ \E l \in files : l.start = f.start /\ l.end = next))
    BY <1>2, <1>3, <1>4
  <1>10. \A f \in files : \E g \in F : g.start = f.start /\ f.end <= g.end
    <2>1. TAKE f \in files
    <2>2. CASE f.start = w.start
      BY <2>2, <1>2, <1>3, <1>4, <1>5
    <2>3. CASE f.start # w.start
      BY <2>3, <1>3, <1>4
    <2> QED BY <2>2, <2>3
  <1>11. \A b \in next..(next + kept - 1) : w.start <= b /\ b < w.end
    BY <1>2, <1>4
  <1> QED BY <1>3, <1>6, <1>7, <1>8, <1>9, <1>10, <1>11

\* A write that succeeds.
LEMMA StoreSucceedsStep ==
    ASSUME IndInv, ~failed, NEW kept \in Nat \ {0}, next + kept <= LastByte,
           mode = "pty" \/ retained + kept <= MaxOutputBytes,
           StoreSucceeds(kept), truncated' \in BOOLEAN
    PROVE  JournalTypes' /\ StateInv' /\ FilesInv' /\ Grows
  <1> DEFINE w == Written(kept)
             N == Len(chunks)
             M == Len(chunks')
  <1>1. TypeOK /\ WorkerInv
    BY DEF IndInv, WorkerInv
  <1>2. /\ files' = FileReplaced(w) /\ next' = next + kept /\ retained' = retained + kept
        /\ failed' = failed
        /\ chunks' = IF Coalesces(kept) THEN [chunks EXCEPT ![N] = w] ELSE Append(chunks, w)
        /\ IF mode = "pty" /\ retained + kept > MaxOutputBytes
           THEN step' = "trim" /\ first' = first
           ELSE step' = "idle" /\ first' = Oldest'
    BY DEF StoreSucceeds, Extended, Oldest
  <1>3. /\ w \in Chunks /\ w.end = next + kept /\ w.start <= next
        /\ Coalesces(kept) => N \in 1..N /\ chunks[N].end = next /\ w.start = chunks[N].start
        /\ ~Coalesces(kept) => w.start = next
    BY WrittenIsLast
  <1>4. /\ next \in Nat /\ retained \in Nat /\ first \in Positions /\ Oldest \in Nat
        /\ N \in Nat /\ chunks \in Seq(Chunks)
        /\ \A i \in 1..N : chunks[i] \in Chunks
        /\ \A c \in Chunks : c.start \in Nat /\ c.end \in Nat
        /\ chunks # <<>> => N >= 1 /\ Oldest = chunks[1].start
        /\ chunks = <<>> => N = 0 /\ Oldest = next
        /\ MaxOutputBytes \in Nat /\ LastByte \in Nat
    BY <1>1, Numbers, JournalAssumption DEF TypeOK
  <1>5. /\ files = {chunks[i] : i \in 1..N}
        /\ \A i \in 1..N : /\ chunks[i].start < chunks[i].end
                           /\ chunks[i].end = IF i = N THEN next ELSE chunks[i + 1].start
        /\ retained = next - Oldest /\ Oldest <= next
        /\ \A i, j \in 1..N : i < j => chunks[i].end <= chunks[j].start
    BY <1>1 DEF WorkerInv, StateInv, JournalIsWhole, Oldest
  <1> HIDE DEF w
  \* The new sequence, and the directory
  <1>6. /\ chunks' \in Seq(Chunks) /\ M \in Nat \ {0} /\ chunks'[M] = w /\ chunks' # <<>>
        /\ \A i \in 1..(M - 1) : i \in 1..N /\ chunks'[i] = chunks[i]
        /\ M = IF Coalesces(kept) THEN N ELSE N + 1
    <2>1. CASE Coalesces(kept)
      BY <2>1, <1>2, <1>3, <1>4
    <2>2. CASE ~Coalesces(kept)
      BY <2>2, <1>2, <1>3, <1>4
    <2> QED BY <2>1, <2>2
  <1>7. Oldest' = Oldest
    <2>1. Oldest' = chunks'[1].start
      BY <1>6 DEF Oldest, FirstOf
    <2>2. CASE M = 1
      <3>1. CASE Coalesces(kept)
        BY <2>1, <2>2, <3>1, <1>3, <1>4, <1>6
      <3>2. CASE ~Coalesces(kept)
        BY <2>1, <2>2, <3>2, <1>3, <1>4, <1>6
      <3> QED BY <3>1, <3>2
    <2>3. CASE M # 1
      <3>1. 1 \in 1..(M - 1)
        <4>1. M \in Nat \ {0} /\ M # 1
          BY <2>3, <1>6
        <4> HIDE DEF M
        <4> QED BY <4>1
      <3>2. chunks'[1] = chunks[1] /\ 1 \in 1..N
        BY <3>1, <1>6
      <3>3. chunks # <<>>
        BY <3>2, <1>4
      <3> QED BY <2>1, <3>2, <3>3, <1>4
    <2> QED BY <2>2, <2>3
  <1>8. files' = {chunks'[i] : i \in 1..M}
    <2>1. ASSUME NEW f \in files'
          PROVE  \E i \in 1..M : f = chunks'[i]
      <3>1. CASE f = w
        BY <3>1, <1>6
      <3>2. CASE f # w
        <4>1. f \in files /\ f.start # w.start
          BY <3>2, <1>2 DEF FileReplaced
        <4>2. PICK i \in 1..N : f = chunks[i]
          BY <4>1, <1>5
        <4>3. i \in 1..(M - 1)
          BY <4>1, <4>2, <1>3, <1>4, <1>6
        <4> QED BY <4>2, <4>3, <1>6
      <3> QED BY <3>1, <3>2
    <2>2. ASSUME NEW i \in 1..M
          PROVE  chunks'[i] \in files'
      <3>1. CASE i = M
        BY <3>1, <1>2, <1>6 DEF FileReplaced
      <3>2. CASE i # M
        <4>1. i \in 1..(M - 1) /\ i \in 1..N /\ chunks'[i] = chunks[i] /\ chunks[i] \in files
          BY <3>2, <1>5, <1>6
        <4>2. chunks[i].start # w.start
          <5>1. CASE Coalesces(kept)
            <6>1. i < N /\ chunks[i].end <= chunks[N].start
              BY <5>1, <4>1, <1>3, <1>4, <1>5, <1>6
            <6> QED BY <6>1, <5>1, <4>1, <1>3, <1>4, <1>5
          <5>2. CASE ~Coalesces(kept)
            <6>1. chunks[i].start < next
              BY <4>1, <1>1, <1>4, InARow
            <6> QED BY <6>1, <5>2, <4>1, <1>3, <1>4
          <5> QED BY <5>1, <5>2
        <4> QED BY <4>1, <4>2, <1>2 DEF FileReplaced
      <3> QED BY <3>1, <3>2
    <2> QED BY <2>1, <2>2
  <1>9. \A i \in 1..M : /\ chunks'[i].start < chunks'[i].end
                        /\ chunks'[i].end = IF i = M THEN next' ELSE chunks'[i + 1].start
    <2>1. TAKE i \in 1..M
    <2>2. CASE i = M
      BY <2>2, <1>2, <1>3, <1>4, <1>6
    <2>3. CASE i # M
      <3>1. i \in 1..(M - 1) /\ i \in 1..N /\ chunks'[i] = chunks[i]
        BY <2>3, <1>6
      <3>2. chunks[i].end = chunks'[i + 1].start
        <4>1. CASE i + 1 = M
          <5>1. CASE Coalesces(kept)
            BY <5>1, <4>1, <3>1, <1>3, <1>4, <1>5, <1>6
          <5>2. CASE ~Coalesces(kept)
            BY <5>2, <4>1, <3>1, <1>3, <1>4, <1>5, <1>6
          <5> QED BY <5>1, <5>2
        <4>2. CASE i + 1 # M
          <5>1. i + 1 \in 1..(M - 1)
            BY <4>2, <3>1, <1>6
          <5>2. i + 1 \in 1..N /\ chunks'[i + 1] = chunks[i + 1]
            BY <5>1, <1>6
          <5>3. i # N
            BY <5>2
          <5> QED BY <5>2, <5>3, <3>1, <1>5
        <4> QED BY <4>1, <4>2
      <3> QED BY <2>3, <3>1, <3>2, <1>5
    <2> QED BY <2>2, <2>3
  <1>10. \A i, j \in 1..M : i < j => chunks'[i].end <= chunks'[j].start
    <2>1. SUFFICES ASSUME NEW i \in 1..M, NEW j \in 1..M, i < j
                   PROVE  chunks'[i].end <= chunks'[j].start
      OBVIOUS
    <2>2. i \in 1..(M - 1) /\ i \in 1..N /\ chunks'[i] = chunks[i]
      BY <2>1, <1>6
    <2>3. CASE j = M
      <3>1. CASE Coalesces(kept)
        BY <3>1, <2>1, <2>2, <2>3, <1>3, <1>4, <1>5, <1>6
      <3>2. CASE ~Coalesces(kept)
        <4>1. chunks[i].end <= next
          BY <2>2, <1>1, <1>5, InARow
        <4> QED BY <4>1, <3>2, <2>2, <2>3, <1>3, <1>6
      <3> QED BY <3>1, <3>2
    <2>4. CASE j # M
      <3>1. j \in 1..(M - 1)
        BY <2>4, <1>6
      <3>2. j \in 1..N /\ chunks'[j] = chunks[j]
        BY <3>1, <1>6
      <3> QED BY <2>1, <2>2, <3>2, <1>5
    <2> QED BY <2>3, <2>4
  <1>11. /\ files' \subseteq Chunks
         /\ \A f \in files' : f.start < f.end /\ f.start <= next
         /\ \A f, g \in files' : f.start = g.start => f = g
         /\ \A f \in files' : (\E g \in files' : g.start = f.end) \/ (\A g \in files' : g.start <= f.start)
         /\ \A f \in files' : f \in files \/
               (next < f.end /\ (f.start = next \/ \E l \in files : l.start = f.start /\ l.end = next))
         /\ \A f \in files : \E g \in files' : g.start = f.start /\ f.end <= g.end
         /\ \A b \in next..(next + kept - 1) : \E f \in files' : f.start <= b /\ b < f.end
    BY <1>2, ReplacedInARow DEF w
  <1>12. JournalTypes'
    <2>1. next' \in Positions /\ retained' \in Positions /\ Oldest' \in Positions
      BY <1>2, <1>4, <1>5, <1>7 DEF Positions
    <2>2. first' \in Positions /\ step' \in {"idle", "trim"}
      BY <1>2, <1>4, <2>1
    <2>3. failed' \in BOOLEAN
      BY <1>1, <1>2 DEF TypeOK
    <2> QED BY <1>6, <1>11, <2>1, <2>2, <2>3 DEF JournalTypes
  <1>13. StateInv'
    <2>1. retained' = next' - Oldest' /\ Oldest' <= next'
      BY <1>2, <1>4, <1>5, <1>7
    <2>2. /\ step' = "idle" => retained' <= MaxOutputBytes /\ first' = Oldest'
          /\ step' = "trim" => ~failed' /\ retained' > MaxOutputBytes
      BY <1>2, <1>4
    <2> QED BY <1>8, <1>9, <1>10, <2>1, <2>2 DEF StateInv, JournalIsWhole, Oldest
  <1>14. FilesInv'
    <2>1. \A f \in files' : f.start <= next'
      BY <1>2, <1>4, <1>11
    <2>2. ASSUME NEW b \in Oldest'..(next' - 1)
          PROVE  \E f \in files' : f.start <= b /\ b < f.end
      <3>1. CASE b < next
        <4>1. PICK f \in files : f.start <= b /\ b < f.end
          BY <3>1, <1>2, <1>4, <1>7 DEF IndInv, FilesInv
        <4>2. PICK g \in files' : g.start = f.start /\ f.end <= g.end
          BY <1>11
        <4>3. b < g.end
          BY <4>1, <4>2, <1>1, <1>4, <1>11, Numbers
        <4> QED BY <4>1, <4>2, <4>3
      <3>2. CASE b >= next
        BY <3>2, <1>2, <1>4, <1>7, <1>11
      <3> QED BY <3>1, <3>2, <1>4, <1>7
    <2> QED BY <1>11, <2>1, <2>2 DEF FilesInv
  <1>15. Grows
    BY <1>2, <1>4, <1>7, <1>11 DEF Grows
  <1> QED BY <1>12, <1>13, <1>14, <1>15

\* A write that fails, with the new file in place or not.
LEMMA StoreFailsStep ==
    ASSUME IndInv, ~failed, step = "idle", NEW kept \in Nat \ {0}, next + kept <= LastByte,
           StoreFails(kept), truncated' \in BOOLEAN
    PROVE  JournalTypes' /\ StateInv' /\ FilesInv' /\ Grows /\ next' = next
  <1> DEFINE w == Written(kept)
             N == Len(chunks)
  <1>1. TypeOK /\ WorkerInv
    BY DEF IndInv, WorkerInv
  <1>2. /\ files' = files \/ files' = FileReplaced(w)
        /\ chunks' = IF Coalesces(kept) THEN [chunks EXCEPT ![N] = w] ELSE chunks
        /\ failed' /\ failed' \in BOOLEAN
        /\ next' = next /\ first' = first /\ retained' = retained /\ step' = step
    BY DEF StoreFails, Extended
  <1>3. /\ w \in Chunks
        /\ Coalesces(kept) => N \in 1..N /\ w.start = chunks[N].start
    BY WrittenIsLast
  <1>4. /\ next \in Nat /\ first = Oldest /\ Oldest \in Nat /\ Oldest <= next
        /\ N \in Nat /\ chunks \in Seq(Chunks) /\ files \subseteq Chunks
        /\ \A c \in Chunks : c.start \in Nat /\ c.end \in Nat
        /\ chunks # <<>> => N >= 1 /\ Oldest = chunks[1].start
    BY <1>1, Numbers DEF WorkerInv, StateInv
  <1> HIDE DEF w
  <1>5. chunks' \in Seq(Chunks)
    BY <1>2, <1>3, <1>4
  <1>6. Oldest' = Oldest
    <2>1. CASE Coalesces(kept)
      <3>1. N >= 1 /\ chunks # <<>> /\ Len(chunks') = N
        BY <2>1, <1>2, <1>3, <1>4
      <3>2. chunks'[1].start = chunks[1].start
        BY <2>1, <3>1, <1>2, <1>3, <1>4
      <3>3. chunks' # <<>> /\ Head(chunks') = chunks'[1]
        BY <3>1, <1>4, <1>5
      <3> QED BY <3>1, <3>2, <3>3, <1>4 DEF Oldest, FirstOf
    <2>2. CASE ~Coalesces(kept)
      BY <2>2, <1>2 DEF Oldest, FirstOf
    <2> QED BY <2>1, <2>2
  <1>7. /\ files' \subseteq Chunks
        /\ \A f \in files' : f.start < f.end /\ f.start <= next
        /\ \A f, g \in files' : f.start = g.start => f = g
        /\ \A f \in files' : (\E g \in files' : g.start = f.end) \/ (\A g \in files' : g.start <= f.start)
        /\ \A f \in files' : f \in files \/
              (next < f.end /\ (f.start = next \/ \E l \in files : l.start = f.start /\ l.end = next))
        /\ \A f \in files : \E g \in files' : g.start = f.start /\ f.end <= g.end
    <2>1. CASE files' = files
      BY <2>1, <1>4 DEF IndInv, FilesInv
    <2>2. CASE files' = FileReplaced(w)
      BY <2>2, ReplacedInARow DEF w
    <2> QED BY <2>1, <2>2, <1>2
  <1>8. JournalTypes'
    BY <1>1, <1>2, <1>5, <1>7 DEF JournalTypes, TypeOK
  <1>9. StateInv'
    BY <1>2, <1>4, <1>6 DEF StateInv, JournalIsWhole
  <1>10. FilesInv'
    <2>1. ASSUME NEW b \in Oldest..(next - 1)
          PROVE  \E f \in files' : f.start <= b /\ b < f.end
      <3>1. PICK f \in files : f.start <= b /\ b < f.end
        BY DEF IndInv, FilesInv
      <3>2. PICK g \in files' : g.start = f.start /\ f.end <= g.end
        BY <1>7
      <3>3. b < g.end
        BY <3>1, <3>2, <1>4, <1>7
      <3> QED BY <3>1, <3>2, <3>3
    <2> QED BY <1>2, <1>6, <1>7, <2>1 DEF FilesInv
  <1>11. Grows
    BY <1>2, <1>4, <1>6, <1>7 DEF Grows
  <1> QED BY <1>2, <1>8, <1>9, <1>10, <1>11

\* append_output, up to the retirement of old chunks.
LEMMA AppendStep ==
    ASSUME IndInv, step = "idle", NEW m \in Nat, next + m <= LastByte, AppendOutput(m)
    PROVE  /\ JournalTypes' /\ StateInv' /\ FilesInv' /\ Grows
           /\ next' <= next + m /\ faults' \in 0..MaxFaults
  <1>1. TypeOK /\ WorkerInv /\ FilesInv /\ StateInv
    BY DEF IndInv, WorkerInv
  <1>2. next \in Nat /\ retained \in Nat /\ MaxOutputBytes \in Nat /\ MaxFaults \in Nat
    BY <1>1, Numbers, JournalAssumption
  <1>3. ASSUME UNCHANGED <<chunks, next, first, retained, failed, step, files, faults>>,
               truncated' \in BOOLEAN
        PROVE  /\ JournalTypes' /\ StateInv' /\ FilesInv' /\ Grows
               /\ next' <= next + m /\ faults' \in 0..MaxFaults
    <2>1. JournalTypes'
      BY <1>1, <1>3 DEF TypeOK, JournalTypes
    <2>2. StateInv'
      BY <1>1, <1>3 DEF StateInv, JournalIsWhole, Oldest, FirstOf
    <2>3. FilesInv'
      BY <1>1, <1>3 DEF FilesInv, Oldest, FirstOf
    <2>4. faults' \in 0..MaxFaults
      BY <1>1, <1>3 DEF TypeOK
    <2> QED BY <2>1, <2>2, <2>3, <2>4, <1>2, <1>3, SameGrows
  <1>4. CASE m = 0 \/ failed
    <2>1. UNCHANGED <<journal, faults>>
      BY <1>4 DEF AppendOutput
    <2>2. truncated' \in BOOLEAN
      BY <2>1, <1>1 DEF TypeOK, journal
    <2> QED BY <2>1, <2>2, <1>3 DEF journal
  <1>5. CASE ~(m = 0 \/ failed)
    <2>1. PICK kept \in Kept(m) :
            /\ truncated' = (truncated \/ kept < m)
            /\ IF kept = 0
               THEN UNCHANGED <<chunks, next, first, retained, failed, step, files, faults>>
               ELSE StoreSucceeds(kept) \/ StoreFails(kept)
      BY <1>5 DEF AppendOutput
    <2>2. truncated' \in BOOLEAN
      BY <2>1
    <2>3. /\ kept \in Nat /\ kept <= m
          /\ mode = "pty" \/ retained + kept <= MaxOutputBytes
      BY <1>2 DEF Kept
    <2>4. CASE kept = 0
      BY <2>1, <2>2, <2>4, <1>3
    <2>5. CASE kept # 0
      <3>1. kept \in Nat \ {0} /\ next + kept <= LastByte
        BY <2>3, <2>5, <1>1, <1>2, Numbers
      <3>2. CASE StoreSucceeds(kept)
        <4>1. JournalTypes' /\ StateInv' /\ FilesInv' /\ Grows
          BY <3>1, <3>2, <2>2, <2>3, <1>5, StoreSucceedsStep
        <4>2. next' <= next + m /\ faults' \in 0..MaxFaults
          BY <3>2, <2>3, <1>1, <1>2 DEF StoreSucceeds, TypeOK
        <4> QED BY <4>1, <4>2
      <3>3. CASE StoreFails(kept)
        <4>1. JournalTypes' /\ StateInv' /\ FilesInv' /\ Grows /\ next' = next
          BY <3>1, <3>3, <2>2, <1>5, StoreFailsStep
        <4>2. faults' \in 0..MaxFaults
          BY <3>3, <1>1, <1>2 DEF StoreFails, Faulty, TypeOK
        <4> QED BY <4>1, <4>2, <1>2
      <3> QED BY <3>2, <3>3, <2>1, <2>5
    <2> QED BY <2>4, <2>5
  <1> QED BY <1>4, <1>5

\* What is known when the oldest chunk is retired.
LEMMA OldestIsHead ==
    ASSUME IndInv, step = "trim", NEW T, T = Tail(chunks)
    PROVE  /\ ~failed /\ chunks # <<>> /\ Head(chunks) = chunks[1] /\ Head(chunks) \in files
           /\ T \in Seq(Chunks) /\ Len(T) = Len(chunks) - 1
           /\ \A i \in 1..Len(T) : i + 1 \in 1..Len(chunks) /\ T[i] = chunks[i + 1]
           /\ FirstOf(T, next) = Head(chunks).end /\ Oldest = Head(chunks).start
           /\ Head(chunks).start < Head(chunks).end /\ Head(chunks).end <= next
  <1>1. TypeOK /\ WorkerInv /\ StateInv
    BY DEF IndInv, WorkerInv
  <1>2. ~failed /\ retained > MaxOutputBytes /\ retained = next - Oldest
    BY <1>1 DEF StateInv, JournalIsWhole, Oldest
  <1>3. /\ next \in Nat /\ Oldest \in Nat /\ MaxOutputBytes \in Nat
        /\ chunks = <<>> => Oldest = next
        /\ chunks # <<>> => Len(chunks) >= 1 /\ Oldest = chunks[1].start
        /\ chunks \in Seq(Chunks) /\ Len(chunks) \in Nat
    BY <1>1, Numbers, JournalAssumption
  <1>4. chunks # <<>> /\ Len(chunks) >= 1
    BY <1>2, <1>3
  <1>5. Head(chunks) = chunks[1] /\ 1 \in 1..Len(chunks)
    BY <1>3, <1>4
  <1>6. /\ chunks[1].start < chunks[1].end /\ chunks[1] \in files
        /\ chunks[1].end = IF 1 = Len(chunks) THEN next ELSE chunks[2].start
    BY <1>1, <1>2, <1>5 DEF StateInv, JournalIsWhole
  <1>7. chunks[1].end <= next
    BY <1>1, <1>2, <1>6, InARow
  <1>8. /\ T \in Seq(Chunks) /\ Len(T) = Len(chunks) - 1
        /\ \A i \in 1..Len(T) : T[i] = chunks[i + 1]
    BY <1>3, <1>4
  <1>9. \A i \in 1..Len(T) : i + 1 \in 1..Len(chunks)
    BY <1>8, <1>3
  <1>10. FirstOf(T, next) = chunks[1].end
    <2>1. CASE Len(chunks) = 1
      <3>1. T = <<>>
        BY <2>1, <1>8
      <3> QED BY <3>1, <2>1, <1>6 DEF FirstOf
    <2>2. CASE Len(chunks) # 1
      <3>0. Len(T) \in Nat /\ Len(T) >= 1
        BY <2>2, <1>3, <1>4, <1>8
      <3>1. 1 \in 1..Len(T) /\ T # <<>>
        <4>1. Len(<<>>) = 0
          OBVIOUS
        <4>2. 1 \in 1..Len(T)
          BY <3>0
        <4>3. T # <<>>
          BY <3>0, <4>1
        <4> QED BY <4>2, <4>3
      <3>2. Head(T) = chunks[2]
        BY <3>1, <1>8
      <3> QED BY <3>1, <3>2, <2>2, <1>6 DEF FirstOf
    <2> QED BY <2>1, <2>2
  <1> QED BY <1>2, <1>3, <1>4, <1>5, <1>6, <1>7, <1>8, <1>9, <1>10

\* The oldest chunk is retired.
LEMMA TrimSucceedsStep ==
    ASSUME IndInv, TrimSucceeds
    PROVE  JournalTypes' /\ StateInv' /\ FilesInv' /\ Grows
  <1> DEFINE h == Head(chunks)
             N == Len(chunks)
             M == Len(chunks')
  <1>1. TypeOK /\ WorkerInv /\ StateInv
    BY DEF IndInv, WorkerInv
  <1>2. /\ step = "trim" /\ files' = files \ {h} /\ chunks' = Tail(chunks)
        /\ retained' = retained - (h.end - h.start) /\ truncated' \in BOOLEAN
        /\ next' = next /\ failed' = failed
        /\ IF retained' > MaxOutputBytes THEN step' = "trim" /\ first' = first
           ELSE step' = "idle" /\ first' = Oldest'
    BY DEF TrimSucceeds, Size, Oldest
  <1>3. /\ ~failed /\ h = chunks[1] /\ h \in files
        /\ chunks' \in Seq(Chunks) /\ M = N - 1
        /\ \A i \in 1..M : i + 1 \in 1..N /\ chunks'[i] = chunks[i + 1]
        /\ FirstOf(chunks', next) = h.end /\ Oldest = h.start /\ h.start < h.end /\ h.end <= next
    BY <1>2, OldestIsHead
  <1>4. Oldest' = h.end
    BY <1>2, <1>3 DEF Oldest
  <1>5. /\ next \in Nat /\ retained \in Nat /\ N \in Nat /\ files \subseteq Chunks
        /\ \A c \in Chunks : c.start \in Nat /\ c.end \in Nat
        /\ next <= LastByte /\ LastByte \in Nat /\ MaxOutputBytes \in Nat /\ first \in Positions
        /\ \A i \in 1..N : chunks[i] \in Chunks
        /\ chunks # <<>> => N >= 1
    BY <1>1, Numbers, JournalAssumption DEF TypeOK
  <1>6. /\ files = {chunks[i] : i \in 1..N}
        /\ \A i \in 1..N : /\ chunks[i].start < chunks[i].end
                           /\ chunks[i].end = IF i = N THEN next ELSE chunks[i + 1].start
        /\ retained = next - Oldest
        /\ \A i, j \in 1..N : i < j => chunks[i].end <= chunks[j].start
    BY <1>1, <1>3 DEF StateInv, JournalIsWhole, Oldest
  <1>7. chunks # <<>> /\ N >= 1 /\ 1 \in 1..N
    BY <1>2, <1>5, OldestIsHead
  <1> HIDE DEF h
  <1>8. files' = {chunks'[i] : i \in 1..M}
    <2>1. ASSUME NEW f \in files'
          PROVE  \E i \in 1..M : f = chunks'[i]
      <3>1. PICK i \in 1..N : f = chunks[i]
        BY <1>2, <1>6
      <3>2. i # 1
        BY <3>1, <1>2, <1>3
      <3>3. i - 1 \in 1..M /\ (i - 1) + 1 = i
        BY <3>2, <1>3, <1>5
      <3> QED BY <3>1, <3>3, <1>3
    <2>2. ASSUME NEW i \in 1..M
          PROVE  chunks'[i] \in files'
      <3>1. i + 1 \in 1..N /\ chunks'[i] = chunks[i + 1] /\ 1 < i + 1
        BY <1>3, <1>5
      <3>2. h.end <= chunks[i + 1].start
        BY <3>1, <1>3, <1>6, <1>7
      <3>3. chunks[i + 1] # h
        BY <3>1, <3>2, <1>3, <1>5
      <3> QED BY <3>1, <3>3, <1>2, <1>6
    <2> QED BY <2>1, <2>2
  <1>9. \A i \in 1..M : /\ chunks'[i].start < chunks'[i].end
                        /\ chunks'[i].end = IF i = M THEN next' ELSE chunks'[i + 1].start
    <2>1. TAKE i \in 1..M
    <2>2. i + 1 \in 1..N /\ chunks'[i] = chunks[i + 1]
      BY <1>3
    <2>3. CASE i = M
      BY <2>2, <2>3, <1>2, <1>3, <1>5, <1>6
    <2>4. CASE i # M
      <3>1. i + 1 \in 1..M /\ i + 1 # N
        BY <2>4, <1>3, <1>5
      <3>2. chunks'[i + 1] = chunks[(i + 1) + 1]
        BY <3>1, <1>3
      <3> QED BY <2>2, <2>4, <3>1, <3>2, <1>6
    <2> QED BY <2>3, <2>4
  <1>10. \A i, j \in 1..M : i < j => chunks'[i].end <= chunks'[j].start
    <2>1. SUFFICES ASSUME NEW i \in 1..M, NEW j \in 1..M, i < j
                   PROVE  chunks'[i].end <= chunks'[j].start
      OBVIOUS
    <2>2. /\ i + 1 \in 1..N /\ chunks'[i] = chunks[i + 1] /\ j + 1 \in 1..N
          /\ chunks'[j] = chunks[j + 1] /\ i + 1 < j + 1
      BY <2>1, <1>3
    <2> QED BY <2>2, <1>6
  <1>11. retained' = next' - Oldest' /\ Oldest' <= next' /\ Oldest <= Oldest'
    <2>1. h.start \in Nat /\ h.end \in Nat
      BY <1>3, <1>5
    <2>2. /\ retained' = retained - (h.end - h.start) /\ next' = next /\ Oldest' = h.end
          /\ Oldest = h.start /\ retained = next - h.start /\ h.start < h.end /\ h.end <= next
          /\ next \in Nat
      BY <1>2, <1>3, <1>4, <1>5, <1>6
    <2> QED BY <2>1, <2>2
  <1>12. JournalTypes'
    <2>1. Oldest' \in Positions /\ retained' \in Positions /\ next' \in Positions
      BY <1>2, <1>3, <1>4, <1>5, <1>11 DEF Positions
    <2>2. first' \in Positions /\ step' \in {"idle", "trim"}
      BY <2>1, <1>2, <1>5
    <2>3. files' \subseteq Chunks /\ failed' \in BOOLEAN
      BY <1>1, <1>2, <1>5 DEF TypeOK
    <2> QED BY <1>2, <1>3, <2>1, <2>2, <2>3 DEF JournalTypes
  <1>13. StateInv'
    <2>1. /\ step' = "idle" => retained' <= MaxOutputBytes /\ first' = Oldest'
          /\ step' = "trim" => ~failed' /\ retained' > MaxOutputBytes
      BY <1>2, <1>3, <1>5, <1>11
    <2> QED BY <1>8, <1>9, <1>10, <1>11, <2>1 DEF StateInv, JournalIsWhole, Oldest
  <1>14. \A f \in files : f.start < f.end /\ Oldest <= f.start
    BY <1>1, <1>3, InARow
  <1>15. FilesInv'
    <2>1. FilesInv
      BY DEF IndInv
    <2>2. ASSUME NEW f \in files'
          PROVE  (\E g \in files' : g.start = f.end) \/ (\A g \in files' : g.start <= f.start)
      <3>1. f \in files /\ f.end # h.start
        BY <1>2, <1>3, <1>5, <1>14
      <3>2. CASE \E g \in files : g.start = f.end
        BY <3>1, <3>2, <1>2
      <3>3. CASE \A g \in files : g.start <= f.start
        BY <3>3, <1>2
      <3> QED BY <3>1, <3>2, <3>3, <2>1 DEF FilesInv
    <2>3. ASSUME NEW b \in Oldest'..(next' - 1)
          PROVE  \E f \in files' : f.start <= b /\ b < f.end
      <3>1. b \in Oldest..(next - 1) /\ h.end <= b /\ b \in Nat
        BY <1>2, <1>3, <1>4, <1>5
      <3>2. PICK f \in files : f.start <= b /\ b < f.end
        BY <3>1, <2>1 DEF FilesInv
      <3>3. f # h
        BY <3>1, <3>2, <1>3, <1>5
      <3> QED BY <3>2, <3>3, <1>2
    <2> QED BY <2>1, <2>2, <2>3, <1>2 DEF FilesInv
  <1>16. Grows
    <2>1. \A f \in files : f.end <= Oldest' \/ f \in files'
      BY <1>2, <1>3, <1>4, <1>5
    <2> QED BY <2>1, <1>2, <1>5, <1>11 DEF Grows
  <1> QED BY <1>12, <1>13, <1>15, <1>16

\* The oldest chunk is forgotten and its file stays.
LEMMA TrimFailsStep ==
    ASSUME IndInv, TrimFails
    PROVE  JournalTypes' /\ StateInv' /\ FilesInv' /\ Grows
  <1> DEFINE h == Head(chunks)
  <1>1. TypeOK /\ WorkerInv /\ FilesInv
    BY DEF IndInv, WorkerInv
  <1>2. /\ step = "trim" /\ chunks' = Tail(chunks) /\ first' = FirstOf(chunks', next)
        /\ failed' /\ failed' \in BOOLEAN /\ step' = "idle"
        /\ next' = next /\ retained' = retained /\ truncated' = truncated /\ files' = files
    BY DEF TrimFails
  <1>3. /\ chunks' \in Seq(Chunks) /\ h \in files
        /\ FirstOf(chunks', next) = h.end /\ Oldest = h.start /\ h.start < h.end /\ h.end <= next
    BY <1>2, OldestIsHead
  <1>4. /\ next \in Nat /\ next <= LastByte /\ LastByte \in Nat /\ files \subseteq Chunks
        /\ \A c \in Chunks : c.start \in Nat /\ c.end \in Nat
    BY <1>1, Numbers
  <1> HIDE DEF h
  <1>5. Oldest' = h.end /\ first' = Oldest' /\ Oldest <= Oldest' /\ Oldest' <= next
        /\ Oldest' \in Positions /\ Oldest \in Nat
    BY <1>2, <1>3, <1>4 DEF Oldest, Positions
  <1>6. JournalTypes'
    BY <1>1, <1>2, <1>3, <1>5 DEF TypeOK, JournalTypes
  <1>7. StateInv'
    BY <1>2, <1>5 DEF StateInv, JournalIsWhole
  <1>8. FilesInv'
    <2>1. \A b \in Oldest'..(next' - 1) : b \in Oldest..(next - 1)
      BY <1>2, <1>3, <1>4, <1>5
    <2> QED BY <2>1, <1>1, <1>2 DEF FilesInv
  <1>9. Grows
    BY <1>2, <1>4, <1>5 DEF Grows
  <1> QED BY <1>6, <1>7, <1>8, <1>9

\* A cursor that is behind the journal stays behind it.
LEMMA BehindKept ==
    ASSUME TypeOK, TypeOK', Grows, NEW c \in Cursors, Behind(c)
    PROVE  c.first <= c.next /\ c.next <= next' /\ c.first <= Oldest'
  <1>1. c.first \in Nat /\ c.next \in Nat
    BY JournalAssumption DEF Cursors, Positions
  <1>2. next \in Nat /\ Oldest \in Nat
    BY Numbers
  <1>3. Oldest' \in Nat /\ next' \in Nat
    <2>1. next' \in Positions /\ chunks' \in Seq(Chunks)
      BY DEF TypeOK
    <2> QED BY <2>1, FirstIsNumber DEF Oldest
  <1> QED BY <1>1, <1>2, <1>3 DEF Behind, Grows

\* A step of the child or of the worker.
LEMMA WorkerFrame ==
    ASSUME IndInv, JournalTypes', StateInv', FilesInv', Grows,
           mode' = mode, unread' \in Positions, exited' \in BOOLEAN,
           held' \in Positions, eof' \in BOOLEAN, Arrived' <= LastByte,
           UNCHANGED <<place, daemon, record, reads, crashes>>, faults' \in 0..MaxFaults
    PROVE  IndInv'
  <1>1. TypeOK /\ CursorInv
    BY DEF IndInv, WorkerInv
  <1>2. /\ place' = place /\ daemon' = daemon /\ rec' = rec /\ saved' = saved /\ lane' = lane
        /\ answers' = answers /\ reads' = reads /\ crashes' = crashes
    BY DEF record
  <1>3. TypeOK'
    BY <1>1, <1>2 DEF TypeOK, JournalTypes
  <1>4. WorkerInv'
    BY <1>3 DEF WorkerInv
  <1>5. next' \in Nat /\ Oldest' \in Nat /\ files' \subseteq Chunks
    <2>1. next' \in Positions /\ chunks' \in Seq(Chunks)
      BY <1>3 DEF TypeOK
    <2> QED BY <2>1, FirstIsNumber DEF Oldest, JournalTypes
  <1>6. \A r \in Readers : ReadInv(r)'
    BY <1>2, <1>5, ReadsKept
  <1>7. CursorInv'
    <2>1. rec \in Cursors /\ saved \in Cursors /\ \A p \in Pollers : answers[p] # NoAnswer => answers[p] \in Cursors
      BY <1>1 DEF TypeOK
    <2>2. Behind(rec)' /\ Behind(saved)'
      BY <2>1, <1>1, <1>2, <1>3, BehindKept DEF CursorInv, Behind
    <2>3. ASSUME NEW p \in Pollers, answers[p] # NoAnswer
          PROVE  Behind(answers[p])'
      BY <2>1, <2>3, <1>1, <1>2, <1>3, BehindKept DEF CursorInv, Behind
    <2> QED BY <2>2, <2>3, <1>1, <1>2 DEF CursorInv
  <1> QED BY <1>4, <1>6, <1>7 DEF IndInv

\* The child writes, or exits.
LEMMA ChildStep ==
    ASSUME IndInv, ChildWrites \/ ChildExits
    PROVE  IndInv'
  <1>1. TypeOK /\ StateInv /\ FilesInv /\ Arrived <= LastByte
    BY DEF IndInv, WorkerInv
  <1>2. /\ mode' = mode /\ UNCHANGED <<held, eof, journal, place, daemon, record, reads, crashes>>
        /\ faults' = faults
    BY DEF ChildWrites, ChildExits, reader
  <1>3. UNCHANGED <<chunks, next, first, retained, truncated, failed, step, files>>
    BY <1>2 DEF journal
  <1>4. JournalTypes' /\ StateInv' /\ FilesInv'
    <2>1. JournalTypes'
      BY <1>1, <1>3 DEF TypeOK, JournalTypes
    <2>2. StateInv'
      BY <1>1, <1>3 DEF StateInv, JournalIsWhole, Oldest, FirstOf
    <2>3. FilesInv'
      BY <1>1, <1>3 DEF FilesInv, Oldest, FirstOf
    <2> QED BY <2>1, <2>2, <2>3
  <1>5. Grows
    BY <1>3, SameGrows
  <1>6. held' \in Positions /\ eof' \in BOOLEAN /\ faults' \in 0..MaxFaults
    BY <1>1, <1>2 DEF TypeOK
  <1>7. unread' \in Positions /\ exited' \in BOOLEAN /\ Arrived' <= LastByte
    <2>1. CASE ChildWrites
      <3>1. unread' = unread + 1 /\ exited' = exited /\ next + held + unread < LastByte
        BY <2>1 DEF ChildWrites, Arrived
      <3>2. exited' \in BOOLEAN
        BY <3>1, <1>1 DEF TypeOK
      <3> QED BY <3>1, <3>2, <1>1, <1>2, <1>3, Numbers DEF Positions, Arrived
    <2>2. CASE ChildExits
      <3>1. unread' = unread /\ exited' \in BOOLEAN
        BY <2>2 DEF ChildExits
      <3>2. unread' \in Positions
        BY <3>1, <1>1 DEF TypeOK
      <3> QED BY <3>1, <3>2, <1>1, <1>2, <1>3 DEF Arrived
    <2> QED BY <2>1, <2>2
  <1> QED BY <1>2, <1>4, <1>5, <1>6, <1>7, WorkerFrame

\* Of h bytes kept back and d of u bytes unread, all but k are stored at most.
LEMMA NoneArrives ==
    ASSUME NEW n \in Nat, NEW m \in Nat, NEW h \in Nat, NEW u \in Nat, NEW k \in Nat,
           NEW d \in Nat, NEW l \in Nat, n + h + u <= l, m <= n + (h + d - k)
    PROVE  m + k + (u - d) <= l
  OBVIOUS

\* The reader reads and stores what is not kept back.
LEMMA ReaderReadsStep ==
    ASSUME IndInv, ReaderReads
    PROVE  IndInv'
  <1>1. TypeOK /\ Arrived <= LastByte
    BY DEF IndInv, WorkerInv
  <1>2. next \in Nat /\ held \in Nat /\ unread \in Nat /\ LastByte \in Nat /\ Hold \in Nat
    BY <1>1, Numbers, JournalAssumption
  <1>3. PICK n \in 1..unread : Take(n)
    BY DEF ReaderReads
  <1>4. PICK k \in HeldBack(n) : held' = k /\ AppendOutput(held + n - k)
    BY <1>3 DEF Take
  <1>5. k \in Nat /\ n \in Nat /\ n <= unread /\ k <= held + n
    BY <1>2 DEF HeldBack
  <1>6. held + n - k \in Nat /\ next + (held + n - k) <= LastByte
    BY <1>1, <1>2, <1>5 DEF Arrived
  <1>7. /\ JournalTypes' /\ StateInv' /\ FilesInv' /\ Grows
        /\ next' <= next + (held + n - k) /\ faults' \in 0..MaxFaults
    BY <1>3, <1>4, <1>6, AppendStep DEF Take
  <1>8. /\ unread' = unread - n /\ mode' = mode /\ exited' = exited /\ eof' = eof
        /\ UNCHANGED <<place, daemon, record, reads, crashes>>
    BY <1>3 DEF Take, ReaderReads
  <1>9. next' \in Nat
    BY <1>7, JournalAssumption DEF JournalTypes, Positions
  <1>10. unread' \in Positions /\ held' \in Positions
    BY <1>1, <1>2, <1>4, <1>5, <1>8 DEF Positions, Arrived
  <1>11. Arrived' <= LastByte
    <2>1. /\ held' = k /\ unread' = unread - n /\ next' <= next + (held + n - k) /\ next' \in Nat
          /\ next + held + unread <= LastByte
      BY <1>1, <1>4, <1>7, <1>8, <1>9 DEF Arrived
    <2>2. next' + k + (unread - n) <= LastByte
      BY <2>1, <1>2, <1>5, NoneArrives
    <2> QED BY <2>1, <2>2 DEF Arrived
  <1>12. exited' \in BOOLEAN /\ eof' \in BOOLEAN
    BY <1>1, <1>8 DEF TypeOK
  <1> QED BY <1>7, <1>8, <1>10, <1>11, <1>12, WorkerFrame

\* What was kept back is stored, at the end of the file or before input.
LEMMA TailStep ==
    ASSUME IndInv, step = "idle", AppendOutput(held), held' = 0, eof' \in BOOLEAN,
           UNCHANGED <<child, place, daemon, record, reads, crashes>>
    PROVE  IndInv'
  <1>1. TypeOK /\ Arrived <= LastByte
    BY DEF IndInv, WorkerInv
  <1>2. next \in Nat /\ held \in Nat /\ unread \in Nat /\ LastByte \in Nat
    BY <1>1, Numbers
  <1>3. next + held <= LastByte
    BY <1>1, <1>2 DEF Arrived
  <1>4. /\ JournalTypes' /\ StateInv' /\ FilesInv' /\ Grows
        /\ next' <= next + held /\ faults' \in 0..MaxFaults
    BY <1>2, <1>3, AppendStep
  <1>5. unread' = unread /\ mode' = mode /\ exited' = exited
    BY DEF child
  <1>6. next' \in Nat
    BY <1>4, JournalAssumption DEF JournalTypes, Positions
  <1>7. unread' \in Positions /\ held' \in Positions /\ exited' \in BOOLEAN
    BY <1>1, <1>2, <1>5 DEF TypeOK, Positions
  <1>8. Arrived' <= LastByte
    <2>1. held' = 0 /\ unread' = unread /\ next' <= next + held /\ next + held + unread <= LastByte
      BY <1>1, <1>4, <1>5 DEF Arrived
    <2>2. next' <= next + (held + 0 - 0)
      BY <2>1, <1>2
    <2>3. next' + 0 + (unread - 0) <= LastByte
      BY <2>1, <2>2, <1>2, <1>6, NoneArrives
    <2> QED BY <2>1, <2>3, <1>2 DEF Arrived
  <1> QED BY <1>4, <1>5, <1>7, <1>8, WorkerFrame

\* The reader meets the end of the file.
LEMMA ReaderEndsStep ==
    ASSUME IndInv, ReaderEnds
    PROVE  IndInv'
  <1>1. /\ step = "idle" /\ AppendOutput(held) /\ held' = 0 /\ eof' \in BOOLEAN
        /\ UNCHANGED <<child, place, daemon, record, reads, crashes>>
    BY DEF ReaderEnds
  <1> QED BY <1>1, TailStep

\* append_output retires a chunk, or fails to.
LEMMA TrimStep ==
    ASSUME IndInv, TrimSucceeds \/ TrimFails
    PROVE  IndInv'
  <1>1. TypeOK /\ Arrived <= LastByte
    BY DEF IndInv, WorkerInv
  <1>2. JournalTypes' /\ StateInv' /\ FilesInv' /\ Grows
    BY TrimSucceedsStep, TrimFailsStep
  <1>3. UNCHANGED <<next, mode, unread, exited, held, eof>>
    BY DEF TrimSucceeds, TrimFails, child, reader
  <1>4. UNCHANGED <<place, daemon, record, reads, crashes>>
    BY DEF TrimSucceeds, TrimFails
  <1>5. faults' \in 0..MaxFaults
    <2>1. faults \in 0..MaxFaults /\ MaxFaults \in Nat
      BY <1>1, JournalAssumption DEF TypeOK
    <2> QED BY <2>1 DEF TrimSucceeds, TrimFails, Faulty
  <1>6. Arrived' <= LastByte
    BY <1>1, <1>3 DEF Arrived
  <1>7. unread' \in Positions /\ exited' \in BOOLEAN /\ held' \in Positions /\ eof' \in BOOLEAN
    BY <1>1, <1>3 DEF TypeOK
  <1> QED BY <1>2, <1>3, <1>4, <1>5, <1>6, <1>7, WorkerFrame

-----------------------------------------------------------------------------
(* The daemon *)

ReadRecords == [phase : {"idle", "reading", "broken"}, listed : SUBSET Positions,
                got : SUBSET Chunks, since : Positions]

\* A step of the daemon that leaves the journal alone.
LEMMA DaemonFrame ==
    ASSUME IndInv, UNCHANGED <<child, reader, journal, faults>>,
           place' \in {"sessions", "quarantine"}, daemon' \in {"up", "down"} \cup Loading,
           rec' \in Cursors, saved' \in Cursors, lane' \in {"idle", "saving", "input"},
           answers' \in [Pollers -> Cursors \cup {NoAnswer}],
           reads' \in [Readers -> ReadRecords], crashes' \in 0..MaxCrashes,
           CursorInv', \A r \in Readers : ReadInv(r)'
    PROVE  IndInv'
  <1>1. TypeOK /\ Arrived <= LastByte /\ StateInv /\ FilesInv
    BY DEF IndInv, WorkerInv
  <1>2. UNCHANGED <<mode, unread, exited, held, eof, chunks, next, first, retained, truncated,
                    failed, step, files, faults>>
    BY DEF child, reader, journal
  <1>3. TypeOK'
    BY <1>1, <1>2 DEF TypeOK, ReadRecords
  <1>4. Arrived' <= LastByte
    BY <1>1, <1>2 DEF Arrived
  <1>5. StateInv'
    BY <1>1, <1>2 DEF StateInv, JournalIsWhole, Oldest, FirstOf
  <1>6. FilesInv'
    BY <1>1, <1>2 DEF FilesInv, Oldest, FirstOf
  <1> QED BY <1>3, <1>4, <1>5, <1>6 DEF IndInv, WorkerInv

\* What the frame needs of the part of the daemon that a step leaves alone.
LEMMA DaemonTypes ==
    ASSUME IndInv
    PROVE  /\ place \in {"sessions", "quarantine"} /\ daemon \in {"up", "down"} \cup Loading
           /\ rec \in Cursors /\ saved \in Cursors /\ lane \in {"idle", "saving", "input"}
           /\ answers \in [Pollers -> Cursors \cup {NoAnswer}]
           /\ reads \in [Readers -> ReadRecords] /\ crashes \in 0..MaxCrashes
  BY DEF IndInv, WorkerInv, TypeOK, ReadRecords

\* A reader that a step does not touch.
LEMMA SameRead ==
    ASSUME IndInv, UNCHANGED journal, NEW r \in Readers, reads'[r] = reads[r]
    PROVE  ReadInv(r)'
  <1>1. UNCHANGED <<chunks, next, failed, files>>
    BY DEF journal
  <1>2. Grows
    BY <1>1, SameGrows
  <1>3. next \in Nat /\ Oldest \in Nat /\ files \subseteq Chunks
    BY Numbers DEF IndInv, WorkerInv
  <1>4. Oldest' = Oldest
    BY <1>1 DEF Oldest, FirstOf
  <1> QED BY <1>1, <1>2, <1>3, <1>4, ReadsKept

\* A reader that is not reading.
LEMMA IdleRead ==
    ASSUME NEW r \in Readers, reads'[r].phase # "reading"
    PROVE  ReadInv(r)'
  BY DEF ReadInv

\* A reader that has just listed the files.
LEMMA ListingRead ==
    ASSUME IndInv, UNCHANGED journal, NEW r \in Readers, reads'[r] = Listing
    PROVE  ReadInv(r)'
  <1>1. TypeOK /\ WorkerInv /\ FilesInv
    BY DEF IndInv, WorkerInv
  <1>2. next' = next /\ files' = files /\ failed' = failed /\ Oldest' = Oldest
    BY DEF journal, Oldest, FirstOf
  <1>3. /\ reads'[r].listed = {f.start : f \in files} /\ reads'[r].got = {}
        /\ reads'[r].since = next
    BY DEF Listing
  <1>4. All(r)' = {f.start : f \in files}
    BY <1>3 DEF All
  <1>5. next \in Nat /\ Oldest \in Nat /\ \A f \in files : f.start \in Nat /\ f.end \in Nat
    BY <1>1, Numbers
  <1>6. \A s \in All(r)' : s <= next /\ (failed \/ s < next)
    <2>1. ASSUME NEW f \in files, ~failed
          PROVE  f.start < next
      BY <2>1, <1>1, <1>5, InARow
    <2> QED BY <2>1, <1>1, <1>4 DEF FilesInv
  <1>7. \A f \in files : f.end \in All(r)' \/ \A s \in All(r)' : s <= f.start
    BY <1>1, <1>4 DEF FilesInv
  <1>8. \A b \in Oldest..(next - 1) :
           \E f \in files : f.start \in reads'[r].listed /\ f.start <= b /\ b < f.end
    BY <1>1, <1>3 DEF FilesInv
  <1> QED BY <1>2, <1>3, <1>5, <1>6, <1>7, <1>8 DEF ReadInv

\* The two records a read starts from are records.
LEMMA ReadTypes ==
    ASSUME IndInv
    PROVE  /\ NoRead \in ReadRecords /\ Listing \in ReadRecords
           /\ NoRead.phase = "idle" /\ Listing.phase = "reading" /\ Listing.since = next
  <1>1. next \in Positions /\ files \subseteq Chunks
    BY DEF IndInv, WorkerInv, TypeOK
  <1>2. {f.start : f \in files} \in SUBSET Positions
    BY <1>1 DEF Chunks
  <1>3. 0 \in Positions
    BY JournalAssumption DEF Positions
  <1>4. NoRead \in ReadRecords
    BY <1>3 DEF NoRead, ReadRecords
  <1>5. Listing \in ReadRecords
    BY <1>1, <1>2 DEF Listing, ReadRecords
  <1> QED BY <1>4, <1>5 DEF NoRead, Listing

\* Cursors while the journal stays the same.
LEMMA SameBehind ==
    ASSUME UNCHANGED journal, NEW c, Behind(c)
    PROVE  c.first <= c.next /\ c.next <= next' /\ c.first <= Oldest'
  BY DEF Behind, journal, Oldest, FirstOf

\* A snapshot is behind the journal when it is taken.
LEMMA SnapshotIsBehind ==
    ASSUME IndInv, step = "idle"
    PROVE  Snapshot \in Cursors /\ Behind(Snapshot)
  <1>1. /\ next \in Positions /\ first \in Positions /\ truncated \in BOOLEAN
        /\ first = Oldest /\ Oldest <= next
    BY DEF IndInv, WorkerInv, TypeOK, StateInv
  <1>2. Snapshot \in Cursors
    BY <1>1 DEF Snapshot, Cursors
  <1>3. Snapshot.next = next /\ Snapshot.first = first
    BY DEF Snapshot
  <1>4. next \in Nat
    BY <1>1, JournalAssumption DEF Positions
  <1> QED BY <1>1, <1>2, <1>3, <1>4 DEF Behind

\* Snapshots are taken and applied, and the record is saved.
LEMMA RecordStepInv ==
    ASSUME IndInv, RecordStep
    PROVE  IndInv'
  <1> USE DaemonTypes
  <1>1. CursorInv
    BY DEF IndInv
  <1>2. UNCHANGED <<child, reader, journal, place, daemon, reads, crashes, faults>>
    BY DEF RecordStep, SaveRecord, TakeSnapshot, ApplySnapshot
  <1>3. \A r \in Readers : ReadInv(r)'
    BY <1>2, SameRead
  <1>4. ASSUME NEW p \in Pollers, TakeSnapshot(p)
        PROVE  IndInv'
    <2>1. /\ answers' = [answers EXCEPT ![p] = Snapshot]
          /\ rec' = rec /\ saved' = saved /\ lane' = lane /\ step = "idle" /\ daemon = "up"
      BY <1>4 DEF TakeSnapshot, Known
    <2>2. Snapshot \in Cursors /\ Behind(Snapshot)
      BY <2>1, SnapshotIsBehind
    <2>3. answers' \in [Pollers -> Cursors \cup {NoAnswer}]
      BY <2>1, <2>2
    <2>4. Behind(rec)' /\ Behind(saved)'
      BY <2>1, <1>1, <1>2, SameBehind DEF CursorInv, Behind
    <2>5. ASSUME NEW q \in Pollers, answers'[q] # NoAnswer
          PROVE  Behind(answers[q])'
      <3>1. answers'[q] = IF q = p THEN Snapshot ELSE answers[q]
        BY <2>1
      <3>2. Behind(answers'[q])
        BY <3>1, <2>2, <2>5, <1>1 DEF CursorInv
      <3> QED BY <3>2, <1>2, SameBehind DEF Behind
    <2>6. CursorInv'
      BY <2>1, <2>4, <2>5, <1>1, <1>2 DEF CursorInv, Loading
    <2> QED BY <2>1, <2>3, <2>6, <1>2, <1>3, DaemonFrame
  <1>5. ASSUME NEW p \in Pollers, ApplySnapshot(p)
        PROVE  IndInv'
    <2>1. /\ answers' = [answers EXCEPT ![p] = NoAnswer] /\ answers[p] # NoAnswer /\ saved' = saved
          /\ \/ rec' = answers[p] /\ lane' = "saving"
             \/ rec' = rec /\ lane' = lane
      BY <1>5 DEF ApplySnapshot
    <2>2. daemon = "up" /\ answers[p] \in Cursors /\ Behind(answers[p])
      BY <2>1, <1>1 DEF CursorInv
    <2>3. /\ answers' \in [Pollers -> Cursors \cup {NoAnswer}]
          /\ rec' \in Cursors /\ lane' \in {"idle", "saving", "input"}
      BY <2>1, <2>2
    <2>4. Behind(rec)' /\ Behind(saved)'
      BY <2>1, <2>2, <1>1, <1>2, SameBehind DEF CursorInv, Behind
    <2>5. ASSUME NEW q \in Pollers, answers'[q] # NoAnswer
          PROVE  Behind(answers[q])'
      <3>1. answers'[q] = answers[q] /\ answers[q] # NoAnswer
        BY <2>1, <2>5
      <3> QED BY <3>1, <1>1, <1>2, SameBehind DEF Behind, CursorInv
    <2>6. CursorInv'
      BY <2>1, <2>2, <2>4, <2>5, <1>1, <1>2 DEF CursorInv, Loading
    <2> QED BY <2>1, <2>3, <2>6, <1>2, <1>3, DaemonFrame
  <1>6. ASSUME SaveRecord
        PROVE  IndInv'
    <2>1. saved' = rec /\ rec' = rec /\ answers' = answers /\ lane = "saving" /\ lane' = "idle"
      BY <1>6 DEF SaveRecord
    <2>2. daemon = "up"
      BY <2>1, <1>1 DEF CursorInv
    <2>3. Behind(rec)' /\ Behind(saved)'
      BY <2>1, <1>1, <1>2, SameBehind DEF CursorInv, Behind
    <2>4. ASSUME NEW q \in Pollers, answers'[q] # NoAnswer
          PROVE  Behind(answers[q])'
      BY <2>1, <2>4, <1>1, <1>2, SameBehind DEF Behind, CursorInv
    <2>5. CursorInv'
      BY <2>1, <2>2, <2>3, <2>4, <1>1, <1>2 DEF CursorInv, Loading
    <2> QED BY <2>1, <2>5, <1>2, <1>3, DaemonFrame
  <1> QED BY <1>4, <1>5, <1>6 DEF RecordStep

\* A step that changes what is read and where the daemon stands, no cursor.
LEMMA ReadFrame ==
    ASSUME IndInv, UNCHANGED <<child, reader, journal, record, crashes, faults>>,
           place' \in {"sessions", "quarantine"}, daemon' \in {"up", "down"} \cup Loading,
           daemon' # "up" => daemon # "up",
           reads' \in [Readers -> ReadRecords], \A r \in Readers : ReadInv(r)',
           daemon' \in Loading /\ reads'["load"].phase = "reading"
              => saved.next <= reads'["load"].since
    PROVE  IndInv'
  <1> USE DaemonTypes
  <1>1. CursorInv
    BY DEF IndInv
  <1>2. rec' = rec /\ saved' = saved /\ lane' = lane /\ answers' = answers /\ crashes' = crashes
    BY DEF record
  <1>3. Behind(rec)' /\ Behind(saved)'
    BY <1>1, <1>2, SameBehind DEF CursorInv, Behind
  <1>4. ASSUME NEW q \in Pollers, answers'[q] # NoAnswer
        PROVE  Behind(answers[q])'
    BY <1>1, <1>2, <1>4, SameBehind DEF Behind, CursorInv
  <1>5. CursorInv'
    BY <1>1, <1>2, <1>3, <1>4 DEF CursorInv
  <1> QED BY <1>2, <1>5, DaemonFrame

\* One file is read, or found to be gone.
LEMMA ReadFileStep ==
    ASSUME IndInv, NEW r \in Readers, NEW s \in Positions, ReadFile(r, s)
    PROVE  IndInv'
  <1> DEFINE R == reads[r]
             there == {f \in files : f.start = s}
             P == IF there = {} THEN "broken" ELSE "reading"
  <1> USE DaemonTypes
  <1>1. TypeOK /\ FilesInv /\ CursorInv /\ ReadInv(r)
    BY DEF IndInv, WorkerInv
  <1>2. /\ R \in ReadRecords /\ R.phase = "reading" /\ s \in R.listed
        /\ UNCHANGED <<child, reader, journal, place, daemon, record, crashes, faults>>
    BY DEF ReadFile
  <1>3. reads' = [reads EXCEPT ![r].listed = R.listed \ {s}, ![r].got = R.got \cup there,
                               ![r].phase = P]
    BY DEF ReadFile
  <1>4. /\ P \in {"idle", "reading", "broken"} /\ R.listed \ {s} \subseteq Positions
        /\ R.got \cup there \subseteq Chunks
    BY <1>1, <1>2, Numbers
  <1>5. /\ reads' \in [Readers -> ReadRecords]
        /\ reads'[r].phase = P /\ reads'[r].listed = R.listed \ {s}
        /\ reads'[r].got = R.got \cup there /\ reads'[r].since = R.since
        /\ \A q \in Readers : q # r => reads'[q] = reads[q]
    <2> HIDE DEF P, there
    <2> QED BY <1>2, <1>3, <1>4 DEF ReadRecords
  <1>6. ASSUME NEW q \in Readers, q # r
        PROVE  ReadInv(q)'
    BY <1>2, <1>5, <1>6, SameRead
  <1>7. ReadInv(r)'
    <2>1. CASE there = {}
      BY <2>1, <1>5, IdleRead
    <2>2. CASE there # {}
      <3>1. /\ reads'[r].phase = "reading" /\ reads'[r].listed = R.listed \ {s}
            /\ reads'[r].got = R.got \cup there /\ reads'[r].since = R.since
        BY <2>2, <1>5
      <3>2. PICK f \in files : f.start = s
        BY <2>2
      <3>3. there = {f}
        BY <3>2, <1>1 DEF FilesInv
      <3>4. next' = next /\ files' = files /\ failed' = failed /\ Oldest' = Oldest
        BY <1>2 DEF journal, Oldest, FirstOf
      <3>5. All(r)' = All(r)
        BY <3>1, <3>2, <3>3, <1>2 DEF All
      <3>6. /\ R.since <= next
            /\ \A t \in All(r) : t <= R.since /\ (failed \/ t < next)
            /\ \A c \in R.got : c.start < c.end /\ c.start \notin R.listed
            /\ \A c, d \in R.got : c.start = d.start => c = d
            /\ \A c \in R.got : c.end \in All(r) \/ \A t \in All(r) : t <= c.start
            /\ \A g \in files : g.start \in R.listed =>
                  g.end \in All(r) \/ \A t \in All(r) : t <= g.start
        BY <1>1, <1>2 DEF ReadInv
      <3>7. /\ \A g \in files : g.end <= R.since => g \in R.got \/ g.start \in R.listed
            /\ \A b \in Oldest..(R.since - 1) :
                  \/ \E c \in R.got : c.start <= b /\ b < c.end
                  \/ \E g \in files : g.start \in R.listed /\ g.start <= b /\ b < g.end
        BY <1>1, <1>2 DEF ReadInv
      <3> HIDE DEF R, there
      <3>8. \A c \in R.got \cup {f} : /\ c.start < c.end /\ c.start \notin R.listed \ {s}
                                      /\ c.end \in All(r) \/ \A t \in All(r) : t <= c.start
        BY <3>2, <3>6, <1>1, <1>2 DEF FilesInv
      <3>9. \A c, d \in R.got \cup {f} : c.start = d.start => c = d
        BY <3>2, <3>6, <1>2
      <3>10. \A g \in files : g.start = s => g = f
        BY <3>2, <1>1 DEF FilesInv
      <3>11. /\ \A g \in files : g.end <= R.since => g \in R.got \cup {f} \/ g.start \in R.listed \ {s}
             /\ \A b \in Oldest..(R.since - 1) :
                   \/ \E c \in R.got \cup {f} : c.start <= b /\ b < c.end
                   \/ \E g \in files : g.start \in R.listed \ {s} /\ g.start <= b /\ b < g.end
        BY <3>7, <3>10
      <3> QED BY <3>1, <3>3, <3>4, <3>5, <3>6, <3>8, <3>9, <3>11 DEF ReadInv
    <2> QED BY <2>1, <2>2
  <1>8. reads'["load"].phase = "reading" =>
           reads["load"].phase = "reading" /\ reads'["load"].since = reads["load"].since
    <2>1. CASE r = "load"
      BY <2>1, <1>2, <1>5
    <2>2. CASE r # "load"
      BY <2>2, <1>5 DEF Readers
    <2> QED BY <2>1, <2>2
  <1>9. daemon \in Loading /\ reads'["load"].phase = "reading" => saved.next <= reads'["load"].since
    BY <1>1, <1>8 DEF CursorInv
  <1> HIDE DEF R, there, P
  <1> QED BY <1>2, <1>5, <1>6, <1>7, <1>9, ReadFrame

\* A read is started, or answered.
LEMMA CallStep ==
    ASSUME IndInv, NEW r \in {"call", "wake"}, StartRead(r) \/ AnswerRead(r)
    PROVE  IndInv'
  <1> USE DaemonTypes
  <1>1. /\ UNCHANGED <<child, reader, journal, place, daemon, record, crashes, faults>>
        /\ daemon = "up" /\ r \in Readers
    BY DEF StartRead, AnswerRead, Known, Readers
  <1>2. PICK q \in {NoRead, Listing} : reads' = [reads EXCEPT ![r] = q]
    BY DEF StartRead, AnswerRead
  <1>3. q \in ReadRecords
    BY ReadTypes
  <1>4. reads' \in [Readers -> ReadRecords] /\ reads'[r] = q
    BY <1>1, <1>2, <1>3
  <1>5. ReadInv(r)'
    BY <1>1, <1>4, ReadTypes, IdleRead, ListingRead
  <1>6. ASSUME NEW x \in Readers, x # r
        PROVE  ReadInv(x)'
    <2>1. reads'[x] = reads[x]
      BY <1>2, <1>6
    <2> QED BY <2>1, <1>1, SameRead
  <1>7. daemon' \notin Loading
    BY <1>1 DEF Loading
  <1> QED BY <1>1, <1>4, <1>5, <1>6, <1>7, ReadFrame

\* The daemon crashes: its record is the saved one when it comes back.
LEMMA CrashStep ==
    ASSUME IndInv, Crash
    PROVE  IndInv'
  <1> USE DaemonTypes
  <1>1. CursorInv
    BY DEF IndInv
  <1>2. /\ crashes < MaxCrashes /\ crashes' = crashes + 1
        /\ daemon' = "down" /\ lane' = "idle" /\ answers' = [p \in Pollers |-> NoAnswer]
        /\ reads' = [r \in Readers |-> NoRead] /\ rec' = saved /\ saved' = saved /\ place' = place
        /\ UNCHANGED <<child, reader, journal, faults>>
    BY DEF Crash
  <1>3. crashes' \in 0..MaxCrashes
    BY <1>2, JournalAssumption
  <1>4. reads' \in [Readers -> ReadRecords] /\ \A r \in Readers : reads'[r].phase # "reading"
    BY <1>2, ReadTypes
  <1>5. \A r \in Readers : ReadInv(r)'
    BY <1>4, IdleRead
  <1>6. answers' \in [Pollers -> Cursors \cup {NoAnswer}] /\ \A p \in Pollers : answers'[p] = NoAnswer
    BY <1>2
  <1>7. Behind(rec)' /\ Behind(saved)'
    BY <1>1, <1>2, SameBehind DEF CursorInv, Behind
  <1>8. CursorInv'
    BY <1>2, <1>6, <1>7 DEF CursorInv, Loading
  <1> QED BY <1>2, <1>3, <1>4, <1>5, <1>6, <1>8, DaemonFrame

\* migrateSession lists the files.
LEMMA ReadChunksStep ==
    ASSUME IndInv, NEW phase \in Loading, ReadChunksAt(phase), daemon # "up",
           UNCHANGED <<child, reader, journal, place, record, crashes, faults>>
    PROVE  IndInv'
  <1> USE DaemonTypes
  <1>1. daemon' = phase /\ reads' = [reads EXCEPT !["load"] = Listing] /\ "load" \in Readers
    BY DEF ReadChunksAt, Readers
  <1>2. Listing \in ReadRecords /\ Listing.since = next
    BY ReadTypes
  <1>3. reads' \in [Readers -> ReadRecords] /\ reads'["load"] = Listing
    BY <1>1, <1>2
  <1>4. ReadInv("load")'
    BY <1>1, <1>3, ListingRead
  <1>5. ASSUME NEW r \in Readers, r # "load"
        PROVE  ReadInv(r)'
    <2>1. reads'[r] = reads[r]
      BY <1>1, <1>5
    <2> QED BY <2>1, SameRead
  <1>6. saved.next <= next
    BY DEF IndInv, CursorInv, Behind
  <1> QED BY <1>1, <1>2, <1>3, <1>4, <1>5, <1>6, ReadFrame

\* What reconcileSession makes of the chunks it has read is behind the journal.
LEMMA ReconciledIsBehind ==
    ASSUME IndInv, daemon \in Loading, HasRead("load"), CursorMatches
    PROVE  Reconciled \in Cursors /\ Behind(Reconciled)
  <1> DEFINE R == reads["load"]
  <1>1. /\ TypeOK /\ "load" \in Readers /\ ReadInv("load") /\ R.phase = "reading" /\ R.listed = {}
        /\ saved \in Cursors /\ Behind(saved) /\ saved.next <= R.since
    BY DaemonTypes DEF IndInv, WorkerInv, HasRead, Readers, CursorInv
  <1>2. /\ R.since \in Nat /\ R.got \subseteq Chunks /\ next \in Nat /\ Oldest \in Nat
        /\ \A c \in Chunks : c.start \in Nat /\ c.end \in Nat
        /\ saved.next \in Nat /\ saved.next \in Positions
    BY <1>1, Numbers, JournalAssumption DEF Cursors, Positions
  <1>3. CASE mode = "exec"
    BY <1>1, <1>3 DEF Reconciled
  <1>4. CASE mode # "exec"
    <2> DEFINE from == IF Loaded = {} THEN saved.next ELSE Lowest(Loaded)
               tr == from > 0
    <2>1. mode = "pty"
      BY <1>1, <1>4 DEF TypeOK
    <2>2. /\ from \in Positions /\ from <= saved.next /\ from <= Oldest
          /\ Loaded # {} => Highest(Loaded) = saved.next
      <3>1. CASE Loaded = {}
        <4>1. R.since <= Oldest
          <5>1. SUFFICES ASSUME ~(R.since <= Oldest)
                         PROVE  FALSE
            OBVIOUS
          <5>2. Oldest \in Oldest..(R.since - 1)
            BY <5>1, <1>2
          <5> QED BY <5>2, <3>1, <1>1 DEF ReadInv, Loaded
        <4> QED BY <4>1, <3>1, <1>1, <1>2
      <3>2. CASE Loaded # {}
        <4>1. Loaded = R.got /\ Loaded \in SUBSET Chunks
          BY <1>2 DEF Loaded
        <4>2. /\ Lowest(Loaded) \in {c.start : c \in Loaded}
              /\ \A c \in Loaded : Lowest(Loaded) <= c.start
          BY <4>1, <3>2, LowestIsLeast
        <4>3. /\ \A c \in Loaded : c.end <= Highest(Loaded)
              /\ Highest(Loaded) = saved.next
          BY <4>1, <3>2, <2>1, HighestIsGreatest DEF CursorMatches
        <4>4. PICK c \in Loaded : Lowest(Loaded) = c.start
          BY <4>2
        <4>5. c.start < c.end /\ c.start <= R.since
          BY <4>1, <1>1 DEF ReadInv, All
        <4>6. c.start <= saved.next
          BY <4>1, <4>3, <4>5, <1>2
        <4>7. c.start <= Oldest
          <5>1. CASE R.since <= Oldest
            BY <5>1, <4>1, <4>5, <1>2
          <5>2. CASE ~(R.since <= Oldest)
            <6>1. Oldest \in Oldest..(R.since - 1)
              BY <5>2, <1>2
            <6>2. PICK d \in Loaded : d.start <= Oldest
              BY <6>1, <4>1, <1>1 DEF ReadInv
            <6> QED BY <6>2, <4>1, <4>2, <4>4, <1>2
          <5> QED BY <5>1, <5>2
        <4>8. c.start \in Positions
          BY <4>1 DEF Chunks
        <4> QED BY <3>2, <4>3, <4>4, <4>6, <4>7, <4>8
      <3> QED BY <3>1, <3>2
    <2>3. Reconciled = [saved EXCEPT !.first = from, !.truncated = tr, !.next = saved.next]
      BY <1>2, <1>4, <2>2 DEF Reconciled
    <2>4. tr \in BOOLEAN
      OBVIOUS
    <2> HIDE DEF from, tr
    <2>5. /\ Reconciled \in Cursors
          /\ Reconciled.first = from /\ Reconciled.next = saved.next
      BY <2>2, <2>3, <2>4, <1>1, <1>2 DEF Cursors
    <2> QED BY <2>2, <2>5, <1>1 DEF Behind
  <1> QED BY <1>3, <1>4

\* The session is loaded.
LEMMA FinishLoadStep ==
    ASSUME IndInv, daemon \in Loading, HasRead("load"), CursorMatches, FinishLoad,
           UNCHANGED <<child, reader, journal, place, lane, answers, crashes, faults>>
    PROVE  IndInv'
  <1> USE DaemonTypes
  <1>1. CursorInv /\ "load" \in Readers /\ daemon # "up"
    BY DEF IndInv, Readers, Loading
  <1>2. /\ rec' = Reconciled /\ saved' = Reconciled /\ daemon' = "up"
        /\ reads' = [reads EXCEPT !["load"] = NoRead]
    BY DEF FinishLoad
  <1>3. Reconciled \in Cursors /\ Behind(Reconciled)
    BY ReconciledIsBehind
  <1>4. reads' \in [Readers -> ReadRecords] /\ reads'["load"].phase # "reading"
    BY <1>1, <1>2, ReadTypes
  <1>5. ASSUME NEW r \in Readers
        PROVE  ReadInv(r)'
    <2>1. CASE r = "load"
      BY <2>1, <1>1, <1>4, IdleRead
    <2>2. CASE r # "load"
      <3>1. reads'[r] = reads[r]
        BY <2>2, <1>2
      <3> QED BY <3>1, SameRead
    <2> QED BY <2>1, <2>2
  <1>6. Behind(rec)' /\ Behind(saved)'
    BY <1>2, <1>3, SameBehind DEF Behind
  <1>7. \A p \in Pollers : answers'[p] = NoAnswer
    BY <1>1 DEF CursorInv
  <1>8. CursorInv'
    BY <1>2, <1>6, <1>7 DEF CursorInv, Loading
  <1> QED BY <1>2, <1>3, <1>4, <1>5, <1>8, DaemonFrame

\* The journal is refused.
LEMMA QuarantineStep ==
    ASSUME IndInv, Quarantine
    PROVE  IndInv'
  <1> USE DaemonTypes
  <1>1. /\ place' = "quarantine" /\ daemon' = "up" /\ reads' = [reads EXCEPT !["load"] = NoRead]
        /\ "load" \in Readers /\ UNCHANGED <<child, reader, journal, record, crashes, faults>>
    BY DEF Quarantine, Readers
  <1>2. reads' \in [Readers -> ReadRecords] /\ reads'["load"].phase # "reading"
    BY <1>1, ReadTypes
  <1>3. ASSUME NEW r \in Readers
        PROVE  ReadInv(r)'
    <2>1. CASE r = "load"
      BY <2>1, <1>1, <1>2, IdleRead
    <2>2. CASE r # "load"
      <3>1. reads'[r] = reads[r]
        BY <2>2, <1>1
      <3> QED BY <3>1, <1>1, SameRead
    <2> QED BY <2>1, <2>2
  <1> QED BY <1>1, <1>2, <1>3, ReadFrame

\* The files of retired chunks are removed: a file is removed with every one
\* before it, and none that holds a retained byte.
LEMMA DiscardStep ==
    ASSUME IndInv, Discard
    PROVE  IndInv'
  <1> DEFINE R == reads["load"]
  <1> USE DaemonTypes
  <1>1. /\ TypeOK /\ Arrived <= LastByte /\ WorkerInv /\ StateInv /\ FilesInv /\ CursorInv
        /\ "load" \in Readers /\ ReadInv("load")
    BY DEF IndInv, WorkerInv, Readers
  <1>2. /\ daemon = "discard" /\ R.phase = "reading" /\ R.listed = {}
        /\ files' = files \ {c \in R.got : c.end <= saved.first}
        /\ daemon' = "reload" /\ reads' = [reads EXCEPT !["load"].phase = "idle"]
        /\ UNCHANGED <<chunks, next, first, retained, truncated, failed, step, place, crashes, faults>>
        /\ UNCHANGED <<mode, unread, exited, held, eof, rec, saved, lane, answers>>
    BY DEF Discard, HasRead, Loaded, child, reader, record
  <1>3. /\ next \in Nat /\ Oldest \in Nat /\ files \subseteq Chunks /\ R.since \in Nat
        /\ \A c \in Chunks : c.start \in Nat /\ c.end \in Nat
        /\ saved.first \in Nat /\ saved.next \in Nat
    BY <1>1, Numbers, JournalAssumption DEF Cursors, Positions
  <1>4. saved.first <= saved.next /\ saved.first <= Oldest /\ saved.next <= R.since
    BY <1>1, <1>2 DEF CursorInv, Behind, Loading
  <1>5. Oldest' = Oldest
    BY <1>2 DEF Oldest, FirstOf
  <1>6. \A f \in files : f.end <= saved.first => f \notin files'
    <2>1. SUFFICES ASSUME NEW f \in files, f.end <= saved.first
                   PROVE  f \in R.got
      BY <1>2
    <2>2. f.end <= R.since
      BY <2>1, <1>3, <1>4
    <2> QED BY <2>2, <1>1, <1>2 DEF ReadInv
  <1>7. files' \subseteq files /\ \A f \in files : ~(f.end <= saved.first) => f \in files'
    BY <1>2
  <1>8. Grows
    <2>1. \A f \in files : f.end <= Oldest' \/ f \in files'
      BY <1>3, <1>4, <1>5, <1>7
    <2> QED BY <2>1, <1>2, <1>3, <1>5, <1>7 DEF Grows
  <1>9. ~failed => files' = files
    <2>1. SUFFICES ASSUME ~failed, NEW f \in files
                   PROVE  f \in files'
      BY <1>7
    <2>2. f.start < f.end /\ Oldest <= f.start
      BY <2>1, <1>1, InARow
    <2> QED BY <2>2, <1>3, <1>4, <1>7
  <1>10. StateInv'
    BY <1>1, <1>2, <1>5, <1>9 DEF StateInv, JournalIsWhole
  <1>11. FilesInv'
    <2>1. ASSUME NEW f \in files'
          PROVE  (\E g \in files' : g.start = f.end) \/ (\A g \in files' : g.start <= f.start)
      <3>1. f \in files /\ ~(f.end <= saved.first)
        BY <1>6, <1>7
      <3>2. ASSUME NEW g \in files, g.start = f.end
            PROVE  g \in files'
        <4>1. g.start < g.end
          BY <1>1 DEF FilesInv
        <4> QED BY <4>1, <3>1, <3>2, <1>3, <1>7
      <3> QED BY <3>1, <3>2, <1>1, <1>7 DEF FilesInv
    <2>2. ASSUME NEW b \in Oldest..(next - 1)
          PROVE  \E f \in files' : f.start <= b /\ b < f.end
      <3>1. PICK f \in files : f.start <= b /\ b < f.end
        BY <1>1 DEF FilesInv
      <3> QED BY <3>1, <1>3, <1>4, <1>7
    <2> QED BY <2>1, <2>2, <1>1, <1>2, <1>5, <1>7 DEF FilesInv
  <1>12. /\ reads' \in [Readers -> ReadRecords] /\ reads'["load"].phase = "idle"
         /\ \A r \in Readers : r # "load" => reads'[r] = reads[r]
    BY <1>1, <1>2 DEF ReadRecords
  <1>13. TypeOK'
    <2>1. files' \subseteq Chunks /\ daemon' \in {"up", "down"} \cup Loading
      BY <1>2, <1>3 DEF Loading
    <2> QED BY <2>1, <1>1, <1>2, <1>12 DEF TypeOK, ReadRecords
  <1>14. ASSUME NEW r \in Readers
         PROVE  ReadInv(r)'
    <2>1. CASE r = "load"
      BY <2>1, <1>12, IdleRead
    <2>2. CASE r # "load"
      <3>1. reads'[r] = reads[r]
        BY <2>2, <1>12
      <3>2. next' \in Nat /\ Oldest' \in Nat /\ files' \subseteq Chunks
        BY <1>2, <1>3, <1>5
      <3> QED BY <3>1, <3>2, <1>8, ReadsKept
    <2> QED BY <2>1, <2>2
  <1>15. CursorInv'
    <2>1. Behind(rec)' /\ Behind(saved)'
      BY <1>1, <1>2, <1>5 DEF CursorInv, Behind
    <2>2. lane # "saving" /\ \A p \in Pollers : answers[p] = NoAnswer
      BY <1>1, <1>2 DEF CursorInv
    <2> QED BY <2>1, <2>2, <1>2, <1>12 DEF CursorInv
  <1>16. Arrived' <= LastByte
    BY <1>1, <1>2 DEF Arrived
  <1> QED BY <1>10, <1>11, <1>13, <1>14, <1>15, <1>16 DEF IndInv, WorkerInv

-----------------------------------------------------------------------------
(* The theorems *)

LEMMA InitEstablishes ==
    ASSUME Init
    PROVE  IndInv
  <1>1. 0 \in Positions /\ 0 \in Nat /\ LastByte \in Nat /\ 0 <= LastByte
    BY JournalAssumption DEF Positions
  <1>2. NewCursors \in Cursors /\ NewCursors.next = 0 /\ NewCursors.first = 0
    <2>1. FALSE \in BOOLEAN
      OBVIOUS
    <2> QED BY <2>1, <1>1 DEF NewCursors, Cursors
  <1>3. NoRead \in ReadRecords /\ NoRead.phase = "idle"
    BY <1>1 DEF NoRead, ReadRecords
  <1>4. /\ mode \in {"pty", "exec"} /\ unread = 0 /\ held = 0 /\ next = 0 /\ first = 0 /\ retained = 0
        /\ chunks = <<>> /\ step = "idle" /\ files = {} /\ place = "sessions" /\ daemon = "up"
        /\ rec = NewCursors /\ saved = NewCursors /\ lane = "idle" /\ crashes = 0 /\ faults = 0
        /\ answers = [p \in Pollers |-> NoAnswer] /\ reads = [r \in Readers |-> NoRead]
        /\ ~failed /\ failed \in BOOLEAN /\ truncated \in BOOLEAN /\ exited \in BOOLEAN /\ eof \in BOOLEAN
    BY DEF Init
  <1>5. chunks \in Seq(Chunks) /\ Len(chunks) = 0 /\ Oldest = 0
    BY <1>4 DEF Oldest, FirstOf
  <1>6. TypeOK
    <2>1. crashes \in 0..MaxCrashes /\ faults \in 0..MaxFaults
      BY <1>4, JournalAssumption
    <2>2. reads \in [Readers -> ReadRecords] /\ answers \in [Pollers -> Cursors \cup {NoAnswer}]
      BY <1>3, <1>4
    <2> QED BY <1>1, <1>2, <1>4, <1>5, <2>1, <2>2 DEF TypeOK, ReadRecords
  <1>7. StateInv
    <2>1. JournalIsWhole
      BY <1>4, <1>5, JournalAssumption DEF JournalIsWhole, Oldest
    <2> QED BY <2>1, <1>4, <1>5 DEF StateInv
  <1>8. FilesInv
    BY <1>4, <1>5 DEF FilesInv
  <1>9. CursorInv
    <2>1. Behind(rec) /\ Behind(saved)
      BY <1>2, <1>4, <1>5 DEF Behind
    <2>2. \A p \in Pollers : answers[p] = NoAnswer
      BY <1>4
    <2> QED BY <2>1, <2>2, <1>4 DEF CursorInv, Loading
  <1>10. \A r \in Readers : ReadInv(r)
    BY <1>3, <1>4 DEF ReadInv
  <1>11. Arrived <= LastByte
    BY <1>1, <1>4 DEF Arrived
  <1> QED BY <1>6, <1>7, <1>8, <1>9, <1>10, <1>11 DEF IndInv, WorkerInv

LEMMA StutterKeeps ==
    ASSUME IndInv, UNCHANGED vars
    PROVE  IndInv'
  <1>1. UNCHANGED <<child, reader, journal, place, daemon, record, reads, crashes, faults>>
    BY DEF vars
  <1>2. \A r \in Readers : ReadInv(r)'
    BY <1>1, SameRead
  <1>3. CursorInv /\ \A r \in Readers : ReadInv(r)
    BY DEF IndInv
  <1>4. daemon' \in Loading /\ reads'["load"].phase = "reading" => saved.next <= reads'["load"].since
    <2>1. daemon' = daemon /\ reads' = reads
      BY <1>1
    <2> QED BY <2>1, <1>3 DEF CursorInv
  <1> QED BY <1>1, <1>2, <1>4, DaemonTypes, ReadFrame

LEMMA NextKeeps ==
    ASSUME IndInv, [Next]_vars
    PROVE  IndInv'
  <1>1. CASE ChildWrites \/ ChildExits
    BY <1>1, ChildStep
  <1>2. CASE WorkerStep
    BY <1>2, ReaderReadsStep, ReaderEndsStep, TrimStep DEF WorkerStep
  <1>3. CASE RecordStep
    BY <1>3, RecordStepInv
  <1>4. CASE ReadStep
    BY <1>4, ReadFileStep DEF ReadStep
  <1>5. CASE \E r \in {"call", "wake"} : StartRead(r) \/ AnswerRead(r)
    BY <1>5, CallStep
  <1>6. CASE Crash
    BY <1>6, CrashStep
  <1>7. CASE Restart
    BY <1>7, ReadChunksStep DEF Restart, Loading
  <1>8. CASE AcceptChunks
    <2>1. CASE saved.truncated
      <3>1. ReadChunksAt("discard") /\ daemon = "load"
            /\ UNCHANGED <<child, reader, journal, place, record, crashes, faults>>
        BY <1>8, <2>1 DEF AcceptChunks, record
      <3> QED BY <3>1, ReadChunksStep DEF Loading
    <2>2. CASE ~saved.truncated
      BY <1>8, <2>2, FinishLoadStep DEF AcceptChunks, Loading
    <2> QED BY <2>1, <2>2
  <1>9. CASE Discard
    BY <1>9, DiscardStep
  <1>10. CASE ReadRetained
    BY <1>10, ReadChunksStep DEF ReadRetained, Loading
  <1>11. CASE AcceptRetained
    BY <1>11, FinishLoadStep DEF AcceptRetained, Loading
  <1>12. CASE Quarantine
    BY <1>12, QuarantineStep
  <1>13. CASE UNCHANGED vars
    BY <1>13, StutterKeeps
  <1> QED BY <1>1, <1>2, <1>3, <1>4, <1>5, <1>6, <1>7, <1>8, <1>9, <1>10, <1>11, <1>12, <1>13
       DEF Next, LoadStep

\* The inductive invariant: the worker's chunks are in a row and are its files
\* until a write fails, the files are in a row even then, every read is on its
\* way to a row, and every cursor is behind the journal.
THEOREM JournalInvariant == Spec => []IndInv
  <1>1. Init => IndInv
    BY InitEstablishes
  <1>2. IndInv /\ [Next]_vars => IndInv'
    BY NextKeeps
  <1> QED BY <1>1, <1>2, PTL DEF Spec

\* Every variable of the journal has its type: in particular no byte number
\* passes LastByte, and the retained count never becomes negative.
THEOREM JournalTypeCorrect == Spec => []TypeOK
  <1>1. IndInv => TypeOK
    BY DEF IndInv, WorkerInv
  <1> QED BY <1>1, JournalInvariant, PTL

\* append_output: as long as no write has failed, the files are the chunks that
\* the worker knows of, without a gap, and its count is what they hold.
THEOREM JournalIsWholeHolds == Spec => []JournalIsWhole
  <1>1. IndInv => JournalIsWhole
    BY DEF IndInv, WorkerInv, StateInv
  <1> QED BY <1>1, JournalInvariant, PTL

\* The cursors of the invariant are behind the journal.
LEMMA CursorsAreBehind == IndInv => CursorsNeverAhead
  <1> SUFFICES ASSUME IndInv PROVE CursorsNeverAhead
    OBVIOUS
  <1>1. Behind(rec) /\ Behind(saved) /\ \A p \in Pollers : answers[p] # NoAnswer => Behind(answers[p])
    BY DEF IndInv, CursorInv
  <1> QED BY <1>1 DEF CursorsNeverAhead, Behind, Oldest

\* finishNativeVersion and reconcileSession: no cursor of the daemon promises
\* output that the worker has not stored, or denies a byte that is retained,
\* across crashes and reloads, and in whatever order answers arrive.
THEOREM CursorsNeverAheadHolds == Spec => []CursorsNeverAhead
  BY CursorsAreBehind, JournalInvariant, PTL

\* A finished read of the invariant has no gap and every retained byte.
LEMMA FinishedReadsAreWhole == IndInv => ReadIsWhole
  <1>1. ASSUME IndInv
        PROVE  ReadIsWhole
    <2>1. SUFFICES ASSUME NEW r \in Readers, HasRead(r)
                   PROVE  /\ Continuous(reads[r].got)
                          /\ \A b \in FirstOf(chunks, next)..(reads[r].since - 1) :
                                \E c \in reads[r].got : c.start <= b /\ b < c.end
      BY DEF ReadIsWhole
    <2> DEFINE G == reads[r].got
    <2>2. /\ TypeOK /\ ReadInv(r) /\ reads[r].phase = "reading" /\ reads[r].listed = {}
      BY <1>1, <2>1 DEF IndInv, WorkerInv, HasRead
    <2>3. All(r) = {c.start : c \in G}
      BY <2>2 DEF All
    <2>4. /\ \A c \in G : c.start < c.end
          /\ \A c, d \in G : c.start = d.start => c = d
          /\ \A c \in G : c.end \in All(r) \/ \A s \in All(r) : s <= c.start
          /\ \A b \in Oldest..(reads[r].since - 1) : \E c \in G : c.start <= b /\ b < c.end
      BY <2>2 DEF ReadInv
    <2>5. G \in SUBSET Chunks /\ \A c \in G : c.start \in Nat /\ c.end \in Nat
      BY <2>2, Numbers
    <2> HIDE DEF G
    <2>6. ASSUME NEW c \in G
          PROVE  c.end = Highest(G) \/ \E d \in G : d.start = c.end
      <3>1. CASE c.end \in All(r)
        BY <3>1, <2>3
      <3>2. CASE \A s \in All(r) : s <= c.start
        <4>1. ASSUME NEW d \in G
              PROVE  d.end <= c.end
          <5>1. d.start <= c.start
            BY <3>2, <2>3
          <5>2. CASE d.end \in All(r)
            <6>1. d.end <= c.start
              BY <5>2, <3>2
            <6> QED BY <6>1, <2>4, <2>5
          <5>3. CASE \A s \in All(r) : s <= d.start
            <6>1. c.start <= d.start
              BY <5>3, <2>3
            <6>2. d = c
              BY <6>1, <5>1, <2>4, <2>5
            <6> QED BY <6>2, <2>5
          <5> QED BY <5>2, <5>3, <2>4
        <4> QED BY <4>1, <2>5, HighestIs
      <3> QED BY <3>1, <3>2, <2>4
    <2>7. Continuous(G)
      BY <2>6 DEF Continuous
    <2> QED BY <2>4, <2>7 DEF G, Oldest
  <1> QED BY <1>1

\* readOutputChunks: a read that got every file it listed has no gap and holds
\* every byte that was there when it began and is still retained, although the
\* worker extends and removes files between its steps.
THEOREM ReadIsWholeHolds == Spec => []ReadIsWhole
  BY FinishedReadsAreWhole, JournalInvariant, PTL

-----------------------------------------------------------------------------
(* Send and wait: the same journal under input and waits *)

\* While the worker writes input, the call is sending; what the child had
\* written when the operation began is on its way, and then in the journal.
SendInv ==
    /\ rpc # "none" => wait.pc = "sending"
    /\ ~failed => /\ rpc = "drain" => asked <= Arrived
                  /\ rpc = "write" => asked <= next

\* Only a registered wait is woken, and what settles it clears what would wake
\* it again.
WakeInv == wake # "none" \/ reads["wake"].phase # "idle" => Registered

WaitInv ==
    /\ IndInv /\ mode = "pty" /\ daemon = "up"
    /\ WaitTypeOK /\ SendInv /\ WakeInv /\ BoundaryIsSound

\* A terminal stores all it is given, or fails.
LEMMA PtyAppends ==
    ASSUME mode = "pty", next \in Nat, NEW m \in Nat, AppendOutput(m), ~failed'
    PROVE  ~failed /\ next' = next + m
  <1>1. CASE m = 0 \/ failed
    <2>1. failed' = failed /\ next' = next
      BY <1>1 DEF AppendOutput, journal
    <2> QED BY <1>1, <2>1
  <1>2. CASE ~(m = 0 \/ failed)
    <2>1. PICK kept \in Kept(m) :
            IF kept = 0
            THEN UNCHANGED <<chunks, next, first, retained, failed, step, files, faults>>
            ELSE StoreSucceeds(kept) \/ StoreFails(kept)
      BY <1>2 DEF AppendOutput
    <2>2. kept = m /\ kept # 0
      BY <1>2 DEF Kept
    <2>3. StoreSucceeds(m)
      BY <2>1, <2>2 DEF StoreFails
    <2> QED BY <1>2, <2>3 DEF StoreSucceeds
  <1> QED BY <1>1, <1>2

\* As long as no write fails, what has arrived and what is stored only grow.
Advances == ~failed' => ~failed /\ Arrived <= Arrived' /\ next <= next'

\* The steps of the child and the worker advance the journal.
LEMMA WorkerAdvances ==
    ASSUME IndInv, mode = "pty",
           ChildWrites \/ ChildExits \/ ReaderReads \/ ReaderEnds \/ TrimSucceeds \/ TrimFails
    PROVE  Advances
  <1>1. TypeOK /\ Arrived <= LastByte
    BY DEF IndInv, WorkerInv
  <1>2. next \in Nat /\ held \in Nat /\ unread \in Nat
    BY <1>1, Numbers
  <1>3. CASE ChildWrites
    BY <1>2, <1>3 DEF ChildWrites, reader, journal, Advances, Arrived
  <1>4. CASE ChildExits
    BY <1>2, <1>4 DEF ChildExits, reader, journal, Advances, Arrived
  <1>5. CASE ReaderReads
    <2>1. PICK n \in 1..unread : Take(n)
      BY <1>5 DEF ReaderReads
    <2>2. PICK k \in HeldBack(n) : held' = k /\ AppendOutput(held + n - k)
      BY <2>1 DEF Take
    <2>3. k \in Nat /\ n \in Nat /\ n <= unread /\ k <= held + n /\ held + n - k \in Nat
      BY <1>2, JournalAssumption DEF HeldBack
    <2>4. unread' = unread - n
      BY <2>1 DEF Take
    <2>5. ASSUME ~failed' PROVE ~failed /\ next' = next + (held + n - k)
      BY <1>2, <2>2, <2>3, <2>5, PtyAppends
    <2> QED BY <1>2, <2>2, <2>3, <2>4, <2>5 DEF Advances, Arrived
  <1>6. CASE ReaderEnds
    <2>1. AppendOutput(held) /\ held' = 0 /\ unread' = unread
      BY <1>6 DEF ReaderEnds, child
    <2>2. ASSUME ~failed' PROVE ~failed /\ next' = next + held
      BY <1>2, <2>1, <2>2, PtyAppends
    <2> QED BY <1>2, <2>1, <2>2 DEF Advances, Arrived
  <1>7. CASE TrimSucceeds
    BY <1>2, <1>7 DEF TrimSucceeds, child, reader, Advances, Arrived
  <1>8. CASE TrimFails
    BY <1>8 DEF TrimFails, Advances
  <1> QED BY <1>3, <1>4, <1>5, <1>6, <1>7, <1>8

\* So does every step that leaves them alone.
LEMMA QuietAdvances ==
    ASSUME IndInv, UNCHANGED <<child, reader, journal>>
    PROVE  Advances /\ failed' = failed /\ next' = next /\ Arrived' = Arrived
  <1>1. next \in Nat /\ held \in Nat /\ unread \in Nat
    BY Numbers DEF IndInv, WorkerInv
  <1> QED BY <1>1 DEF child, reader, journal, Advances, Arrived

\* A step of the call: it may take or leave the lane, drop its reads, save the
\* record or fail to.
LEMMA CallFrame ==
    ASSUME IndInv, daemon = "up",
           UNCHANGED <<child, reader, journal, place, daemon, rec, answers, crashes>>,
           saved' \in {saved, rec}, lane' \in {"idle", "saving", "input"}, faults' \in 0..MaxFaults,
           reads' \in [Readers -> ReadRecords], \A r \in Readers : reads'[r] \in {reads[r], NoRead}
    PROVE  IndInv'
  <1> USE DaemonTypes
  <1>1. TypeOK /\ Arrived <= LastByte /\ StateInv /\ FilesInv /\ CursorInv
    BY DEF IndInv, WorkerInv
  <1>2. UNCHANGED <<mode, unread, exited, held, eof, chunks, next, first, retained, truncated,
                    failed, step, files>>
    BY DEF child, reader, journal
  <1>3. saved' \in Cursors
    OBVIOUS
  <1>4. TypeOK'
    BY <1>1, <1>2, <1>3 DEF TypeOK, ReadRecords
  <1>5. Arrived' <= LastByte
    BY <1>1, <1>2 DEF Arrived
  <1>6. StateInv'
    BY <1>1, <1>2 DEF StateInv, JournalIsWhole, Oldest, FirstOf
  <1>7. FilesInv'
    BY <1>1, <1>2 DEF FilesInv, Oldest, FirstOf
  <1>8. \A r \in Readers : ReadInv(r)'
    BY SameRead, IdleRead, ReadTypes
  <1>9. CursorInv'
    <2>1. Behind(rec)' /\ Behind(saved)'
      BY <1>1, SameBehind DEF CursorInv, Behind
    <2>2. ASSUME NEW p \in Pollers, answers[p] # NoAnswer PROVE Behind(answers[p])'
      BY <1>1, <2>2, SameBehind DEF CursorInv, Behind
    <2> QED BY <2>1, <2>2 DEF CursorInv, Loading
  <1> QED BY <1>4, <1>5, <1>6, <1>7, <1>8, <1>9 DEF IndInv, WorkerInv

\* Reads that a call drops.
LEMMA DroppedReads ==
    ASSUME IndInv,
           \/ reads' = reads
           \/ reads' = [reads EXCEPT !["call"] = NoRead]
           \/ reads' = [reads EXCEPT !["wake"] = NoRead]
           \/ reads' = [reads EXCEPT !["call"] = NoRead, !["wake"] = NoRead]
    PROVE  /\ reads' \in [Readers -> ReadRecords]
           /\ \A r \in Readers : reads'[r] \in {reads[r], NoRead}
  <1>1. reads \in [Readers -> ReadRecords] /\ NoRead \in ReadRecords
    BY DaemonTypes, ReadTypes
  <1> HIDE DEF NoRead
  <1> QED BY <1>1

\* The steps of the call itself: they move neither the child, nor the reader,
\* nor the journal.
CallMoves ==
    \/ Send \/ WorkerBegins \/ WriteInput \/ LookRefused \/ Looked \/ Relooked \/ WakeLooked
    \/ Deadline \/ FinishWait

\* They keep the journal's invariant.
LEMMA CallMovesKeepJournal ==
    ASSUME IndInv, daemon = "up", CallMoves
    PROVE  IndInv' /\ UNCHANGED <<child, reader, journal, daemon>>
  <1>1. lane \in {"idle", "saving", "input"} /\ faults \in 0..MaxFaults /\ MaxFaults \in Nat
    BY JournalAssumption DEF IndInv, WorkerInv, TypeOK
  <1>2. ASSUME UNCHANGED outside,
               \/ reads' = reads
               \/ reads' = [reads EXCEPT !["call"] = NoRead]
               \/ reads' = [reads EXCEPT !["wake"] = NoRead]
               \/ reads' = [reads EXCEPT !["call"] = NoRead, !["wake"] = NoRead]
        PROVE  IndInv' /\ UNCHANGED <<child, reader, journal, daemon>>
    <2>1. /\ UNCHANGED <<child, reader, journal, place, daemon, rec, answers, crashes>>
          /\ saved' = saved /\ lane' = lane /\ faults' = faults
      BY <1>2 DEF outside, record
    <2>2. /\ reads' \in [Readers -> ReadRecords]
          /\ \A r \in Readers : reads'[r] \in {reads[r], NoRead}
      BY <1>2, DroppedReads
    <2> QED BY <1>1, <2>1, <2>2, CallFrame
  <1>3. ASSUME UNCHANGED <<child, reader, journal, place, daemon, rec, answers, reads, crashes>>,
               saved' \in {saved, rec}, lane' \in {lane, "idle", "input"},
               faults' \in 0..MaxFaults
        PROVE  IndInv' /\ UNCHANGED <<child, reader, journal, daemon>>
    <2>1. /\ reads' \in [Readers -> ReadRecords]
          /\ \A r \in Readers : reads'[r] \in {reads[r], NoRead}
      BY <1>3, DroppedReads
    <2> QED BY <1>1, <1>3, <2>1, CallFrame
  <1>4. CASE Send
    BY <1>1, <1>3, <1>4 DEF Send
  <1>5. CASE WorkerBegins
    BY <1>1, <1>3, <1>5 DEF WorkerBegins
  <1>6. CASE WriteInput
    BY <1>1, <1>3, <1>6 DEF WriteInput
  <1>7. CASE LookRefused
    BY <1>2, <1>7 DEF LookRefused
  <1>8. CASE Looked
    BY <1>2, <1>8 DEF Looked, Settle
  <1>9. CASE Relooked
    BY <1>2, <1>9 DEF Relooked, Settle
  <1>10. CASE WakeLooked
    BY <1>2, <1>10 DEF WakeLooked, Settle
  <1>11. CASE Deadline
    BY <1>2, <1>11 DEF Deadline, Settle
  <1>12. CASE FinishWait
    BY <1>1, <1>3, <1>12 DEF FinishWait
  <1> QED BY <1>4, <1>5, <1>6, <1>7, <1>8, <1>9, <1>10, <1>11, <1>12 DEF CallMoves

\* Three counts of bytes are a count.
LEMMA ThreeCounts ==
    ASSUME NEW a \in Nat, NEW b \in Nat, NEW c \in Nat
    PROVE  a + b + c \in Nat
  OBVIOUS

\* The boundary while the call itself stands still.
LEMMA BoundaryStands ==
    ASSUME WaitInv, IndInv', mode' = mode, daemon' = daemon, Advances, WakeInv',
           UNCHANGED <<rpc, asked, accepted, wait>>,
           wake' \in {"none", "output", "exit"}, waking' \in {"none", "output", "exit"}
    PROVE  WaitInv'
  <1>1. TypeOK' /\ WaitTypeOK /\ SendInv /\ BoundaryIsSound /\ TypeOK
    BY DEF IndInv, WorkerInv, WaitInv
  <1>2. /\ next \in Nat /\ held \in Nat /\ unread \in Nat /\ asked \in Nat
        /\ next' \in Nat /\ held' \in Nat /\ unread' \in Nat
    <2>1. Positions \subseteq Nat
      BY JournalAssumption DEF Positions
    <2>2. next \in Positions /\ held \in Positions /\ unread \in Positions /\ asked \in Positions
      BY <1>1 DEF WaitTypeOK, TypeOK
    <2>3. next' \in Positions /\ held' \in Positions /\ unread' \in Positions
      BY <1>1 DEF TypeOK
    <2> QED BY <2>1, <2>2, <2>3
  <1>3. Arrived \in Nat /\ Arrived' \in Nat
    <2>1. Arrived = next + held + unread /\ Arrived' = next' + held' + unread'
      BY DEF Arrived
    <2> QED BY <1>2, <2>1, ThreeCounts
  <1>4. WaitTypeOK'
    BY <1>1 DEF WaitTypeOK
  <1>5. SendInv'
    BY <1>1, <1>2, <1>3 DEF SendInv, Advances
  <1>6. BoundaryIsSound'
    BY <1>1 DEF BoundaryIsSound, Registered, Advances
  <1> QED BY <1>4, <1>5, <1>6 DEF WaitInv

\* The boundary while a call that has nothing to do with the worker moves on.
LEMMA BoundaryKept ==
    ASSUME WaitInv, IndInv', mode' = mode, daemon' = daemon, failed' = failed, WakeInv',
           rpc = "none", UNCHANGED <<rpc, asked, accepted>>,
           NEW pc \in PCs, wait'.pc = pc, wait' \in [pc : PCs, after : Positions,
                 result : {"none", "output", "exit", "deadline"}], wait'.after = wait.after,
           Registered' \/ pc \in {"look", "looking"} =>
                Registered \/ wait.pc \in {"look", "looking"},
           wake' \in {"none", "output", "exit"}, waking' \in {"none", "output", "exit"}
    PROVE  WaitInv'
  <1>1. TypeOK' /\ WaitTypeOK /\ BoundaryIsSound
    BY DEF IndInv, WorkerInv, WaitInv
  <1>2. WaitTypeOK'
    BY <1>1 DEF WaitTypeOK
  <1>3. SendInv'
    BY DEF SendInv
  <1>4. BoundaryIsSound'
    BY <1>1 DEF BoundaryIsSound
  <1> QED BY <1>2, <1>3, <1>4 DEF WaitInv

\* Every step of the call keeps the boundary.
LEMMA CallMovesKeepBoundary ==
    ASSUME WaitInv, CallMoves
    PROVE  WaitInv'
  <1>1. /\ IndInv /\ WaitTypeOK /\ SendInv /\ WakeInv /\ BoundaryIsSound /\ TypeOK /\ mode = "pty"
        /\ daemon = "up" /\ Arrived <= LastByte
    BY DEF IndInv, WorkerInv, WaitInv
  <1>2. IndInv' /\ UNCHANGED <<child, reader, journal, daemon>>
    BY <1>1, CallMovesKeepJournal
  <1>3. mode' = mode /\ daemon' = daemon /\ failed' = failed /\ next' = next /\ Arrived' = Arrived
    BY <1>1, <1>2, QuietAdvances DEF child
  <1>4. /\ next \in Positions /\ next \in Nat /\ Arrived \in Positions /\ Arrived \in Nat
        /\ next <= Arrived
    BY <1>1, Numbers DEF Arrived, TypeOK, Positions
  <1>5. /\ wait \in [pc : PCs, after : Positions, result : {"none", "output", "exit", "deadline"}]
        /\ rpc \in {"none", "drain", "write"} /\ asked \in Positions /\ accepted \in Positions
        /\ wake \in {"none", "output", "exit"} /\ waking \in {"none", "output", "exit"}
    BY <1>1 DEF WaitTypeOK
  <1>6. TypeOK'
    BY <1>2 DEF IndInv, WorkerInv
  <1>20. ASSUME wake' = wake, reads'["wake"] = reads["wake"], Registered => Registered'
         PROVE  WakeInv'
    BY <1>1, <1>20 DEF WakeInv
  <1>7. CASE Send
    <2>1. wait.pc = "none" /\ rpc = "none"
      BY <1>1, <1>5, <1>7 DEF Send, SendInv
    <2>3. WakeInv'
      BY <1>7, <2>1, <1>20 DEF Send, Registered
    <2>2. /\ UNCHANGED <<rpc, asked, accepted, wake, waking>>
          /\ \/ wait' = [wait EXCEPT !.pc = "sending"]
             \/ wait' = [wait EXCEPT !.pc = "refused"]
      BY <1>7 DEF Send, Refused
    <2> QED BY <1>2, <1>3, <1>5, <2>1, <2>2, <2>3, BoundaryKept DEF PCs, Over, Registered
  <1>8. CASE WorkerBegins
    <2>3. WakeInv'
      BY <1>8, <1>20 DEF WorkerBegins, Registered
    <2>1. CASE failed
      <3>1. /\ UNCHANGED <<rpc, asked, accepted, wake, waking>> /\ rpc = "none"
            /\ wait' = [wait EXCEPT !.pc = "refused"]
        BY <1>8, <2>1 DEF WorkerBegins, Refused
      <3> QED BY <1>2, <1>3, <1>5, <2>3, <3>1, BoundaryKept DEF PCs, Over, Registered
    <2>2. CASE ~failed
      <3>1. /\ wait.pc = "sending" /\ rpc' = "drain" /\ asked' = Arrived
            /\ UNCHANGED <<wait, accepted, wake, waking>>
        BY <1>8, <2>2 DEF WorkerBegins
      <3>2. WaitTypeOK'
        BY <1>4, <1>5, <1>6, <3>1 DEF WaitTypeOK
      <3>3. SendInv'
        BY <1>3, <1>4, <3>1 DEF SendInv
      <3>4. BoundaryIsSound'
        BY <3>1 DEF BoundaryIsSound, Registered
      <3> QED BY <1>1, <1>2, <1>3, <2>3, <3>2, <3>3, <3>4 DEF WaitInv
    <2> QED BY <2>1, <2>2
  <1>9. CASE WriteInput
    <2>1. /\ rpc = "write" /\ rpc' = "none" /\ accepted' = Arrived
          /\ UNCHANGED <<asked, wake, waking>>
          /\ \/ wait' = [wait EXCEPT !.pc = "look", !.after = next]
             \/ wait' = [wait EXCEPT !.pc = "refused"]
      BY <1>9 DEF WriteInput, Refused
    <2>2. /\ wait' \in [pc : PCs, after : Positions, result : {"none", "output", "exit", "deadline"}]
          /\ (wait'.pc = "look" /\ wait'.after = next) \/ wait'.pc = "refused"
      BY <1>4, <1>5, <2>1 DEF PCs, Over
    <2>3. WaitTypeOK'
      BY <1>4, <1>5, <1>6, <2>1, <2>2 DEF WaitTypeOK
    <2>4. SendInv'
      BY <2>1 DEF SendInv
    <2>5. ~failed => asked <= next
      BY <1>1, <2>1 DEF SendInv
    <2>6. BoundaryIsSound'
      BY <1>3, <1>4, <2>1, <2>2, <2>5 DEF BoundaryIsSound, Registered
    <2>7. wait.pc = "sending" /\ UNCHANGED <<reads, wake>>
      BY <1>1, <1>9, <2>1 DEF SendInv, WriteInput
    <2>8. WakeInv'
      BY <2>7, <1>20 DEF Registered
    <2> QED BY <1>1, <1>2, <1>3, <2>3, <2>4, <2>6, <2>8 DEF WaitInv
  <1>10. ASSUME rpc = "none", UNCHANGED <<rpc, asked, accepted>>, WakeInv',
                wake' \in {"none", "output", "exit"}, waking' \in {"none", "output", "exit"},
                NEW pc \in {"refused", "finishing", "relook", "pending", "answered", "unanswered"},
                NEW result \in {"none", "output", "exit", "deadline"},
                wait' = [wait EXCEPT !.pc = pc, !.result = result],
                pc \in {"relook", "pending"} => Registered \/ wait.pc = "looking"
         PROVE  WaitInv'
    BY <1>2, <1>3, <1>5, <1>10, BoundaryKept DEF PCs, Over, Registered
  <1>11. wait.pc # "sending" => rpc = "none"
    BY <1>1 DEF SendInv
  <1>12. /\ wait.result \in {"none", "output", "exit", "deadline"}
         /\ \A pc : [wait EXCEPT !.pc = pc] = [wait EXCEPT !.pc = pc, !.result = wait.result]
    BY <1>5
  <1>13. ASSUME NEW result \in {"none", "output", "exit", "deadline"}, Settle(result),
                wait.pc # "sending", UNCHANGED <<rpc, asked, accepted>>
         PROVE  WaitInv'
    <2>1. WakeInv'
      <3>1. reads'["wake"] = NoRead /\ wake' = "none"
        <4>1. reads \in [Readers -> ReadRecords] /\ "wake" \in Readers
          BY <1>1, DaemonTypes DEF Readers
        <4> HIDE DEF NoRead
        <4> QED BY <1>13, <4>1 DEF Settle
      <3> QED BY <3>1 DEF WakeInv, NoRead
    <2> QED BY <1>10, <1>11, <1>13, <2>1 DEF Settle
  <1>21. ASSUME reads' = [reads EXCEPT !["call"] = NoRead] PROVE reads'["wake"] = reads["wake"]
    <2>1. reads \in [Readers -> ReadRecords] /\ "wake" \in Readers
      BY <1>1, DaemonTypes DEF Readers
    <2> HIDE DEF NoRead
    <2> QED BY <1>21, <2>1
  <1>14. CASE LookRefused
    <2>1. /\ UNCHANGED <<rpc, asked, accepted, wake, waking>> /\ wait.pc # "sending"
          /\ wait' = [wait EXCEPT !.pc = "refused"]
      BY <1>14 DEF LookRefused, Refused, outside
    <2>2. WakeInv'
      BY <1>14, <1>20, <1>21 DEF LookRefused, Registered
    <2> QED BY <1>5, <1>10, <1>11, <1>12, <2>1, <2>2
  <1>15. CASE Looked
    <2>1. wait.pc = "looking" /\ UNCHANGED <<rpc, asked, accepted>>
      BY <1>15 DEF Looked, outside
    <2>2. CASE Settle("output") \/ Settle("exit")
      BY <2>1, <2>2, <1>13
    <2>3. CASE /\ wait' = [wait EXCEPT !.pc = "relook"] /\ UNCHANGED <<wake, waking>>
               /\ reads' = [reads EXCEPT !["call"] = NoRead]
      <3>1. WakeInv'
        BY <2>1, <2>3, <1>20, <1>21 DEF Registered
      <3> QED BY <2>1, <2>3, <3>1, <1>5, <1>10, <1>11, <1>12
    <2> QED BY <2>2, <2>3, <1>15 DEF Looked
  <1>16. CASE Relooked
    <2>1. wait.pc = "relooking" /\ UNCHANGED <<rpc, asked, accepted>>
      BY <1>16 DEF Relooked, outside
    <2>2. CASE Settle("output")
      BY <2>1, <2>2, <1>13
    <2>3. CASE /\ wait' = [wait EXCEPT !.pc = "pending"] /\ UNCHANGED <<wake, waking>>
               /\ reads' = [reads EXCEPT !["call"] = NoRead]
      <3>1. Registered'
        BY <2>3, <1>5 DEF Registered
      <3>2. WakeInv'
        BY <3>1 DEF WakeInv
      <3> QED BY <2>1, <2>3, <3>2, <1>5, <1>10, <1>11, <1>12 DEF Registered
    <2> QED BY <2>2, <2>3, <1>16 DEF Relooked
  <1>17. CASE WakeLooked
    <2>1. UNCHANGED <<rpc, asked, accepted>>
      BY <1>17 DEF WakeLooked, outside
    <2>4. Registered
      BY <1>1, <1>17 DEF WakeLooked, Ended, HasRead, WakeInv
    <2>2. CASE UNCHANGED <<wait, wake>> /\ waking' = "none"
      <3>1. WakeInv'
        BY <2>2, <2>4 DEF WakeInv, Registered
      <3> QED BY <1>1, <1>2, <1>3, <1>5, <2>1, <2>2, <3>1, QuietAdvances, BoundaryStands
    <2>3. CASE Settle("output") \/ Settle("exit")
      BY <2>1, <2>3, <2>4, <1>13 DEF Registered
    <2> QED BY <2>2, <2>3, <1>17 DEF WakeLooked
  <1>18. CASE Deadline
    <2>1. UNCHANGED <<rpc, asked, accepted>> /\ Settle("deadline") /\ wait.pc # "sending"
      BY <1>18 DEF Deadline, outside, Registered
    <2> QED BY <2>1, <1>13
  <1>19. CASE FinishWait
    <2>1. UNCHANGED <<rpc, asked, accepted, wake, waking>> /\ wait.pc # "sending"
      BY <1>19 DEF FinishWait
    <2>2. PICK pc \in {"answered", "unanswered"} : wait' = [wait EXCEPT !.pc = pc]
      BY <1>19 DEF FinishWait
    <2>3. WakeInv'
      BY <1>19, <1>20 DEF FinishWait, Registered
    <2>4. wait' = [wait EXCEPT !.pc = pc, !.result = wait.result]
      BY <1>12, <2>2
    <2> QED BY <1>5, <1>10, <1>11, <1>12, <2>1, <2>3, <2>4
  <1> QED BY <1>7, <1>8, <1>9, <1>14, <1>15, <1>16, <1>17, <1>18, <1>19 DEF CallMoves

\* Every step of the program keeps the journal whole and the boundary sound.
LEMMA WaitNextKeeps ==
    ASSUME WaitInv, [WaitNext]_allVars
    PROVE  WaitInv'
  <1>1. /\ IndInv /\ WaitTypeOK /\ SendInv /\ WakeInv /\ mode = "pty" /\ daemon = "up"
        /\ wake \in {"none", "output", "exit"} /\ waking \in {"none", "output", "exit"}
    BY DEF WaitInv, WaitTypeOK
  <1>2. reads \in [Readers -> ReadRecords] /\ "wake" \in Readers
    BY <1>1, DaemonTypes DEF Readers
  <1>3. ASSUME UNCHANGED waiting, IndInv', mode' = mode, daemon' = daemon, Advances,
               reads'["wake"].phase # "idle" => reads["wake"].phase # "idle"
        PROVE  WaitInv'
    <2>1. UNCHANGED <<rpc, asked, accepted, wait, wake, waking>>
      BY <1>3 DEF waiting
    <2>2. WakeInv'
      BY <1>1, <1>3, <2>1 DEF WakeInv, Registered
    <2> QED BY <1>1, <1>3, <2>1, <2>2, BoundaryStands
  <1>4. ASSUME ChildWrites \/ ChildExits \/ ReaderReads \/ ReaderEnds \/ TrimSucceeds \/ TrimFails,
               UNCHANGED waiting
        PROVE  WaitInv'
    <2>1. IndInv'
      BY <1>1, <1>4, ChildStep, ReaderReadsStep, ReaderEndsStep, TrimStep
    <2>2. Advances
      BY <1>1, <1>4, WorkerAdvances
    <2>3. mode' = mode /\ daemon' = daemon /\ reads' = reads
      BY <1>4 DEF ChildWrites, ChildExits, ReaderReads, Take, ReaderEnds, TrimSucceeds, TrimFails, child
    <2> QED BY <1>3, <1>4, <2>1, <2>2, <2>3
  <1>5. ASSUME NEW p \in Pollers, TakeSnapshot(p) \/ ApplySnapshot(p), UNCHANGED waiting
        PROVE  WaitInv'
    <2>1. IndInv'
      BY <1>1, <1>5, RecordStepInv DEF RecordStep
    <2>2. UNCHANGED <<child, reader, journal, daemon, reads>>
      BY <1>5 DEF TakeSnapshot, ApplySnapshot
    <2>3. Advances /\ mode' = mode
      BY <1>1, <2>2, QuietAdvances DEF child
    <2> QED BY <1>3, <1>5, <2>1, <2>2, <2>3
  <1>6. ASSUME NEW r \in Readers, NEW s \in Positions, ReadFile(r, s), UNCHANGED waiting
        PROVE  WaitInv'
    <2>1. IndInv'
      BY <1>1, <1>6, ReadFileStep
    <2>2. UNCHANGED <<child, reader, journal, daemon>> /\ reads[r].phase = "reading"
      BY <1>6 DEF ReadFile
    <2>3. Advances /\ mode' = mode
      BY <1>1, <2>2, QuietAdvances DEF child
    <2>4. reads'["wake"].phase # "idle" => reads["wake"].phase # "idle"
      <3>1. CASE r = "wake"
        BY <2>2, <3>1
      <3>2. CASE r # "wake"
        <4>1. reads'["wake"] = reads["wake"]
          BY <1>2, <1>6, <3>2 DEF ReadFile
        <4> QED BY <4>1
      <3> QED BY <3>1, <3>2
    <2> QED BY <1>3, <1>6, <2>1, <2>2, <2>3, <2>4
  <1>7. CASE JournalStep
    <2>1. UNCHANGED waiting
      BY <1>7 DEF JournalStep
    <2>2. CASE \E p \in Pollers : TakeSnapshot(p) \/ ApplySnapshot(p)
      BY <2>1, <2>2, <1>5
    <2>3. CASE ReadStep
      BY <2>1, <2>3, <1>6 DEF ReadStep
    <2>4. CASE ChildWrites \/ ChildExits \/ ReaderReads \/ ReaderEnds \/ TrimSucceeds \/ TrimFails
      BY <2>1, <2>4, <1>4
    <2> QED BY <1>7, <2>2, <2>3, <2>4 DEF JournalStep
  <1>8. CASE Drain
    <2>1. ReaderReads /\ UNCHANGED waiting
      BY <1>8 DEF Drain, ReaderReads
    <2> QED BY <2>1, <1>4
  <1>9. CASE SaveAndWake
    <2>1. IndInv'
      BY <1>1, <1>9, RecordStepInv DEF SaveAndWake, RecordStep
    <2>2. /\ UNCHANGED <<child, reader, journal, daemon, reads>>
          /\ UNCHANGED <<rpc, asked, accepted, wait, waking>>
          /\ wake' = IF ~Registered THEN wake ELSE IF rec.status = "running" THEN "output" ELSE "exit"
      BY <1>9 DEF SaveAndWake, SaveRecord
    <2>3. Advances /\ mode' = mode
      BY <1>1, <2>2, QuietAdvances DEF child
    <2>4. wake' \in {"none", "output", "exit"}
      BY <1>1, <2>2
    <2>5. WakeInv'
      BY <1>1, <2>2 DEF WakeInv, Registered
    <2> QED BY <1>1, <2>1, <2>2, <2>3, <2>4, <2>5, BoundaryStands
  <1>10. CASE FlushTail
    <2>1. /\ rpc = "drain" /\ step = "idle" /\ unread = 0 /\ AppendOutput(held) /\ held' = 0
          /\ rpc' = "write" /\ eof' = eof
          /\ UNCHANGED <<child, place, daemon, record, reads, crashes>>
          /\ UNCHANGED <<asked, accepted, wait, wake, waking>>
      BY <1>10 DEF FlushTail
    <2>2. IndInv'
      <3>1. eof' \in BOOLEAN
        BY <1>1, <2>1 DEF IndInv, WorkerInv, TypeOK
      <3> QED BY <1>1, <2>1, <3>1, TailStep
    <2>3. next \in Nat /\ held \in Nat
      BY <1>1, Numbers DEF IndInv, WorkerInv
    <2>4. ASSUME ~failed' PROVE ~failed /\ next' = next + held
      BY <1>1, <2>1, <2>3, <2>4, PtyAppends
    <2>5. wait.pc = "sending" /\ ~Registered'
      BY <1>1, <2>1 DEF SendInv, Registered
    <2>6. SendInv'
      <3>1. ASSUME ~failed' PROVE asked' <= next'
        <4>1. asked <= next + held + unread
          BY <1>1, <2>1, <2>4, <3>1 DEF SendInv, Arrived
        <4> QED BY <2>1, <2>3, <2>4, <3>1, <4>1
      <3> QED BY <2>1, <2>5, <3>1 DEF SendInv
    <2>7. WakeInv'
      BY <1>1, <2>1 DEF WakeInv, Registered
    <2>8. BoundaryIsSound'
      BY <2>1, <2>5 DEF BoundaryIsSound
    <2>9. WaitTypeOK'
      BY <1>1, <2>1, <2>2 DEF WaitTypeOK, IndInv, WorkerInv
    <2>10. mode' = mode /\ daemon' = daemon
      BY <2>1 DEF child
    <2> QED BY <1>1, <2>2, <2>6, <2>7, <2>8, <2>9, <2>10 DEF WaitInv
  <1>11. ASSUME NEW from \in {"look", "relook"}, NEW to \in {"looking", "relooking"}, wait.pc = from,
                (from = "look") = (to = "looking"),
                StartRead("call"), wait' = [wait EXCEPT !.pc = to],
                UNCHANGED <<rpc, asked, accepted, wake, waking>>
         PROVE  WaitInv'
    <2>1. IndInv'
      BY <1>1, <1>11, CallStep
    <2>2. UNCHANGED <<child, reader, journal, daemon>> /\ reads' = [reads EXCEPT !["call"] = Listing]
      BY <1>11 DEF StartRead
    <2>3. failed' = failed /\ mode' = mode /\ daemon' = daemon
      BY <2>2 DEF child, journal
    <2>4. /\ wait \in [pc : PCs, after : Positions, result : {"none", "output", "exit", "deadline"}]
          /\ rpc = "none"
      BY <1>1, <1>11 DEF WaitTypeOK, SendInv
    <2>5. /\ wait' \in [pc : PCs, after : Positions, result : {"none", "output", "exit", "deadline"}]
          /\ wait'.pc = to /\ to \in PCs /\ wait'.after = wait.after
      BY <1>11, <2>4 DEF PCs
    <2>6. reads'["wake"] = reads["wake"]
      <3> HIDE DEF Listing
      <3> QED BY <1>2, <2>2
    <2>7. Registered = Registered'
      BY <1>11, <2>5 DEF Registered
    <2>8. WakeInv'
      BY <1>1, <1>11, <2>6, <2>7 DEF WakeInv
    <2> QED BY <1>1, <1>11, <2>1, <2>3, <2>4, <2>5, <2>7, <2>8, BoundaryKept DEF Registered
  <1>12. CASE Look
    BY <1>11, <1>12 DEF Look
  <1>13. CASE Relook
    BY <1>11, <1>13 DEF Relook
  <1>14. CASE WakeLook
    <2>1. /\ wake # "none" /\ StartRead("wake") /\ wake' = "none" /\ waking' = wake
          /\ UNCHANGED <<rpc, asked, accepted, wait>>
      BY <1>14 DEF WakeLook
    <2>2. IndInv'
      BY <1>1, <2>1, CallStep
    <2>3. UNCHANGED <<child, reader, journal, daemon>>
      BY <2>1 DEF StartRead
    <2>4. Advances /\ mode' = mode
      BY <1>1, <2>3, QuietAdvances DEF child
    <2>5. WakeInv'
      BY <1>1, <2>1 DEF WakeInv, Registered
    <2> QED BY <1>1, <2>1, <2>2, <2>3, <2>4, <2>5, BoundaryStands
  <1>15. CASE CallMoves
    BY <1>15, CallMovesKeepBoundary
  <1>16. CASE UNCHANGED allVars
    <2>1. UNCHANGED vars /\ UNCHANGED waiting
      BY <1>16 DEF allVars
    <2>2. IndInv'
      BY <1>1, <2>1, StutterKeeps
    <2>3. UNCHANGED <<child, reader, journal, daemon, reads>>
      BY <2>1 DEF vars
    <2>4. Advances /\ mode' = mode
      BY <1>1, <2>3, QuietAdvances DEF child
    <2> QED BY <1>3, <2>1, <2>2, <2>3, <2>4
  <1> QED BY <1>7, <1>8, <1>9, <1>10, <1>12, <1>13, <1>14, <1>15, <1>16
       DEF WaitNext, InputStep, WaitStep, CallMoves

\* Under input and waits too: the journal's invariant, the types, and what the
\* boundary of a wait rests on.
THEOREM WaitInvariant == WaitSpec => []WaitInv
  <1>1. ASSUME WaitInit PROVE WaitInv
    <2>1. IndInv
      BY <1>1, InitEstablishes DEF WaitInit
    <2>2. /\ mode = "pty" /\ daemon = "up" /\ reads["wake"] = NoRead
          /\ rpc = "none" /\ asked = 0 /\ accepted = 0
          /\ wait = NoWait /\ wake = "none" /\ waking = "none"
      BY <1>1 DEF WaitInit, Init, Readers
    <2>3. 0 \in Positions
      BY JournalAssumption DEF Positions
    <2>4. WaitTypeOK
      BY <2>1, <2>2, <2>3 DEF WaitTypeOK, IndInv, WorkerInv, NoWait, PCs
    <2>5. wait.pc = "none"
      BY <2>2 DEF NoWait
    <2>6. SendInv /\ BoundaryIsSound
      BY <2>2, <2>5 DEF SendInv, BoundaryIsSound, Registered
    <2>7. WakeInv
      BY <2>2 DEF WakeInv, NoRead
    <2> QED BY <2>1, <2>2, <2>4, <2>6, <2>7 DEF WaitInv
  <1>2. WaitInv /\ [WaitNext]_allVars => WaitInv'
    BY WaitNextKeeps
  <1> QED BY <1>1, <1>2, PTL DEF WaitSpec

\* pty_send_wait: as long as the journal can be written, nothing that the child
\* had written when the input was sent comes after the cursor that the wait
\* starts from, and no reply comes before it, whatever the reader, the
\* retirement of chunks, polls and other reads do meanwhile.
THEOREM BoundaryIsSoundHolds == WaitSpec => []BoundaryIsSound
  <1>1. WaitInv => BoundaryIsSound
    BY DEF WaitInv
  <1> QED BY <1>1, WaitInvariant, PTL

\* Type correctness of the call, the worker's operation and the wake-ups.
THEOREM WaitTypeCorrect == WaitSpec => []WaitTypeOK
  <1>1. WaitInv => WaitTypeOK
    BY DEF WaitInv
  <1> QED BY <1>1, WaitInvariant, PTL

\* What a wait reads is whole as well: flush_terminal_redaction_tail appends
\* outside the reader, and the saves of finishWait move the cursors on disk.
THEOREM WaitReadsAreWhole == WaitSpec => [](JournalIsWhole /\ CursorsNeverAhead /\ ReadIsWhole)
  <1>1. WaitInv => JournalIsWhole /\ CursorsNeverAhead /\ ReadIsWhole
    BY CursorsAreBehind, FinishedReadsAreWhole DEF WaitInv, IndInv, WorkerInv, StateInv
  <1> QED BY <1>1, WaitInvariant, PTL

=============================================================================
