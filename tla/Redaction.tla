----------------------------- MODULE Redaction ------------------------------
(***************************************************************************)
(* The streaming redactor of the worker (worker/src/main.rs, redact_stream  *)
(* and its callers): output arrives in pieces cut anywhere, the end of what *)
(* has arrived is held back until it is known whether a secret begins in    *)
(* it, and the rest goes to the journal with the secrets replaced.          *)
(*                                                                          *)
(* raw is everything that the child has written; what the code keeps in     *)
(* `tail` is raw after the first `from` characters.  stored are the         *)
(* positions that reached the journal as they are, the other positions up   *)
(* to `from` were replaced.  The text [REDACTED] matches no secret.  A      *)
(* character is one letter: cutting UTF-8 apart is OutputJournal's carry.   *)
(***************************************************************************)
EXTENDS Integers, Sequences, FiniteSetsExt

CONSTANTS
    Alphabet,       \* the characters of the output
    Replacement,    \* one of them: what an incomplete character decodes to at the end
    SecretLists,    \* the lists of secrets a worker may be started with
    MinLen,         \* 4: shorter secrets are ignored, shorter prefixes are not hidden
    MaxRaw,         \* bound on the output
    MaxPiece        \* bound on what one read returns
ASSUME RedactionAssumption ==
    /\ MinLen \in Nat \ {0} /\ MaxRaw \in Nat /\ MaxPiece \in Nat
    /\ Replacement \in Alphabet
    /\ SecretLists \subseteq Seq(Seq(Alphabet))

VARIABLES
    secrets,        \* Worker.secrets
    raw, from,
    stored,
    cuts,           \* where the tail was given up: before an input, and at the end
    ended           \* the reader has returned

redactVars == <<secrets, raw, from, stored, cuts, ended>>

RedactTypeOK ==
    /\ secrets \in Seq(Seq(Alphabet))
    /\ raw \in Seq(Alphabet) /\ Len(raw) <= MaxRaw
    /\ from \in 0..Len(raw)
    /\ stored \subseteq 1..from /\ cuts \subseteq 0..Len(raw)
    /\ ended \in BOOLEAN

\* The secrets among the first k of the list that count.
LongEnough(list) ==
    LET kept[k \in 0..Len(list)] ==
            IF k = 0 THEN <<>>
            ELSE IF Len(list[k]) >= MinLen THEN Append(kept[k - 1], list[k])
            ELSE kept[k - 1]
    IN  kept

RedactInit ==
    /\ \E list \in SecretLists : secrets = LongEnough(list)[Len(list)]
    /\ raw = <<>> /\ from = 0 /\ stored = {} /\ cuts = {} /\ ended = FALSE

Longest == Max({0} \cup {Len(secrets[k]) : k \in DOMAIN secrets})

\* Secret s stands in text at position i.
Stands(text, s, i) == i + Len(s) - 1 <= Len(text) /\ SubSeq(text, i, i + Len(s) - 1) = s

-----------------------------------------------------------------------------
(* redact: the secrets one after the other, each at its leftmost matches in *)
(* what the ones before it left of text[low+1..high].  The result are the   *)
(* positions that are replaced.                                             *)

\* Nothing of the occurrence of s at i was replaced before.
Whole(text, s, high, gone, i) ==
    /\ i + Len(s) - 1 <= high /\ Stands(text, s, i)
    /\ (i..(i + Len(s) - 1)) \cap gone = {}

Scan(text, s, low, high, gone) ==
    LET scan[i \in (low + 1)..(high + 1)] ==
            IF i > high THEN {}
            ELSE IF Whole(text, s, high, gone, i) THEN (i..(i + Len(s) - 1)) \cup scan[i + Len(s)]
            ELSE scan[i + 1]
    IN  scan

Replaced(text, s, low, high, gone) == Scan(text, s, low, high, gone)[low + 1]

Rounds(text, low, high) ==
    LET gone[k \in 0..Len(secrets)] ==
            IF k = 0 THEN {}
            ELSE gone[k - 1] \cup Replaced(text, secrets[k], low, high, gone[k - 1])
    IN  gone

Redact(text, low, high) == Rounds(text, low, high)[Len(secrets)]

\* A variant that hides every beginning of a secret, however short.
BeginsShort(text, s, i) ==
    LET length == Len(text) - i + 1
    IN  length > 0 /\ length < Len(s) /\ SubSeq(text, i, Len(text)) = SubSeq(s, 1, length)

\* The text from position i to its end is the beginning of secret s, long
\* enough to count.
Begins(text, s, i) ==
    LET length == Len(text) - i + 1
    IN  length >= MinLen /\ length < Len(s) /\ SubSeq(text, i, Len(text)) = SubSeq(s, 1, length)

RedactTail(text, low) ==
    IF \E k \in DOMAIN secrets : Begins(text, secrets[k], low + 1)
    THEN (low + 1)..Len(text)
    ELSE Redact(text, low, Len(text))

-----------------------------------------------------------------------------
(* redact_stream: where the text is split into what goes and what is held   *)

\* A variant that holds back one character too few.
HoldShort == IF Longest = 0 THEN 0 ELSE Longest - 2

Hold == IF Longest = 0 THEN 0 ELSE Longest - 1

\* A variant that moves the split to a secret wherever it lies.
BackToAny(text, first, split, s) ==
    LET any == {i \in (from + 1)..first : Stands(text, s, i)}
    IN  IF any = {} THEN split ELSE Max(any) - 1

\* The split moves to the last of the matches that start before the first
\* split, if one of them reaches over the split.
BackTo(text, first, split, s) ==
    LET over == {i \in (from + 1)..first : Stands(text, s, i) /\ i - 1 + Len(s) > split}
    IN  IF over = {} THEN split ELSE Max(over) - 1

FirstSplit(text) == Max({from, Len(text) - Hold})

Splits(text) ==
    LET split[k \in 0..Len(secrets)] ==
            IF k = 0 THEN FirstSplit(text)
            ELSE BackTo(text, FirstSplit(text), split[k - 1], secrets[k])
    IN  split

SplitOpen(text) == Splits(text)[Len(secrets)]

\* At a finish the split is before the first beginning of a secret that runs to
\* the end outside of its whole occurrences.
SplitFinish(text) ==
    LET inside(s, i) == \E j \in (from + 1)..i : Stands(text, s, j) /\ i < j + Len(s)
        open(s) == {i \in (from + 1)..Len(text) : Begins(text, s, i) /\ ~inside(s, i)}
    IN  Min({Len(text)} \cup UNION {{i - 1 : i \in open(secrets[k])} : k \in DOMAIN secrets})

-----------------------------------------------------------------------------
(* The readers and the input path *)

\* A read returned a piece (reader, terminal_reader, drain_terminal).
Piece(data) ==
    LET text == raw \o data
        split == SplitOpen(text)
    IN  /\ ~ended /\ Len(text) <= MaxRaw
        /\ raw' = text /\ from' = split
        /\ stored' = stored \cup ((from + 1)..split \ Redact(text, from, split))
        /\ UNCHANGED <<secrets, cuts, ended>>

Finish(data) ==
    LET text == raw \o data
        split == SplitFinish(text)
    IN  /\ ~ended /\ Len(text) <= MaxRaw
        /\ raw' = text /\ from' = Len(text)
        /\ stored' = stored \cup
              ((from + 1)..Len(text) \ (Redact(text, from, split) \cup RedactTail(text, split)))
        /\ cuts' = cuts \cup {Len(text)}
        /\ UNCHANGED secrets

\* Before an input of a pty is written the tail is given up, so that what came
\* before the input is in the journal before what comes after it.
FlushForInput == Finish(<<>>) /\ UNCHANGED ended

\* End of file or an error; an unfinished character becomes a replacement.
ReaderReturns(data) == Finish(data) /\ ended' = TRUE

Pieces == UNION {[1..n -> Alphabet] : n \in 1..MaxPiece}

RedactNext ==
    \/ \E data \in Pieces : Piece(data)
    \/ FlushForInput
    \/ \E data \in {<<>>, <<Replacement>>} : ReaderReturns(data)

RedactSpec == RedactInit /\ [][RedactNext]_redactVars

-----------------------------------------------------------------------------
(* Properties *)

\* Nothing of t can stand on a letter of s, except s on s itself: the letters
\* of the two differ somewhere in every way to lay the beginning of t over s.
Apart(s, t) ==
    \A d \in 0..(Len(s) - 1) :
        (\A j \in 1..Len(t) : d + j <= Len(s) => s[d + j] = t[j]) => d = 0 /\ s = t

SecretsApart == \A k, m \in DOMAIN secrets : Apart(secrets[k], secrets[m])

\* A cut strictly inside the interval from i to j.
CutInside(i, j) == \E c \in cuts : i <= c /\ c < j

\* However the output is cut into pieces, nothing of a secret reaches the
\* journal unless an input or the end of the stream came in the middle of it
\* (redact_stream), provided that no secret overlaps with one of them.
SecretsHidden == SecretsApart =>
    \A k \in DOMAIN secrets, i \in 1..Len(raw) :
        LET last == i + Len(secrets[k]) - 1
        IN  Stands(raw, secrets[k], i) /\ ~CutInside(i, last) => (i..last) \cap stored = {}

\* The output from i to c is the beginning of secret s, long enough to count.
Opens(s, i, c) ==
    /\ MinLen <= c - i + 1 /\ c - i + 1 < Len(s)
    /\ SubSeq(raw, i, c) = SubSeq(s, 1, c - i + 1)

\* Nothing else is lost: a position that was given out and is not stored lies
\* in a secret, or in the beginning of one, of MinLen characters at least,
\* that a cut ended (redact, redact_tail).
OnlySecretsGo ==
    \A p \in (1..from) \ stored :
        \E k \in DOMAIN secrets, i \in 1..p :
            \/ Stands(raw, secrets[k], i) /\ p < i + Len(secrets[k])
            \/ \E c \in cuts : p <= c /\ Opens(secrets[k], i, c)

\* The held tail is bounded by the secrets and not by the output: each secret
\* may move the split back by less than its length, and of secrets that do
\* not overlap only one does (redact_stream).
TailIsBounded ==
    /\ Len(raw) - from <= (Len(secrets) + 1) * Hold
    /\ SecretsApart => Len(raw) - from <= 2 * Hold
=============================================================================
