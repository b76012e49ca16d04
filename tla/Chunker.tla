------------------------------ MODULE Chunker ------------------------------
(***************************************************************************)
(* services/document-service/src/document_service/ingest.py: how a text is *)
(* split into overlapping chunks.  A text is a sequence of characters: the *)
(* letters are positive numbers, a newline and a space are not.            *)
(***************************************************************************)
EXTENDS Integers, Sequences, SequencesExt

CONSTANTS
    ChunkSize,  \* chunk_size (512)
    Overlap     \* overlap (50)

\* With an overlap of a whole chunk the hard split would never advance.
ASSUME ChunkerConstants == Overlap \in Nat /\ ChunkSize \in Nat /\ Overlap < ChunkSize

\* The strings of characters.
Str == Seq(Int)

Space == 0
Newline == -1

\* str.strip, and a chunk unless nothing is left of it.
Strip(s) ==
    LET solid == {i \in DOMAIN s : s[i] > 0} IN
    IF solid = {} THEN <<>> ELSE SubSeq(s, Min(solid), Max(solid))

Solid(s) == IF Strip(s) = <<>> THEN <<>> ELSE <<Strip(s)>>

\* str.split, from left to right: where the separator starts at i and does not
\* overlap the one before it, a part ends.
CutAt(split, s, sep, i) ==
    IF /\ i >= split.from
       /\ i + Len(sep) - 1 <= Len(s)
       /\ SubSeq(s, i, i + Len(sep) - 1) = sep
    THEN [from |-> i + Len(sep), parts |-> Append(split.parts, SubSeq(s, split.from, i - 1))]
    ELSE split

SplitOn(s, sep) ==
    LET split[i \in 0..Len(s)] ==
            IF i = 0 THEN [from |-> 1, parts |-> <<>>] ELSE CutAt(split[i - 1], s, sep, i)
    IN Append(split[Len(s)].parts, SubSeq(s, split[Len(s)].from, Len(s)))

\* Slip: the part that does not fit is dropped instead of starting a piece.
AddPart_Drops(packed, sep, part) ==
    LET candidate == IF packed.current = <<>> THEN part ELSE packed.current \o sep \o part IN
    IF Len(candidate) <= ChunkSize THEN [packed EXCEPT !.current = candidate]
    ELSE [current |-> <<>>, full |-> Append(packed.full, packed.current)]

\* The next part joins the current piece if they fit together, else it starts
\* the next piece; only a piece of one part can exceed the chunk size.
AddPart(packed, sep, part) ==
    LET candidate == IF packed.current = <<>> THEN part ELSE packed.current \o sep \o part IN
    IF Len(candidate) <= ChunkSize THEN [packed EXCEPT !.current = candidate]
    ELSE [current |-> part, full |-> Append(packed.full, packed.current)]

Pieces(s, sep) ==
    LET parts == SplitOn(s, sep)
        packed[i \in 0..Len(parts)] ==
            IF i = 0 THEN [current |-> <<>>, full |-> <<>>]
            ELSE AddPart(packed[i - 1], sep, parts[i])
    IN Append(packed[Len(parts)].full, packed[Len(parts)].current)

LastChars(s, n) == SubSeq(s, Max({1, Len(s) - n + 1}), Len(s))

\* Slip: the whole chunk before it is taken for its tail.
WithOverlap_Whole(chunks) ==
    [i \in DOMAIN chunks |->
        IF i = 1 THEN chunks[i]
        ELSE Strip(chunks[i - 1] \o <<Space>> \o chunks[i])]

\* Each chunk is introduced by the last characters of the one before it.
WithOverlap(chunks) ==
    IF Overlap = 0 THEN chunks
    ELSE [i \in DOMAIN chunks |->
             IF i = 1 THEN chunks[i]
             ELSE Strip(LastChars(chunks[i - 1], Overlap) \o <<Space>> \o chunks[i])]

\* The hard split, for the empty separator: a slice starts Overlap characters
\* before the end of the one before it, unless that one reached the end.
HardSplit(s) ==
    LET starts == {a \in DOMAIN s : /\ (a - 1) % (ChunkSize - Overlap) = 0
                                    /\ a = 1 \/ a + Overlap <= Len(s)}
        sliceAt(a) == SubSeq(s, a, Min({a + ChunkSize - 1, Len(s)}))
    IN FlattenSeq([a \in DOMAIN s |-> IF a \in starts THEN Solid(sliceAt(a)) ELSE <<>>])

\* One level of the recursion: finer has the chunks of the pieces that are too
\* long, by the next separator.
SplitBy(s, sep, finer) ==
    IF Strip(s) = <<>> THEN <<>>
    ELSE LET pieces == Pieces(s, sep)
             chunksOf(p) == IF Len(p) <= ChunkSize THEN Solid(p) ELSE finer[p]
         IN WithOverlap(FlattenSeq([i \in DOMAIN pieces |-> chunksOf(pieces[i])]))

\* The separators, tried in turn before the empty one.
Separators == <<<<Newline, Newline>>, <<Newline>>, <<Space>>>>

SplitBySpaces(s) == SplitBy(s, Separators[3], [p \in Str |-> HardSplit(p)])
SplitByLines(s) == SplitBy(s, Separators[2], [p \in Str |-> SplitBySpaces(p)])
RecursiveSplit(s) == SplitBy(s, Separators[1], [p \in Str |-> SplitByLines(p)])

\* A text that fits is one chunk as it is, unless it is blank.
ChunkText(s) ==
    IF Len(s) > ChunkSize THEN RecursiveSplit(s)
    ELSE IF Strip(s) = <<>> THEN <<>> ELSE <<s>>

(***************************************************************************)
(* What the chunks of a text are for                                       *)
(***************************************************************************)
Letters(s) == {s[i] : i \in {j \in DOMAIN s : s[j] > 0}}

\* Reading s from the start one sees x when y has not been seen yet.
Leads(s, x, y) == \E i \in DOMAIN s : s[i] = x /\ \A j \in 1..i : s[j] # y

\* Who reads the chunks one after the other sees the letters of the text, each
\* for the first time in the order of the text: what an overlap or another
\* slice repeats has been seen.
Spells(chunks, s) ==
    LET read == FlattenSeq(chunks) IN
    /\ Letters(read) = Letters(s)
    /\ \A x, y \in Letters(s) : Leads(read, x, y) <=> Leads(s, x, y)
=============================================================================
