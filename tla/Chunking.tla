------------------------------- MODULE Chunking ------------------------------
(***************************************************************************)
(* chunk_text (app/rag/chunking.py): a document is cut into chunks of at   *)
(* most ChunkSize characters, each starting ChunkSize - Overlap characters *)
(* after the one before.  One iteration of the loop is one action.         *)
(*                                                                         *)
(* Positions count from 1 in the text as it was passed.  A chunk is the    *)
(* interval [from, to) of the text it holds.                               *)
(***************************************************************************)
EXTENDS Integers, Sequences

CONSTANTS
    Texts,      \* what may be passed
    ChunkSize,
    Overlap

\* strip() removes both kinds of white space, rfind(" ") sees one of them.
Characters == {"letter", "space", "newline"}

\* chunk_text raises ValueError for a larger overlap.
ASSUME ChunkingAssumption ==
    /\ Texts \subseteq Seq(Characters)
    /\ ChunkSize \in Nat
    /\ Overlap \in Nat
    /\ Overlap < ChunkSize

VARIABLES
    pc,         \* "strip", "loop" or "done"
    text,       \* the argument
    start,      \* where the next chunk starts
    end,        \* where the stripped text ends
    chunks      \* the result

vars == <<pc, text, start, end, chunks>>

Init ==
    /\ pc = "strip"
    /\ text \in Texts
    /\ start = 0
    /\ end = 0
    /\ chunks = <<>>

Solid(i) == text[i] = "letter"
Blank(from, to) == \A i \in from .. to - 1 : ~Solid(i)

\* text[from:to].strip() of a slice that is not blank: the one interval from
\* its first solid character to its last.
Stripped(from, to) ==
    {c \in [from : from .. to - 1, to : from + 1 .. to] :
       /\ c.from < c.to
       /\ Solid(c.from) /\ Solid(c.to - 1)
       /\ Blank(from, c.from) /\ Blank(c.to, to)}

\* No text, one chunk, or the loop.
Begin ==
    /\ pc = "strip"
    /\ \/ /\ Blank(1, Len(text) + 1)
          /\ pc' = "done"
          /\ UNCHANGED <<start, end, chunks>>
       \/ \E c \in Stripped(1, Len(text) + 1) :
            IF c.to - c.from <= ChunkSize
              THEN /\ chunks' = <<c>>
                   /\ pc' = "done"
                   /\ UNCHANGED <<start, end>>
              ELSE /\ pc' = "loop"
                   /\ start' = c.from
                   /\ end' = c.to
                   /\ UNCHANGED chunks
    /\ UNCHANGED text

\* Mutant: an inclusive end.
OneMore == start + ChunkSize + 1

HardCut == start + ChunkSize

Spaces(from, to) == {i \in from .. to - 1 : text[i] = "space"}

\* Mutant: find() for rfind().
SnapsToFirst(to) == \A i \in Spaces(start + 1, HardCut) : to <= i

SnapsTo(to) == \A i \in Spaces(start + 1, HardCut) : i <= to

\* The chunk at start ends before to: at the end of the text, at the last
\* space in reach, or, with no space behind start, where it is full.
Cuts(to) ==
    IF HardCut >= end THEN to = end
    ELSE IF Spaces(start + 1, HardCut) = {} THEN to = HardCut
    ELSE to \in Spaces(start + 1, HardCut) /\ SnapsTo(to)

Advance(to) == start + (ChunkSize - Overlap)

\* if chunk: chunks.append(chunk)
Collect(from, to) ==
    \/ Blank(from, to) /\ UNCHANGED chunks
    \/ \E c \in Stripped(from, to) : chunks' = Append(chunks, c)

Step ==
    /\ pc = "loop"
    /\ \E to \in start + 1 .. end :
         /\ Cuts(to)
         /\ Collect(start, to)
         /\ IF to < end /\ Advance(to) < end
              THEN start' = Advance(to) /\ UNCHANGED pc
              ELSE pc' = "done" /\ UNCHANGED start
    /\ UNCHANGED <<text, end>>

Returned == pc = "done" /\ UNCHANGED vars

Next == Begin \/ Step \/ Returned

Spec == Init /\ [][Next]_vars

------------------------------------------------------------------------------
(* Properties *)

Interval == [from : Nat, to : Nat]

\* TYPE: every variable has its type; the loop stays inside the text.
TypeOK ==
    /\ pc \in {"strip", "loop", "done"}
    /\ text \in Texts
    /\ start \in 0 .. Len(text)
    /\ end \in 0 .. Len(text) + 1
    /\ pc = "loop" => 1 <= start /\ start < end
    /\ chunks \in Seq(Interval)

\* A chunk fits the embedding call: no longer than ChunkSize, and neither
\* empty nor white at its ends.
ChunksFit ==
    \A k \in 1 .. Len(chunks) :
        LET c == chunks[k] IN
        /\ c.from < c.to /\ c.to - c.from <= ChunkSize
        /\ Solid(c.from) /\ Solid(c.to - 1)

\* The loop moves on by what chunks do not share, so it ends.
FewChunks == (Len(chunks) - 1) * (ChunkSize - Overlap) <= Len(text)

Holds(k, a, b) == chunks[k].from <= a /\ b < chunks[k].to

\* A piece of a word: solid at both ends and no space between.
Piece(a, b) ==
    /\ a <= b
    /\ Solid(a) /\ Solid(b)
    /\ \A i \in a .. b : text[i] # "space"

\* Among any Overlap + 1 characters there is a space.
ShortWords ==
    \A a \in 1 .. Len(text) - Overlap :
        \E i \in a .. a + Overlap : text[i] = "space"

\* What the overlap is for: as long as no word is longer than the overlap,
\* every word is whole in some chunk, wherever the cuts fell.
WordsWhole ==
    pc = "done" /\ ShortWords =>
        \A a, b \in 1 .. Len(text) :
            Piece(a, b) => \E k \in 1 .. Len(chunks) : Holds(k, a, b)

\* No content is dropped between chunks, whatever the text.
NothingDropped ==
    pc = "done" =>
        \A a \in 1 .. Len(text) :
            Solid(a) => \E k \in 1 .. Len(chunks) : Holds(k, a, a)

\* Chunk boundaries do not split words when there are spaces to cut at: with
\* short words, no chunk starts inside one.
WordsNotSplit ==
    ShortWords =>
        \A k \in 1 .. Len(chunks) :
            chunks[k].from > 1 => ~Solid(chunks[k].from - 1)

==============================================================================
