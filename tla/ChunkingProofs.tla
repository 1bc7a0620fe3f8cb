---------------------------- MODULE ChunkingProofs ---------------------------
(***************************************************************************)
(* What chunk_text guarantees for every text, chunk size and overlap.      *)
(***************************************************************************)
EXTENDS Chunking, TLAPS

\* A cut is behind start, in reach, and not behind the end of the text.
LEMMA CutInReach ==
    ASSUME TypeOK, pc = "loop", NEW to \in start + 1 .. end, Cuts(to)
    PROVE  to <= start + ChunkSize
  BY ChunkingAssumption DEF TypeOK, Cuts, HardCut, Spaces

\* What strip() leaves of a slice.
LEMMA StrippedFits ==
    ASSUME NEW from \in Nat, NEW to \in Nat, NEW c \in Stripped(from, to)
    PROVE  /\ c \in Interval
           /\ from <= c.from /\ c.from < c.to /\ c.to <= to
           /\ Solid(c.from) /\ Solid(c.to - 1)
           /\ \A i \in from .. to - 1 : Solid(i) => c.from <= i /\ i < c.to
  BY DEF Stripped, Interval, Blank

LEMMA TextIsFunction == ASSUME TypeOK PROVE text \in Seq(Characters)
  BY ChunkingAssumption DEF TypeOK

LEMMA InitTypeOK == Init => TypeOK
  BY ChunkingAssumption DEF Init, TypeOK, Interval

LEMMA TypeStep == TypeOK /\ [Next]_vars => TypeOK'
<1> SUFFICES ASSUME TypeOK, [Next]_vars PROVE TypeOK'
  OBVIOUS
<1>0. Len(text) \in Nat
  BY TextIsFunction
<1>1. CASE Begin
  <2>1. CASE Blank(1, Len(text) + 1) /\ pc' = "done" /\ UNCHANGED <<start, end, chunks>>
    BY <1>1, <2>1 DEF Begin, TypeOK
  <2>2. ASSUME NEW c \in Stripped(1, Len(text) + 1),
               IF c.to - c.from <= ChunkSize
                 THEN chunks' = <<c>> /\ pc' = "done" /\ UNCHANGED <<start, end>>
                 ELSE pc' = "loop" /\ start' = c.from /\ end' = c.to /\ UNCHANGED chunks
        PROVE  TypeOK'
    <3>1. c \in Interval /\ 1 <= c.from /\ c.from < c.to /\ c.to <= Len(text) + 1
      BY <1>0, StrippedFits
    <3>2. <<c>> \in Seq(Interval)
      BY <3>1
    <3>3. text' = text
      BY <1>1 DEF Begin
    <3>4. CASE c.to - c.from <= ChunkSize
      BY <2>2, <3>2, <3>3, <3>4 DEF TypeOK
    <3>5. CASE ~(c.to - c.from <= ChunkSize)
      BY <1>0, <2>2, <3>1, <3>3, <3>5 DEF TypeOK, Interval
    <3> QED BY <3>4, <3>5
  <2> QED BY <1>1, <2>1, <2>2 DEF Begin
<1>2. ASSUME NEW to \in start + 1 .. end, Step, Cuts(to), Collect(start, to),
             IF to < end /\ Advance(to) < end
               THEN start' = Advance(to) /\ UNCHANGED pc
               ELSE pc' = "done" /\ UNCHANGED start
      PROVE  TypeOK'
  <2>1. chunks' \in Seq(Interval)
    <3>1. start \in Nat /\ to \in Nat /\ chunks \in Seq(Interval)
      BY <1>0, <1>2 DEF TypeOK
    <3>2. ASSUME NEW c \in Stripped(start, to), chunks' = Append(chunks, c)
          PROVE  chunks' \in Seq(Interval)
      BY <3>1, <3>2, StrippedFits
    <3> QED BY <1>2, <3>1, <3>2 DEF Collect
  <2>2. start' \in 0 .. Len(text) /\ (pc' = "loop" => 1 <= start' /\ start' < end)
    BY <1>0, <1>2, ChunkingAssumption DEF TypeOK, Advance, Step
  <2> QED BY <1>0, <1>2, <2>1, <2>2 DEF TypeOK, Step
<1>3. CASE Returned \/ UNCHANGED vars
  BY <1>3 DEF Returned, vars, TypeOK
<1> QED BY <1>1, <1>2, <1>3 DEF Next, Step

\* TypeOK is an invariant of every chunking.
THEOREM ChunkingTypeCorrect == Spec => []TypeOK
<1>1. Init => TypeOK
  BY InitTypeOK
<1>2. TypeOK /\ [Next]_vars => TypeOK'
  BY TypeStep
<1> QED BY <1>1, <1>2, PTL DEF Spec

------------------------------------------------------------------------------
\* Nothing is collected before the loop, and nothing solid lies behind its end.
LoopText ==
    /\ pc = "strip" => chunks = <<>>
    /\ pc = "loop" => \A i \in 1 .. Len(text) : Solid(i) => i < end

\* Every chunk of the loop is paid for by one advance of start.
FewSoFar ==
    /\ pc = "loop" => Len(chunks) * (ChunkSize - Overlap) < start
    /\ FewChunks

\* What starts before start is whole in a chunk already.
Covered ==
    ShortWords =>
        \A a, b \in 1 .. Len(text) :
            Piece(a, b) /\ (pc = "done" \/ (pc = "loop" /\ a < start))
            => \E k \in 1 .. Len(chunks) : Holds(k, a, b)

ChunkInv == TypeOK /\ LoopText /\ ChunksFit /\ FewSoFar /\ Covered

LEMMA InitChunkInv == Init => ChunkInv
<1> SUFFICES ASSUME Init PROVE ChunkInv
  OBVIOUS
<1>1. TypeOK
  BY InitTypeOK
<1>2. Len(chunks) = 0 /\ Len(text) \in Nat
  BY <1>1, TextIsFunction DEF Init
<1>3. FewChunks
  BY <1>2, ChunkingAssumption DEF FewChunks
<1> QED BY <1>1, <1>2, <1>3 DEF Init, ChunkInv, LoopText, ChunksFit, FewSoFar, Covered

\* A piece of a short word that starts before the next chunk ends before the cut:
\* the space behind it is in reach of rfind.
LEMMA PieceInReach ==
    ASSUME TypeOK, LoopText, pc = "loop", ShortWords,
           NEW to \in start + 1 .. end, Cuts(to),
           NEW a \in 1 .. Len(text), NEW b \in 1 .. Len(text), Piece(a, b), start <= a,
           to < end /\ Advance(to) < end => a < Advance(to)
    PROVE  b < to
<1>0. Len(text) \in Nat /\ start \in Nat /\ end \in Nat /\ end <= Len(text) + 1 /\ to \in Nat
  BY TextIsFunction DEF TypeOK
<1>1. CASE HardCut >= end
  BY <1>0, <1>1 DEF Cuts, LoopText, Piece
<1>2. CASE ~(HardCut >= end)
  <2>1. start + ChunkSize < end
    BY <1>0, <1>2, ChunkingAssumption DEF HardCut
  <2>2. to <= start + ChunkSize
    BY CutInReach
  <2>3. a < start + (ChunkSize - Overlap)
    BY <1>0, <2>1, <2>2, ChunkingAssumption DEF Advance
  <2>4. a \in 1 .. Len(text) - Overlap
    BY <1>0, <2>1, <2>3, ChunkingAssumption
  <2>5. PICK i \in a .. a + Overlap : text[i] = "space"
    BY <2>4 DEF ShortWords
  <2>6. b < i
    BY <2>5, ChunkingAssumption DEF Piece
  <2>7. i \in Spaces(start + 1, HardCut)
    BY <1>0, <2>3, <2>5, <2>6, ChunkingAssumption DEF Spaces, HardCut, Piece
  <2>8. i <= to
    BY <1>2, <2>7 DEF Cuts, SnapsTo
  <2> QED BY <1>0, <2>5, <2>6, <2>8, ChunkingAssumption
<1> QED BY <1>1, <1>2

\* Collecting a slice keeps the chunks there are and adds what is solid in it.
LEMMA CollectKeeps ==
    ASSUME chunks \in Seq(Interval), NEW from \in Nat, NEW to \in Nat, Collect(from, to)
    PROVE  /\ Len(chunks') \in {Len(chunks), Len(chunks) + 1}
           /\ \A k \in 1 .. Len(chunks) : chunks'[k] = chunks[k]
           /\ \A a \in from .. to - 1 : Solid(a) => Len(chunks') = Len(chunks) + 1
           /\ Len(chunks') = Len(chunks) + 1 =>
                chunks'[Len(chunks) + 1] \in Stripped(from, to)
  BY DEF Collect, Blank

LEMMA BeginChunkInv == ChunkInv /\ Begin => ChunkInv'
<1> SUFFICES ASSUME ChunkInv, Begin PROVE ChunkInv'
  OBVIOUS
<1>0. TypeOK' /\ text' = text /\ Len(text) \in Nat /\ chunks = <<>> /\ pc = "strip"
  BY TypeStep, TextIsFunction DEF Begin, ChunkInv, LoopText, Next
<1>1. CASE Blank(1, Len(text) + 1) /\ pc' = "done" /\ UNCHANGED <<start, end, chunks>>
  <2>1. \A i \in 1 .. Len(text) : ~Solid(i)
    BY <1>0, <1>1 DEF Blank
  <2>2. FewSoFar' /\ LoopText' /\ ChunksFit'
    BY <1>0, <1>1 DEF ChunkInv, FewSoFar, FewChunks, LoopText, ChunksFit, Solid
  <2>3. Covered'
    BY <1>0, <2>1 DEF Covered, Piece, Solid
  <2> QED BY <1>0, <2>2, <2>3 DEF ChunkInv
<1>2. ASSUME NEW c \in Stripped(1, Len(text) + 1),
             IF c.to - c.from <= ChunkSize
               THEN chunks' = <<c>> /\ pc' = "done" /\ UNCHANGED <<start, end>>
               ELSE pc' = "loop" /\ start' = c.from /\ end' = c.to /\ UNCHANGED chunks
      PROVE  ChunkInv'
  <2>1. /\ c \in Interval
        /\ 1 <= c.from /\ c.from < c.to /\ c.to <= Len(text) + 1
        /\ Solid(c.from) /\ Solid(c.to - 1)
        /\ \A i \in 1 .. Len(text) : Solid(i) => c.from <= i /\ i < c.to
    BY <1>0, StrippedFits
  <2>2. CASE c.to - c.from <= ChunkSize
    <3>1. chunks' = <<c>> /\ Len(chunks') = 1 /\ chunks'[1] = c /\ pc' = "done"
      BY <1>2, <2>2
    <3>2. LoopText' /\ ChunksFit'
      BY <1>0, <2>1, <2>2, <3>1 DEF LoopText, ChunksFit, Solid
    <3>3. FewSoFar'
      BY <1>0, <3>1, ChunkingAssumption DEF FewSoFar, FewChunks
    <3>4. Covered'
      BY <1>0, <2>1, <3>1 DEF Covered, Piece, Holds, Solid
    <3> QED BY <1>0, <3>2, <3>3, <3>4 DEF ChunkInv
  <2>3. CASE ~(c.to - c.from <= ChunkSize)
    <3>1. pc' = "loop" /\ start' = c.from /\ end' = c.to /\ chunks' = <<>>
      BY <1>0, <1>2, <2>3
    <3>2. LoopText' /\ ChunksFit'
      BY <1>0, <2>1, <3>1 DEF LoopText, ChunksFit, Solid
    <3>3. FewSoFar'
      BY <1>0, <2>1, <3>1, ChunkingAssumption DEF FewSoFar, FewChunks, Interval
    <3>4. Covered'
      <4>1. \A x \in 1 .. Len(text') : Solid(x)' => ~(x < start')
        BY <1>0, <2>1, <3>1 DEF Solid, Interval
      <4> QED BY <3>1, <4>1 DEF Covered, Piece
    <3> QED BY <1>0, <3>2, <3>3, <3>4 DEF ChunkInv
  <2> QED BY <2>2, <2>3
<1> QED BY <1>1, <1>2 DEF Begin

LEMMA StepChunkInv == ChunkInv /\ Step => ChunkInv'
<1> SUFFICES ASSUME ChunkInv, pc = "loop", UNCHANGED <<text, end>>, TypeOK',
                    NEW to \in start + 1 .. end, Cuts(to), Collect(start, to),
                    IF to < end /\ Advance(to) < end
                      THEN start' = Advance(to) /\ UNCHANGED pc
                      ELSE pc' = "done" /\ UNCHANGED start
             PROVE  ChunkInv'
  BY TypeStep DEF Step, Next, ChunkInv
<1> DEFINE n == Len(chunks)
<1>0. /\ start \in Nat /\ to \in Nat /\ end \in Nat /\ n \in Nat /\ Len(text) \in Nat
      /\ chunks \in Seq(Interval) /\ TypeOK /\ start < to /\ to <= end
      /\ 1 <= start /\ start < end /\ end <= Len(text) + 1
  BY TextIsFunction DEF ChunkInv, TypeOK
<1>1. /\ Len(chunks') \in {n, n + 1}
      /\ \A k \in 1 .. n : chunks'[k] = chunks[k]
      /\ \A a \in start .. to - 1 : Solid(a) => Len(chunks') = n + 1
      /\ Len(chunks') = n + 1 => chunks'[n + 1] \in Stripped(start, to)
  BY <1>0, CollectKeeps
<1>2. Len(chunks') = n + 1 =>
        LET c == chunks'[n + 1] IN
        /\ c \in Interval
        /\ start <= c.from /\ c.from < c.to /\ c.to <= to
        /\ Solid(c.from) /\ Solid(c.to - 1)
        /\ \A i \in start .. to - 1 : Solid(i) => c.from <= i /\ i < c.to
  BY <1>0, <1>1, StrippedFits
<1> HIDE DEF n
<1>3. LoopText'
  BY DEF ChunkInv, LoopText, Solid
<1>4. ChunksFit'
  <2>1. to <= start + ChunkSize
    BY <1>0, CutInReach
  <2>2. ASSUME NEW k \in 1 .. n PROVE chunks'[k] = chunks[k] /\ k \in 1 .. Len(chunks)
    BY <1>1, <2>2 DEF n
  <2> SUFFICES ASSUME NEW k \in 1 .. Len(chunks')
               PROVE  LET c == chunks'[k] IN
                      /\ c.from < c.to /\ c.to - c.from <= ChunkSize
                      /\ Solid(c.from) /\ Solid(c.to - 1)
    BY DEF ChunksFit, Solid
  <2>3. CASE k \in 1 .. n
    BY <2>2, <2>3 DEF ChunkInv, ChunksFit
  <2>4. CASE k = n + 1 /\ Len(chunks') = n + 1
    BY <1>0, <1>2, <2>1, <2>4, ChunkingAssumption DEF Interval
  <2> QED BY <1>0, <1>1, <2>3, <2>4
<1>5. FewSoFar'
  <2> DEFINE S == ChunkSize - Overlap
  <2>1. S \in Nat /\ S > 0
    BY ChunkingAssumption
  <2>2. n * S < start /\ n * S \in Nat
    BY <1>0, <2>1 DEF ChunkInv, FewSoFar, n
  <2>3. (n + 1) * S = n * S + S /\ (n - 1) * S = n * S - S
    BY <1>0, <2>1
  <2>4. Len(chunks') = n \/ Len(chunks') = n + 1
    BY <1>1
  <2>5. ((n + 1) - 1) * S = n * S
    BY <1>0, <2>1
  <2>6. (Len(chunks') - 1) * S <= Len(text)
    BY SMTT(30), <1>0, <2>1, <2>2, <2>3, <2>4, <2>5
  <2>7. pc' = "loop" => Len(chunks') * S < start'
    <3>1. Len(chunks') * S <= n * S + S
      BY <1>0, <2>1, <2>3, <2>4
    <3>2. Len(chunks') * S \in Nat
      BY <1>0, <2>1, <2>4
    <3>3. pc' = "loop" => start' = start + S
      BY DEF Advance
    <3> QED BY <1>0, <2>1, <2>2, <3>1, <3>2, <3>3
  <2> QED BY <2>6, <2>7 DEF FewSoFar, FewChunks
<1>6. Covered'
  <2> SUFFICES ASSUME ShortWords, NEW a \in 1 .. Len(text), NEW b \in 1 .. Len(text), Piece(a, b),
                      pc' = "done" \/ (pc' = "loop" /\ a < start')
               PROVE  \E k \in 1 .. Len(chunks') : chunks'[k].from <= a /\ b < chunks'[k].to
    BY DEF Covered, ShortWords, Piece, Solid, Holds
  <2>1. CASE a < start
    <3>1. PICK k \in 1 .. n : Holds(k, a, b)
      BY <2>1 DEF ChunkInv, Covered, n
    <3>2. k \in 1 .. Len(chunks') /\ chunks'[k] = chunks[k]
      BY <1>0, <1>1, <3>1
    <3> QED BY <3>1, <3>2 DEF Holds
  <2>2. CASE start <= a
    <3>1. b < to
      BY <1>0, <2>2, PieceInReach DEF ChunkInv
    <3>2. a \in start .. to - 1 /\ b \in start .. to - 1 /\ Solid(a) /\ Solid(b)
      BY <1>0, <2>2, <3>1 DEF Piece
    <3>3. Len(chunks') = n + 1 /\ n + 1 \in 1 .. Len(chunks')
      BY <1>0, <1>1, <3>2
    <3> QED BY <1>2, <3>2, <3>3
  <2> QED BY <1>0, <2>1, <2>2
<1> QED BY <1>3, <1>4, <1>5, <1>6 DEF ChunkInv

LEMMA ChunkInvStep == ChunkInv /\ [Next]_vars => ChunkInv'
<1> SUFFICES ASSUME ChunkInv, Returned \/ UNCHANGED vars PROVE ChunkInv'
  BY BeginChunkInv, StepChunkInv DEF Next
<1>1. UNCHANGED <<pc, text, start, end, chunks>>
  BY DEF Returned, vars
<1> QED BY <1>1 DEF ChunkInv, TypeOK, LoopText, ChunksFit, FewSoFar, FewChunks, Covered,
       ShortWords, Piece, Holds, Solid

LEMMA ChunkInvAlways == Spec => []ChunkInv
<1>1. Init => ChunkInv
  BY InitChunkInv
<1>2. ChunkInv /\ [Next]_vars => ChunkInv'
  BY ChunkInvStep
<1> QED BY <1>1, <1>2, PTL DEF Spec

\* Chunks fit the chunk size, and the loop makes few of them.
THEOREM ChunksCorrect == Spec => [](ChunksFit /\ FewChunks)
<1>1. ChunkInv => ChunksFit /\ FewChunks
  BY DEF ChunkInv, FewSoFar
<1> QED BY <1>1, ChunkInvAlways, PTL

\* With words no longer than the overlap, every word is whole in some chunk.
THEOREM WordsWholeCorrect == Spec => []WordsWhole
<1>1. ChunkInv => WordsWhole
  BY DEF ChunkInv, Covered, WordsWhole
<1> QED BY <1>1, ChunkInvAlways, PTL

==============================================================================
