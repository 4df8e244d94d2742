--------------------------- MODULE ChunkerProofs ---------------------------
(***************************************************************************)
(* Theorems about Chunker and TextIndex, for every text, every set of      *)
(* token counts, every target and batch: ChunkInv is an invariant, and     *)
(* with it no sentence is lost, parts of a section are never nested, a     *)
(* chunk stays under one heading path, and its size is bounded; PathInv,   *)
(* and with it heading paths are complete; EmbedInv, and with it every     *)
(* chunk is stored with its own vector, or all retries were used.          *)
(*                                                                         *)
(* The loops of _split_sections leave chunks alone and find them empty;    *)
(* a step of chunk_text leaves the sections alone.  The lemmas follow      *)
(* this: one for splitting, one for each step of chunking, and two for     *)
(* the ways a chunk comes about.                                           *)
(***************************************************************************)
EXTENDS TextIndex, FiniteSetTheorems, SequenceTheorems, TLAPS

USE DEF splitVars, chunkVars

-----------------------------------------------------------------------------
(* The inductive invariants.                                                *)

\* Where the loops are: nothing is chunked before all is split, ...
AtStart == sec = 1 /\ first = 1 /\ index = 1 /\ tokens = 0 /\ chunks = <<>>
InSection ==
  /\ sec >= 1 /\ 1 <= first /\ first <= index
  /\ first = index => first = 1 /\ tokens = 0
  /\ sec <= Len(sections) => index <= Len(Sentences) + 1
LoopsOK ==
  /\ phase \in {"splitting", "popping"} => AtStart
  /\ InSection
  /\ phase = "popping" => headings # <<>>
  /\ phase = "seeding" => /\ sec <= Len(sections) /\ index <= Len(Sentences)
                          /\ first < seed /\ seed <= index /\ seedTokens <= OverlapTarget
  /\ phase = "done" => sec > Len(sections)
  /\ \A s \in 1..Len(sections) : Len(sections[s].sentences) >= 1

\* ... the current run is no longer than what a chunk may be, ...
CurrentBounded ==
  phase = "chunking" /\ first < index /\ sec <= Len(sections) =>
    \/ tokens <= TargetMax
    \/ \E i \in first..index - 1 : tokens <= OverlapTarget + Sentences[i]

\* ... what lies behind it is in chunks, ...
BehindIsInChunks ==
  \A s \in 1..Len(sections) : \A i \in 1..Len(sections[s].sentences) :
    s < sec \/ (s = sec /\ (i < first \/ (phase = "seeding" /\ i < index))) => InChunk(s, i)

\* ... and all that chunks have lies behind it.
PartOK(p) ==
  /\ p.sec \in 1..Len(sections) /\ p.sec <= sec
  /\ 1 <= p.from /\ p.from <= p.to /\ p.to <= Len(sections[p.sec].sentences)
  /\ p.sec = sec => IF phase = "seeding" THEN p.from <= first /\ p.to <= index - 1
                                         ELSE p.from < first /\ p.to < index - 1

ChunkInv ==
  /\ TypeOK /\ LoopsOK /\ CurrentBounded /\ BehindIsInChunks
  /\ PartsAdvance /\ PartsAgree /\ SizeBounded
  /\ \A c \in 1..Len(chunks) : \A p \in chunks[c].parts : PartOK(p)

-----------------------------------------------------------------------------

(* What the two ways to store the current run need to know of it. *)
Storable ==
  /\ sec \in 1..Len(sections) /\ 1 <= first /\ first < index
  /\ index - 1 <= Len(Sentences)
  /\ tokens <= TargetMax \/ \E i \in first..index - 1 : tokens <= OverlapTarget + Sentences[i]
  /\ \A c \in 1..Len(chunks) : \A p \in chunks[c].parts :
       p.sec = sec => p.from < first /\ p.to < index - 1

(* What they make of the chunks. *)
Stored ==
  /\ chunks' \in Seq(Chunk)
  /\ \A s, i \in Nat : InChunk(s, i) => InChunk(s, i)'
  /\ \A s \in Nat : s = sec => \A i \in first..index - 1 : InChunk(s, i)'
  /\ PartsAdvance' /\ PartsAgree' /\ SizeBounded'
  /\ \A c \in 1..Len(chunks') : \A p \in chunks'[c].parts :
       p = Current \/ \E d \in 1..Len(chunks) : p \in chunks[d].parts

(* The two: a new chunk, or one more part of the last one. *)
LEMMA EmitStores ==
  ASSUME ChunkInv, Storable, Emit, UNCHANGED splitVars
  PROVE  Stored
<1>1. PICK n \in Counts(tokens, index - first - 1) :
        chunks' = Append(chunks, [path |-> sections[sec].path, parts |-> {Current}, count |-> n,
                                  seams |-> index - first - 1])
  BY DEF Emit
<1> PICK k : k = index - first - 1
  OBVIOUS
<1> PICK new : new = [path |-> sections[sec].path, parts |-> {Current}, count |-> n, seams |-> k]
  OBVIOUS
<1>2. /\ chunks \in Seq(Chunk) /\ sections \in Seq(Section) /\ sec \in Nat /\ first \in Nat
      /\ index \in Nat /\ tokens \in Nat /\ k \in Nat
      /\ Seam \in Nat /\ TargetMax \in Nat /\ OverlapTarget \in Nat
  BY ChunkerAssumption DEF ChunkInv, TypeOK, Storable
<1>3. sections[sec] \in Section /\ sections' = sections
  BY <1>2 DEF Storable
<1>4. Seam * k \in Nat /\ n \in Int /\ n <= tokens + Seam * k
  BY <1>1, <1>2 DEF Counts
<1>5. Current \in Part /\ Current.sec = sec /\ Current.from = first /\ Current.to = index - 1
  BY <1>2 DEF Current, Part, Storable
<1>6. new \in Chunk
  BY <1>2, <1>3, <1>4, <1>5 DEF Chunk, Section
<1>7. /\ chunks' \in Seq(Chunk) /\ Len(chunks') = Len(chunks) + 1
      /\ chunks'[Len(chunks) + 1] = new
      /\ \A c \in 1..Len(chunks) : chunks'[c] = chunks[c]
  BY <1>1, <1>2, <1>6
<1>8. /\ new.parts = {Current} /\ new.path = sections[sec].path /\ new.count = n /\ new.seams = k
  OBVIOUS
<1> Len(chunks) \in Nat
  BY <1>2
<1>9. \A c \in 1..Len(chunks') :
        \/ c \in 1..Len(chunks) /\ chunks'[c] = chunks[c]
        \/ c = Len(chunks) + 1 /\ chunks'[c] = new
  BY <1>7
<1>10. /\ \A s, i \in Nat : InChunk(s, i) => InChunk(s, i)'
       /\ \A s \in Nat : s = sec => \A i \in first..index - 1 : InChunk(s, i)'
  <2>1. Len(chunks) + 1 \in 1..Len(chunks') /\ Current \in chunks'[Len(chunks) + 1].parts
    BY <1>7, <1>8
  <2>2. \A c \in 1..Len(chunks) : c \in 1..Len(chunks') /\ chunks'[c] = chunks[c]
    BY <1>7
  <2>3. \A s, i \in Nat : InChunk(s, i) => InChunk(s, i)'
    BY <2>2 DEF InChunk
  <2>4. ASSUME NEW s \in Nat, s = sec, NEW i \in first..index - 1 PROVE InChunk(s, i)'
    BY <2>1, <2>4, <1>5 DEF InChunk
  <2> QED BY <2>3, <2>4
<1>11. \A c \in 1..Len(chunks') : \A p \in chunks'[c].parts :
         p = Current \/ \E d \in 1..Len(chunks) : p \in chunks[d].parts
  BY <1>8, <1>9
<1>12. PartsAdvance'
  <2>2. \A p \in Parts' : p = Current \/ p \in Parts
    BY <1>11 DEF Parts
  <2>3. \A p \in Parts : p.sec = sec => p.from < first /\ p.to < index - 1
    BY DEF Storable, Parts
  <2> QED BY <2>2, <2>3, <1>5 DEF PartsAdvance, ChunkInv
<1>13. PartsAgree'
  <2>1. ASSUME NEW c \in 1..Len(chunks'), NEW p \in chunks'[c].parts
        PROVE  sections[p.sec].path = chunks'[c].path
    BY <1>5, <1>8, <1>9 DEF PartsAgree, ChunkInv
  <2> QED BY <2>1, <1>3 DEF PartsAgree
<1>14. SizeBounded'
  <2>2. PICK blanks \in Nat : blanks = Seam * k
    BY <1>4
  <2>1. n - blanks <= tokens
    BY <1>2, <1>4, <2>2
  <2>3. ASSUME tokens <= TargetMax PROVE SizeOK(new)
    <3>1. n - blanks <= TargetMax
      BY <2>1, <2>3, <1>2, <1>4
    <3>2. SizeOK(new)
      BY <3>1, <2>2, <1>8 DEF SizeOK
    <3> QED BY <3>2
  <2>4. ASSUME \E i \in first..index - 1 : tokens <= OverlapTarget + Sentences[i]
        PROVE  SizeOK(new)
    <3>1. PICK i \in first..index - 1 : tokens <= OverlapTarget + Sentences[i]
      BY <2>4
    <3>2. Sentences[i] \in Nat
      <4>1. sections[sec].sentences \in Seq(Tokens)
        BY <1>3 DEF Section
      <4>2. i \in 1..Len(sections[sec].sentences)
        BY <3>1, <1>2, <4>1 DEF Storable, Sentences
      <4>3. sections[sec].sentences[i] \in Tokens
        BY <4>1, <4>2
      <4> QED BY <4>3, ChunkerAssumption DEF Sentences
    <3>3. n - blanks <= OverlapTarget + Sentences[i]
      BY <2>1, <3>1, <3>2, <1>2, <1>4
    <3>4. SizeOK(new)
      BY <3>1, <3>3, <2>2, <1>5, <1>8 DEF SizeOK, Sentences
    <3> QED BY <3>4
  <2>5. SizeOK(new)
    BY <2>3, <2>4 DEF Storable
  <2>6. \A c \in 1..Len(chunks') : SizeOK(chunks'[c])
    BY <2>5, <1>9 DEF ChunkInv, SizeBounded
  <2> QED BY <2>6, <1>3 DEF SizeBounded, SizeOK
<1> QED BY <1>7, <1>10, <1>11, <1>12, <1>13, <1>14 DEF Stored

LEMMA MergedSize ==
  ASSUME NEW x \in Nat, NEW a \in Nat, NEW b \in Nat, NEW count \in Int, NEW n \in Int,
         NEW t \in Nat, NEW max \in Nat,
         n <= count + t + x * b, count + t <= max
  PROVE  n - x * (a + b) <= max
<1>1. x * (a + b) = x * a + x * b
  OBVIOUS
<1>2. x * a \in Nat /\ x * b \in Nat
  OBVIOUS
<1> PICK y \in Nat, z \in Nat : y = x * a /\ z = x * b
  BY <1>2
<1>3. n - (y + z) <= max
  BY <1>2
<1> QED BY <1>1, <1>3

LEMMA MergeStores ==
  ASSUME ChunkInv, Storable, TinyTail, MergeTail, UNCHANGED splitVars
  PROVE  Stored
<1>1. PICK n \in Counts(LastChunk.count + tokens, index - first) :
        chunks' = [chunks EXCEPT ![Len(chunks)] =
          [path |-> LastChunk.path, parts |-> LastChunk.parts \cup {Current}, count |-> n,
           seams |-> LastChunk.seams + (index - first)]]
  BY DEF MergeTail
<1>2. /\ chunks \in Seq(Chunk) /\ sections \in Seq(Section) /\ sec \in Nat /\ first \in Nat
      /\ index \in Nat /\ tokens \in Nat /\ index - first \in Nat
      /\ Seam \in Nat /\ TargetMax \in Nat /\ OverlapTarget \in Nat
  BY ChunkerAssumption DEF ChunkInv, TypeOK, Storable
<1> PICK last \in Nat : last = Len(chunks)
  BY <1>2
<1>3. last \in 1..Len(chunks)
  BY <1>2 DEF TinyTail
<1> PICK old \in Chunk : old = chunks[last]
  BY <1>2, <1>3
<1> PICK seams \in Nat : seams = old.seams + (index - first)
  BY <1>2 DEF Chunk
<1> PICK new : new = [path |-> old.path, parts |-> old.parts \cup {Current}, count |-> n,
                      seams |-> seams]
  OBVIOUS
<1>4. /\ old.count \in Int /\ old.seams \in Nat /\ old.parts \in SUBSET Part
      /\ old.path = sections[sec].path /\ old.count + tokens <= TargetMax
  BY DEF Chunk, TinyTail, LastChunk
<1>5. Current \in Part /\ Current.sec = sec /\ Current.from = first /\ Current.to = index - 1
  BY <1>2 DEF Current, Part, Storable
<1>6. n \in Int /\ n <= old.count + tokens + Seam * (index - first)
  <2>1. Seam * (index - first) \in Nat
    BY <1>2
  <2> QED BY <2>1, <1>1, <1>2, <1>4 DEF Counts, LastChunk
<1>7. /\ new.parts = old.parts \cup {Current} /\ new.path = old.path /\ new.count = n
      /\ new.seams = seams /\ new \in Chunk
  BY <1>4, <1>5, <1>6 DEF Chunk
<1>8. chunks' = [chunks EXCEPT ![last] = new]
  BY <1>1 DEF LastChunk
<1>9. /\ chunks' \in Seq(Chunk) /\ Len(chunks') = Len(chunks) /\ chunks'[last] = new
      /\ \A c \in 1..Len(chunks) : c # last => chunks'[c] = chunks[c]
  <2> HIDE DEF Chunk
  <2>1. chunks \in Seq(Chunk) /\ last \in 1..Len(chunks) /\ new \in Chunk
    BY <1>2, <1>3, <1>7
  <2>2. /\ [chunks EXCEPT ![last] = new] \in Seq(Chunk)
        /\ Len([chunks EXCEPT ![last] = new]) = Len(chunks)
        /\ \A j \in 1..Len(chunks) :
             [chunks EXCEPT ![last] = new][j] = IF j = last THEN new ELSE chunks[j]
    BY <2>1, ExceptSeq
  <2> QED BY <2>1, <2>2, <1>8
<1>10. sections' = sections
  OBVIOUS
<1>11. /\ \A s, i \in Nat : InChunk(s, i) => InChunk(s, i)'
       /\ \A s \in Nat : s = sec => \A i \in first..index - 1 : InChunk(s, i)'
  <2>1. \A c \in 1..Len(chunks) : c \in 1..Len(chunks') /\ chunks[c].parts \subseteq chunks'[c].parts
    BY <1>3, <1>7, <1>9
  <2>2. \A s, i \in Nat : InChunk(s, i) => InChunk(s, i)'
    BY <2>1 DEF InChunk
  <2>3. last \in 1..Len(chunks') /\ Current \in chunks'[last].parts
    BY <1>3, <1>7, <1>9
  <2>4. ASSUME NEW s \in Nat, s = sec, NEW i \in first..index - 1 PROVE InChunk(s, i)'
    BY <2>3, <2>4, <1>5 DEF InChunk
  <2> QED BY <2>2, <2>4
<1>12. \A c \in 1..Len(chunks') : \A p \in chunks'[c].parts :
         p = Current \/ \E d \in 1..Len(chunks) : p \in chunks[d].parts
  <2>1. \A p \in chunks'[last].parts : p = Current \/ p \in chunks[last].parts
    BY <1>7, <1>9
  <2>2. \A c \in 1..Len(chunks') : c \in 1..Len(chunks) /\ (c = last \/ chunks'[c] = chunks[c])
    BY <1>9
  <2> QED BY <1>3, <2>1, <2>2
<1>13. PartsAdvance'
  <2>1. \A p \in Parts' : p = Current \/ p \in Parts
    BY <1>12 DEF Parts
  <2>2. \A p \in Parts : p.sec = sec => p.from < first /\ p.to < index - 1
    BY DEF Storable, Parts
  <2> QED BY <2>1, <2>2, <1>5 DEF PartsAdvance, ChunkInv
<1>14. PartsAgree'
  <2>1. ASSUME NEW c \in 1..Len(chunks'), NEW p \in chunks'[c].parts
        PROVE  sections[p.sec].path = chunks'[c].path
    <3>1. CASE c = last
      <4>1. \A q \in old.parts : sections[q.sec].path = old.path
        BY <1>3 DEF PartsAgree, ChunkInv
      <4> QED BY <3>1, <4>1, <1>4, <1>5, <1>7, <1>9
    <3>2. CASE c # last
      BY <3>2, <1>9 DEF PartsAgree, ChunkInv
    <3> QED BY <3>1, <3>2
  <2> QED BY <2>1, <1>10 DEF PartsAgree
<1>15. SizeBounded'
  <2>1. seams = old.seams + (index - first)
    OBVIOUS
  <2>2. n - Seam * seams <= TargetMax
    BY <2>1, <1>2, <1>4, <1>6, MergedSize
  <2>3. PICK blanks \in Int : blanks = Seam * seams
    BY <1>2
  <2>4. SizeOK(new)
    BY <2>2, <2>3, <1>7 DEF SizeOK
  <2>5. \A c \in 1..Len(chunks') : SizeOK(chunks'[c])
    BY <2>4, <1>9 DEF ChunkInv, SizeBounded
  <2> QED BY <2>5, <1>10 DEF SizeBounded, SizeOK
<1> QED BY <1>9, <1>11, <1>12, <1>13, <1>14, <1>15 DEF Stored

-----------------------------------------------------------------------------
(* A heading path is a sequence of titles, and flush keeps sections well formed. *)
LEMMA FlushOK ==
  ASSUME TypeOK, Flush, \A s \in 1..Len(sections) : Len(sections[s].sentences) >= 1
  PROVE  /\ buffer' \in Seq(Tokens) /\ sections' \in Seq(Section)
         /\ \A s \in 1..Len(sections') : Len(sections'[s].sentences) >= 1
<1>1. Titles(stack) \in Seq(Title)
  <2>1. \A i \in 1..Len(stack) : stack[i] \in Heading
    BY DEF TypeOK
  <2>2. \A h \in Heading : h.title \in Title
    BY DEF Heading
  <2> QED BY <2>1, <2>2 DEF Titles, TypeOK
<1>2. buffer' \in Seq(Tokens)
  BY DEF Flush
<1>3. CASE buffer = <<>>
  BY <1>2, <1>3 DEF Flush, TypeOK
<1>4. CASE buffer # <<>>
  <2>1. PICK new : new = [path |-> Titles(stack), sentences |-> buffer, under |-> Len(headings)]
    OBVIOUS
  <2>2. new \in Section /\ Len(new.sentences) >= 1
    BY <2>1, <1>1, <1>4 DEF TypeOK, Section
  <2>3. sections \in Seq(Section) /\ sections' = Append(sections, new)
    BY <2>1, <1>4 DEF Flush, TypeOK
  <2> QED BY <2>2, <2>3, <1>2
<1> QED BY <1>3, <1>4

(* Whatever splits the text has no chunks to spoil. *)
LEMMA StartIsOK ==
  ASSUME TypeOK', AtStart', phase' \in {"splitting", "popping", "chunking"},
         phase' = "popping" => headings' # <<>>,
         \A s \in 1..Len(sections') : Len(sections'[s].sentences) >= 1
  PROVE  ChunkInv'
<1>1. chunks' = <<>> /\ Len(chunks') = 0
  BY DEF AtStart
<1>2. LoopsOK'
  BY DEF LoopsOK, InSection, AtStart, Sentences, TypeOK
<1>3. CurrentBounded' /\ BehindIsInChunks'
  BY DEF CurrentBounded, BehindIsInChunks, AtStart, TypeOK
<1>4. PartsAdvance' /\ PartsAgree' /\ SizeBounded'
  BY <1>1 DEF PartsAdvance, Parts, PartsAgree, SizeBounded
<1> QED BY <1>1, <1>2, <1>3, <1>4 DEF ChunkInv

LEMMA SplitStep ==
  ASSUME ChunkInv, \/ \E h \in Heading : ReadHeading(h)
                   \/ \E n \in Tokens : ReadSentence(n)
                   \/ Pop \/ Push \/ EndOfText
  PROVE  ChunkInv'
<1>1. /\ TypeOK /\ UNCHANGED chunkVars /\ AtStart
      /\ \A s \in 1..Len(sections) : Len(sections[s].sentences) >= 1
  BY DEF ChunkInv, LoopsOK, ReadHeading, ReadSentence, Pop, Push, EndOfText
<1>2. AtStart'
  BY <1>1 DEF AtStart
<1>3. ASSUME NEW h \in Heading, ReadHeading(h) PROVE ChunkInv'
  <2>1. headings' \in Seq(Heading) /\ headings' # <<>>
    <3>1. headings \in Seq(Heading) /\ headings' = Append(headings, h)
      BY <1>1, <1>3 DEF ReadHeading, TypeOK
    <3>2. headings' \in Seq(Heading) /\ Len(headings') = Len(headings) + 1 /\ Len(headings) \in Nat
      BY <3>1, AppendProperties
    <3> QED BY <3>2
  <2>2. TypeOK'
    BY <1>1, <1>3, <2>1, FlushOK DEF ReadHeading, TypeOK
  <2> QED BY <1>1, <1>2, <1>3, <2>1, <2>2, FlushOK, StartIsOK DEF ReadHeading
<1>4. ASSUME NEW n \in Tokens, ReadSentence(n) PROVE ChunkInv'
  <2>1. TypeOK'
    BY <1>1, <1>4 DEF ReadSentence, TypeOK
  <2> QED BY <1>1, <1>2, <1>4, <2>1, StartIsOK DEF ReadSentence
<1>5. CASE Pop
  <2>1. stack' \in Seq(Heading)
    BY <1>1, <1>5 DEF Pop, TypeOK
  <2>2. TypeOK' /\ headings' # <<>>
    BY <1>1, <1>5, <2>1 DEF Pop, TypeOK, ChunkInv, LoopsOK
  <2> QED BY <1>1, <1>2, <1>5, <2>2, StartIsOK DEF Pop
<1>6. CASE Push
  <2>1. Match \in Heading
    BY <1>1, <1>6 DEF Push, TypeOK, ChunkInv, LoopsOK, Match
  <2>2. TypeOK'
    BY <1>1, <1>6, <2>1 DEF Push, TypeOK
  <2> QED BY <1>1, <1>2, <1>6, <2>2, StartIsOK DEF Push
<1>7. CASE EndOfText
  <2>1. TypeOK'
    BY <1>1, <1>7, FlushOK DEF EndOfText, TypeOK
  <2> QED BY <1>1, <1>2, <1>7, <2>1, FlushOK, StartIsOK DEF EndOfText
<1> QED BY <1>3, <1>4, <1>5, <1>6, <1>7

-----------------------------------------------------------------------------
(* The steps of chunk_text. *)

LEMMA SentenceIsNat ==
  ASSUME TypeOK, NEW s \in 1..Len(sections), NEW i \in 1..Len(sections[s].sentences)
  PROVE  sections[s].sentences[i] \in Nat
<1>1. sections[s] \in Section
  BY DEF TypeOK
<1>2. sections[s].sentences \in Seq(Tokens)
  BY <1>1 DEF Section
<1>3. sections[s].sentences[i] \in Tokens
  BY <1>2
<1> QED BY <1>3, ChunkerAssumption

LEMMA PartsTyped ==
  ASSUME TypeOK, NEW c \in 1..Len(chunks)
  PROVE  chunks[c].parts \subseteq Part
<1>1. chunks[c] \in Chunk
  BY DEF TypeOK
<1> QED BY <1>1 DEF Chunk

LEMMA TakeOK ==
  ASSUME ChunkInv, Take PROVE ChunkInv'
<1>1. /\ UNCHANGED <<phase, splitVars, sec, first, seed, seedTokens, chunks>>
      /\ phase = "chunking" /\ sec \in 1..Len(sections) /\ index \in 1..Len(Sentences)
      /\ index' = index + 1 /\ tokens' = tokens + Sentences[index]
      /\ first \in Nat /\ 1 <= first /\ first <= index /\ index \in Nat /\ tokens \in Nat
      /\ Sentences' = Sentences
  BY DEF Take, AtSentence, ChunkInv, TypeOK, LoopsOK, InSection, Sentences
<1>2. Sentences[index] \in Nat
  BY <1>1, SentenceIsNat DEF ChunkInv, Sentences
<1>3. TypeOK'
  <2>1. index' \in Nat /\ tokens' \in Nat
    BY <1>1, <1>2
  <2> QED BY <1>1, <2>1 DEF ChunkInv, TypeOK
<1>4. LoopsOK'
  BY <1>1 DEF ChunkInv, LoopsOK, InSection, AtStart
<1>5. CurrentBounded'
  <2>1. CASE first < index
    <3>1. tokens + Sentences[index] <= TargetMax
      BY <1>1, <1>2, <2>1, ChunkerAssumption DEF Take, Full
    <3> QED BY <3>1, <1>1 DEF CurrentBounded
  <2>2. CASE first = index
    <3>1. tokens' <= OverlapTarget + Sentences[index]
      BY <1>1, <1>2, <2>2, ChunkerAssumption DEF ChunkInv, LoopsOK, InSection
    <3>2. index \in first'..index' - 1
      BY <1>1
    <3> QED BY <3>1, <3>2, <1>1 DEF CurrentBounded
  <2> QED BY <1>1, <2>1, <2>2
<1>6. BehindIsInChunks'
  BY <1>1 DEF ChunkInv, BehindIsInChunks, InChunk
<1>7. PartsAdvance' /\ PartsAgree' /\ SizeBounded'
  <2>1. PartsAdvance'
    BY <1>1 DEF ChunkInv, PartsAdvance, Parts
  <2>2. PartsAgree' /\ SizeBounded'
    BY <1>1 DEF ChunkInv, PartsAgree, SizeBounded, SizeOK
  <2> QED BY <2>1, <2>2
<1>8. \A c \in 1..Len(chunks') : \A p \in chunks'[c].parts : PartOK(p)'
  <2>1. \A c \in 1..Len(chunks) : chunks[c].parts \subseteq Part
    BY PartsTyped DEF ChunkInv
  <2>2. ASSUME NEW p \in Part, PartOK(p) PROVE PartOK(p)'
    BY <2>2, <1>1 DEF PartOK, Part
  <2> QED BY <2>1, <2>2, <1>1 DEF ChunkInv
<1> QED BY <1>3, <1>4, <1>5, <1>6, <1>7, <1>8 DEF ChunkInv

LEMMA EmitFullOK ==
  ASSUME ChunkInv, EmitFull PROVE ChunkInv'
<1>1. /\ UNCHANGED <<splitVars, sec, first, index, tokens>> /\ Emit
      /\ phase = "chunking" /\ sec \in 1..Len(sections) /\ index \in 1..Len(Sentences)
      /\ phase' = "seeding" /\ seed' = index /\ seedTokens' = 0
      /\ first \in Nat /\ 1 <= first /\ first < index /\ index \in Nat /\ tokens \in Nat
      /\ Sentences' = Sentences /\ sec \in Nat
  BY DEF EmitFull, AtSentence, Full, ChunkInv, TypeOK, LoopsOK, InSection, Sentences
<1>2. Storable
  BY <1>1 DEF Storable, ChunkInv, CurrentBounded, PartOK
<1>3. Stored
  BY <1>1, <1>2, EmitStores
<1>4. TypeOK'
  BY <1>1, <1>3 DEF ChunkInv, TypeOK, Stored
<1>5. LoopsOK'
  BY <1>1, ChunkerAssumption DEF ChunkInv, LoopsOK, InSection, AtStart
<1>6. CurrentBounded'
  BY <1>1 DEF CurrentBounded
<1>7. BehindIsInChunks'
  <2>1. ASSUME NEW s \in 1..Len(sections), NEW i \in 1..Len(sections[s].sentences),
               s < sec \/ (s = sec /\ i < index)
        PROVE  InChunk(s, i)'
    <3>1. CASE s < sec \/ i < first
      BY <3>1, <2>1, <1>1, <1>3 DEF ChunkInv, BehindIsInChunks, Stored
    <3>2. CASE s = sec /\ first <= i
      BY <3>2, <2>1, <1>1, <1>3 DEF Stored
    <3> QED BY <3>1, <3>2, <2>1, <1>1
  <2> QED BY <2>1, <1>1 DEF BehindIsInChunks
<1>8. \A c \in 1..Len(chunks') : \A p \in chunks'[c].parts : PartOK(p)'
  <2>1. \A c \in 1..Len(chunks) : chunks[c].parts \subseteq Part
    BY PartsTyped DEF ChunkInv
  <2>2. ASSUME NEW p \in Part, PartOK(p) PROVE PartOK(p)'
    BY <2>2, <1>1 DEF PartOK, Part
  <2>3. ASSUME NEW p, p = Current PROVE PartOK(p)'
    BY <2>3, <1>1 DEF PartOK, Current, Sentences
  <2> QED BY <2>1, <2>2, <2>3, <1>3 DEF ChunkInv, Stored
<1> QED BY <1>3, <1>4, <1>5, <1>6, <1>7, <1>8 DEF ChunkInv, Stored

LEMMA SeedOverlapOK ==
  ASSUME ChunkInv, SeedOverlap PROVE ChunkInv'
<1>1. /\ UNCHANGED <<phase, splitVars, sec, first, index, tokens, chunks>>
      /\ phase = "seeding" /\ sec \in 1..Len(sections) /\ index \in 1..Len(Sentences)
      /\ seed' = seed - 1 /\ seedTokens' = seedTokens + Sentences[seed - 1]
      /\ seedTokens' <= OverlapTarget /\ first < seed - 1 /\ seed <= index
      /\ first \in Nat /\ 1 <= first /\ index \in Nat /\ seed \in Nat /\ seedTokens \in Nat
      /\ Sentences' = Sentences /\ sec \in Nat
  BY DEF SeedOverlap, Fits, ChunkInv, TypeOK, LoopsOK, InSection, Sentences
<1>2. Sentences[seed - 1] \in Nat
  <2>1. seed - 1 \in 1..Len(Sentences)
    BY <1>1
  <2> QED BY <1>1, <2>1, SentenceIsNat DEF ChunkInv, Sentences
<1>3. TypeOK'
  <2>1. seed' \in Nat /\ seedTokens' \in Nat
    BY <1>1, <1>2
  <2> QED BY <1>1, <2>1 DEF ChunkInv, TypeOK
<1>4. LoopsOK'
  BY <1>1 DEF ChunkInv, LoopsOK, InSection, AtStart
<1>5. CurrentBounded' /\ BehindIsInChunks'
  BY <1>1 DEF ChunkInv, CurrentBounded, BehindIsInChunks, InChunk
<1>6. PartsAdvance' /\ PartsAgree' /\ SizeBounded'
  BY <1>1, SMTT(20), ZenonT(20) DEF ChunkInv, PartsAdvance, Parts, PartsAgree, SizeBounded, SizeOK
<1>7. \A c \in 1..Len(chunks') : \A p \in chunks'[c].parts : PartOK(p)'
  BY <1>1 DEF ChunkInv, PartOK
<1> QED BY <1>3, <1>4, <1>5, <1>6, <1>7 DEF ChunkInv

(* The next run begins with the overlap and the sentence that did not fit, and is no
   longer than the two together.                                            *)
LEMMA SeededOK ==
  ASSUME ChunkInv, Seeded PROVE ChunkInv'
<1>1. /\ UNCHANGED <<splitVars, sec, seed, seedTokens, chunks>>
      /\ phase = "seeding" /\ phase' = "chunking"
      /\ sec \in 1..Len(sections) /\ index \in 1..Len(Sentences)
      /\ first' = seed /\ index' = index + 1 /\ tokens' = seedTokens + Sentences[index]
      /\ first < seed /\ seed <= index /\ seedTokens <= OverlapTarget
      /\ first \in Nat /\ 1 <= first /\ index \in Nat /\ seed \in Nat /\ seedTokens \in Nat
      /\ Sentences' = Sentences /\ sec \in Nat
  BY DEF Seeded, ChunkInv, TypeOK, LoopsOK, InSection, Sentences
<1>2. Sentences[index] \in Nat
  BY <1>1, SentenceIsNat DEF ChunkInv, Sentences
<1>3. TypeOK'
  <2>1. first' \in Nat /\ index' \in Nat /\ tokens' \in Nat
    BY <1>1, <1>2
  <2> QED BY <1>1, <2>1 DEF ChunkInv, TypeOK
<1>4. LoopsOK'
  BY <1>1 DEF ChunkInv, LoopsOK, InSection, AtStart
<1>5. CurrentBounded'
  <2>1. tokens' <= OverlapTarget + Sentences[index] /\ index \in first'..index' - 1
    BY <1>1, <1>2, ChunkerAssumption
  <2> QED BY <2>1, <1>1 DEF CurrentBounded
<1>6. BehindIsInChunks'
  <2>1. ASSUME NEW s \in 1..Len(sections), NEW i \in 1..Len(sections[s].sentences),
               s < sec \/ (s = sec /\ i < seed)
        PROVE  InChunk(s, i)
    BY <2>1, <1>1 DEF ChunkInv, BehindIsInChunks
  <2>2. \A s, i : InChunk(s, i) => InChunk(s, i)'
    BY <1>1 DEF InChunk
  <2> QED BY <2>1, <2>2, <1>1 DEF BehindIsInChunks
<1>7. PartsAdvance' /\ PartsAgree' /\ SizeBounded'
  <2>1. PartsAdvance'
    BY <1>1 DEF ChunkInv, PartsAdvance, Parts
  <2>2. PartsAgree' /\ SizeBounded'
    BY <1>1 DEF ChunkInv, PartsAgree, SizeBounded, SizeOK
  <2> QED BY <2>1, <2>2
<1>8. \A c \in 1..Len(chunks') : \A p \in chunks'[c].parts : PartOK(p)'
  <2>1. \A c \in 1..Len(chunks) : chunks[c].parts \subseteq Part
    BY PartsTyped DEF ChunkInv
  <2>2. ASSUME NEW p \in Part, PartOK(p) PROVE PartOK(p)'
    BY <2>2, <1>1 DEF PartOK, Part
  <2> QED BY <2>1, <2>2, <1>1 DEF ChunkInv
<1> QED BY <1>3, <1>4, <1>5, <1>6, <1>7, <1>8 DEF ChunkInv

LEMMA EndSectionOK ==
  ASSUME ChunkInv, EndSection PROVE ChunkInv'
<1>1. /\ UNCHANGED <<phase, splitVars, seed, seedTokens>> /\ EndTail
      /\ phase = "chunking" /\ sec \in 1..Len(sections) /\ index = Len(Sentences) + 1
      /\ sec' = sec + 1 /\ first' = 1 /\ index' = 1 /\ tokens' = 0
      /\ first \in Nat /\ 1 <= first /\ first <= index /\ index \in Nat /\ tokens \in Nat
      /\ sec \in Nat
  <2>1. Len(Sentences) \in Nat
    <3>1. sec \in 1..Len(sections) /\ sections \in Seq(Section)
      BY DEF EndSection, AtEndOfSection, ChunkInv, TypeOK, LoopsOK, InSection
    <3>2. sections[sec] \in Section
      BY <3>1
    <3> QED BY <3>2 DEF Section, Sentences
  <2> QED BY <2>1 DEF EndSection, AtEndOfSection, ChunkInv, TypeOK, LoopsOK, InSection
<1>2. first < index
  <2>1. Len(Sentences) >= 1
    BY <1>1 DEF ChunkInv, LoopsOK, Sentences
  <2> QED BY <2>1, <1>1 DEF ChunkInv, LoopsOK, InSection
<1>3. Storable
  <2>1. \A c \in 1..Len(chunks) : \A p \in chunks[c].parts :
          p.sec = sec => p.from < first /\ p.to < index - 1
    BY <1>1 DEF ChunkInv, PartOK
  <2>2. index - 1 <= Len(Sentences)
    BY <1>1
  <2>3. tokens <= TargetMax \/ \E i \in first..index - 1 : tokens <= OverlapTarget + Sentences[i]
    BY <1>1, <1>2 DEF ChunkInv, CurrentBounded
  <2> QED BY <1>1, <1>2, <2>1, <2>2, <2>3 DEF Storable
<1>4. Stored
  BY <1>1, <1>3, EmitStores, MergeStores DEF EndTail
<1>5. TypeOK'
  BY <1>1, <1>4 DEF ChunkInv, TypeOK, Stored
<1>6. LoopsOK'
  BY <1>1 DEF ChunkInv, LoopsOK, InSection, AtStart, Sentences
<1>7. CurrentBounded'
  BY <1>1 DEF CurrentBounded
<1>8. BehindIsInChunks'
  <2>1. ASSUME NEW s \in 1..Len(sections), NEW i \in 1..Len(sections[s].sentences),
               s < sec \/ s = sec
        PROVE  InChunk(s, i)'
    <3>1. CASE s < sec \/ i < first
      BY <3>1, <2>1, <1>1, <1>4 DEF ChunkInv, BehindIsInChunks, Stored
    <3>2. CASE s = sec /\ first <= i
      BY <3>2, <2>1, <1>1, <1>4 DEF Stored, Sentences
    <3> QED BY <3>1, <3>2, <2>1, <1>1
  <2> QED BY <2>1, <1>1 DEF BehindIsInChunks
<1>9. \A c \in 1..Len(chunks') : \A p \in chunks'[c].parts : PartOK(p)'
  <2>1. \A c \in 1..Len(chunks) : chunks[c].parts \subseteq Part
    BY PartsTyped DEF ChunkInv
  <2>2. ASSUME NEW p \in Part, PartOK(p) PROVE PartOK(p)'
    BY <2>2, <1>1 DEF PartOK, Part
  <2>3. ASSUME NEW p, p = Current PROVE PartOK(p)'
    BY <2>3, <1>1, <1>2 DEF PartOK, Current, Sentences
  <2> QED BY <2>1, <2>2, <2>3, <1>4 DEF ChunkInv, Stored
<1> QED BY <1>4, <1>5, <1>6, <1>7, <1>8, <1>9 DEF ChunkInv, Stored

LEMMA FinishOK ==
  ASSUME ChunkInv, Finish PROVE ChunkInv'
<1>1. /\ UNCHANGED <<splitVars, chunkVars>> /\ phase = "chunking" /\ phase' = "done"
      /\ sec > Len(sections)
  BY DEF Finish
<1>2. TypeOK' /\ LoopsOK' /\ CurrentBounded'
  BY <1>1 DEF ChunkInv, TypeOK, LoopsOK, InSection, AtStart, Sentences, CurrentBounded
<1>3. BehindIsInChunks' /\ PartsAdvance' /\ PartsAgree' /\ SizeBounded'
  BY <1>1 DEF ChunkInv, BehindIsInChunks, InChunk, PartsAdvance, Parts, PartsAgree, SizeBounded, SizeOK
<1>4. \A c \in 1..Len(chunks') : \A p \in chunks'[c].parts : PartOK(p)'
  BY <1>1 DEF ChunkInv, PartOK
<1> QED BY <1>2, <1>3, <1>4 DEF ChunkInv

LEMMA ChunkStutter ==
  ASSUME ChunkInv, UNCHANGED vars PROVE ChunkInv'
<1>1. UNCHANGED <<phase, splitVars, chunkVars>>
  BY DEF vars
<1>2. TypeOK' /\ LoopsOK' /\ CurrentBounded'
  BY <1>1 DEF ChunkInv, TypeOK, LoopsOK, InSection, AtStart, Sentences, CurrentBounded
<1>3. BehindIsInChunks' /\ PartsAdvance' /\ PartsAgree' /\ SizeBounded'
  BY <1>1 DEF ChunkInv, BehindIsInChunks, InChunk, PartsAdvance, Parts, PartsAgree, SizeBounded, SizeOK
<1>4. \A c \in 1..Len(chunks') : \A p \in chunks'[c].parts : PartOK(p)'
  BY <1>1 DEF ChunkInv, PartOK
<1> QED BY <1>2, <1>3, <1>4 DEF ChunkInv

-----------------------------------------------------------------------------
(* The invariant: the loops are where their variables say, and chunks and  *)
(* the current run fit together.                                           *)
THEOREM ChunkInvariant == Spec => []ChunkInv
<1>1. Init => ChunkInv
  <2> SUFFICES ASSUME Init PROVE ChunkInv
    OBVIOUS
  <2>1. TypeOK
    BY DEF Init, TypeOK
  <2>2. LoopsOK /\ CurrentBounded /\ BehindIsInChunks
    BY DEF Init, LoopsOK, InSection, AtStart, CurrentBounded, BehindIsInChunks
  <2>3. PartsAdvance /\ PartsAgree /\ SizeBounded /\ Len(chunks) = 0
    BY DEF Init, PartsAdvance, Parts, PartsAgree, SizeBounded
  <2> QED BY <2>1, <2>2, <2>3 DEF ChunkInv
<1>2. ChunkInv /\ [Next]_vars => ChunkInv'
  <2> SUFFICES ASSUME ChunkInv, [Next]_vars PROVE ChunkInv'
    OBVIOUS
  <2> QED BY SplitStep, TakeOK, EmitFullOK, SeedOverlapOK, SeededOK, EndSectionOK, FinishOK,
             ChunkStutter DEF Next
<1> QED BY <1>1, <1>2, PTL DEF Spec

(* No sentence of the text is lost between chunks, overlaps, merges and    *)
(* sections.                                                               *)
THEOREM TextKept == Spec => []NothingLost
<1>1. ChunkInv => NothingLost
  <2> SUFFICES ASSUME ChunkInv, phase = "done",
                      NEW s \in 1..Len(sections), NEW i \in 1..Len(sections[s].sentences)
               PROVE  InChunk(s, i)
    BY DEF NothingLost
  <2>1. s < sec
    BY DEF ChunkInv, TypeOK, LoopsOK
  <2> QED BY <2>1 DEF ChunkInv, BehindIsInChunks
<1> QED BY <1>1, ChunkInvariant, PTL

(* No two parts of a section are nested.                                   *)
THEOREM ChunksAdvance == Spec => []PartsAdvance
<1>1. ChunkInv => PartsAdvance
  BY DEF ChunkInv
<1> QED BY <1>1, ChunkInvariant, PTL

(* A chunk only has sentences under its own heading path.                  *)
THEOREM ChunksAgree == Spec => []PartsAgree
<1>1. ChunkInv => PartsAgree
  BY DEF ChunkInv
<1> QED BY <1>1, ChunkInvariant, PTL

(* Only a sentence that is too long for the overlap it follows makes a     *)
(* chunk longer than the target.                                           *)
THEOREM ChunksBounded == Spec => []SizeBounded
<1>1. ChunkInv => SizeBounded
  BY DEF ChunkInv
<1> QED BY <1>1, ChunkInvariant, PTL
-----------------------------------------------------------------------------
(* _split_sections: the stack holds the headings that are open.             *)

\* The headings below the one that is being placed, if one is.
Before == IF phase = "popping" THEN Len(headings) - 1 ELSE Len(headings)

Increasing(at) == \A i, j \in DOMAIN at : i < j => at[i] < at[j]

\* at[i] is the heading that the i-th entry of the stack is: those that enclose what
\* follows, in order, but for those that are popped.
OnStack(at) ==
  /\ at \in [1..Len(stack) -> Enclosing(Before)] /\ Increasing(at)
  /\ \A i \in 1..Len(stack) : stack[i] = headings[at[i]]
  /\ \A x \in Enclosing(Before) :
       (\E i \in 1..Len(stack) : at[i] = x) \/ (phase = "popping" /\ Closes(headings[x]))

\* The same of the path of a section.
OnPath(s, at) ==
  /\ at \in [1..Len(sections[s].path) -> Enclosing(sections[s].under)] /\ Increasing(at)
  /\ \A i \in 1..Len(sections[s].path) : sections[s].path[i] = headings[at[i]].title
  /\ \A x \in Enclosing(sections[s].under) : \E i \in 1..Len(sections[s].path) : at[i] = x

HasPath(s) ==
  /\ sections[s].under <= Len(headings)
  /\ \E at \in [1..Len(sections[s].path) -> Enclosing(sections[s].under)] : OnPath(s, at)

PathInv ==
  /\ phase \in {"splitting", "popping"} =>
       \E at \in [1..Len(stack) -> Enclosing(Before)] : OnStack(at)
  /\ \A s \in 1..Len(sections) : HasPath(s)

\* Whether a heading encloses what follows the first n does not depend on later ones.
LEMMA EnclosingStays ==
  ASSUME headings \in Seq(Heading),
         headings' = headings \/ \E h \in Heading : headings' = Append(headings, h),
         NEW n \in Nat, n <= Len(headings)
  PROVE  /\ Enclosing(n)' = Enclosing(n) /\ Enclosing(n) \subseteq 1..n
         /\ \A i \in 1..n : headings'[i] = headings[i]
         /\ n <= Len(headings')
<1>1. (\A i \in 1..n : headings'[i] = headings[i]) /\ n <= Len(headings')
  OBVIOUS
<1> QED
  BY <1>1 DEF Enclosing

\* A section that is there keeps its path.
LEMMA PathStays ==
  ASSUME PathInv, TypeOK, NEW s \in 1..Len(sections), sections'[s] = sections[s],
         headings' = headings \/ \E h \in Heading : headings' = Append(headings, h)
  PROVE  HasPath(s)'
<1>1. sections[s] \in Section /\ headings \in Seq(Heading) /\ HasPath(s)
  BY DEF TypeOK, PathInv
<1>2. PICK n \in Nat : n = sections[s].under
  BY <1>1 DEF Section
<1>3. n <= Len(headings)
  BY <1>1, <1>2 DEF HasPath
<1>4. /\ Enclosing(n)' = Enclosing(n) /\ Enclosing(n) \subseteq 1..n
      /\ \A i \in 1..n : headings'[i] = headings[i]
      /\ n <= Len(headings')
  BY <1>1, <1>3, EnclosingStays
<1>5. PICK at \in [1..Len(sections[s].path) -> Enclosing(n)] : OnPath(s, at)
  BY <1>1, <1>2 DEF HasPath
<1>6. \A i \in 1..Len(sections[s].path) : at[i] \in 1..n
  BY <1>4, <1>5
<1>7. Enclosing(sections[s].under) = Enclosing(n) /\ Enclosing(sections[s].under)' = Enclosing(n)
  BY <1>2, <1>4 DEF Enclosing
<1>8. OnPath(s, at)'
  BY <1>4, <1>5, <1>6, <1>7 DEF OnPath, Increasing
<1> QED
  BY <1>2, <1>4, <1>5, <1>7, <1>8 DEF HasPath

\* flush gives the stack to the section as its path.
LEMMA FlushPaths ==
  ASSUME PathInv, TypeOK, phase = "splitting", Flush,
         headings' = headings \/ \E h \in Heading : headings' = Append(headings, h)
  PROVE  \A s \in 1..Len(sections') : HasPath(s)'
<1>1. CASE buffer = <<>>
  <2>1. sections' = sections
    BY <1>1 DEF Flush
  <2> QED
    BY <2>1, PathStays
<1>2. CASE buffer # <<>>
  <2>1. PICK new : new = [path |-> Titles(stack), sentences |-> buffer, under |-> Len(headings)]
    OBVIOUS
  <2>2. PICK l \in Nat : l = Len(sections) + 1
    BY DEF TypeOK
  <2>3. sections' = Append(sections, new)
    BY <1>2, <2>1 DEF Flush
  <2>4. /\ Len(sections') = l /\ sections'[l] = new
        /\ \A s \in 1..Len(sections) : sections'[s] = sections[s]
    BY <2>2, <2>3 DEF TypeOK
  <2>5. /\ stack \in Seq(Heading) /\ Len(new.path) = Len(stack)
        /\ \A i \in 1..Len(stack) : new.path[i] = stack[i].title
    BY <2>1 DEF TypeOK, Titles
  <2>6. PICK m \in Nat : m = Len(headings) /\ new.under = m
    BY <2>1 DEF TypeOK
  <2>7. PICK at \in [1..Len(stack) -> Enclosing(m)] : OnStack(at)
    BY <2>6 DEF PathInv, Before
  <2>8. /\ Enclosing(m)' = Enclosing(m) /\ Enclosing(m) \subseteq 1..m
        /\ \A i \in 1..m : headings'[i] = headings[i]
        /\ m <= Len(headings')
    BY <2>6, EnclosingStays, SMTT(20), ZenonT(20) DEF TypeOK
  <2>9. /\ Increasing(at)
        /\ \A i \in 1..Len(stack) : stack[i] = headings[at[i]]
        /\ \A x \in Enclosing(m) : \E i \in 1..Len(stack) : at[i] = x
    BY <2>6, <2>7 DEF OnStack, Before
  <2>10. \A i \in 1..Len(stack) : new.path[i] = headings'[at[i]].title
    BY <2>5, <2>7, <2>8, <2>9, SMTT(20), ZenonT(20)
  <2>11. sections'[l].under = m /\ sections'[l].path = new.path
    BY <2>4, <2>6
  <2>12. Enclosing(sections[l].under)' = Enclosing(m)
    BY <2>8, <2>11 DEF Enclosing
  <2>13. OnPath(l, at)'
    BY <2>5, <2>7, <2>9, <2>10, <2>11, <2>12 DEF OnPath, Increasing
  <2>14. HasPath(l)'
    BY <2>5, <2>7, <2>8, <2>11, <2>12, <2>13 DEF HasPath
  <2>15. ASSUME NEW s \in 1..Len(sections') PROVE HasPath(s)'
    <3>1. s = l \/ (s \in 1..Len(sections) /\ sections'[s] = sections[s])
      BY <2>2, <2>4 DEF TypeOK
    <3> QED
      BY <2>14, <3>1, PathStays
  <2> QED
    BY <2>15
<1> QED
  BY <1>1, <1>2

LEMMA ReadHeadingPaths ==
  ASSUME PathInv, TypeOK, NEW h \in Heading, ReadHeading(h)
  PROVE  PathInv'
<1>1. headings' = Append(headings, h) /\ headings \in Seq(Heading)
      /\ phase = "splitting" /\ phase' = "popping" /\ UNCHANGED stack
  BY DEF ReadHeading, TypeOK
<1>2. \A s \in 1..Len(sections') : HasPath(s)'
  BY <1>1, FlushPaths DEF ReadHeading
<1>3. PICK n \in Nat : n = Len(headings)
  BY <1>1
<1>4. Before = n /\ Before' = n /\ Len(headings') = n + 1
  BY <1>1, <1>3 DEF Before
<1>5. /\ Enclosing(n)' = Enclosing(n) /\ Enclosing(n) \subseteq 1..n
      /\ \A i \in 1..n : headings'[i] = headings[i]
  BY <1>1, <1>3, EnclosingStays
<1>6. Enclosing(Before) = Enclosing(n) /\ Enclosing(Before)' = Enclosing(n)
  BY <1>4, <1>5 DEF Enclosing
<1>7. PICK at \in [1..Len(stack) -> Enclosing(n)] : OnStack(at)
  BY <1>1, <1>6 DEF PathInv
<1>8. \A i \in 1..Len(stack) : at[i] \in 1..n
  BY <1>5, <1>7
<1>9. OnStack(at)'
  BY <1>1, <1>5, <1>6, <1>7, <1>8, SMTT(20), ZenonT(20) DEF OnStack, Increasing
<1> QED
  BY <1>1, <1>2, <1>6, <1>7, <1>9 DEF PathInv

\* What the sections have is theirs as long as headings are not touched.
LEMMA SectionsStay ==
  ASSUME PathInv, TypeOK, UNCHANGED <<sections, headings>>
  PROVE  \A s \in 1..Len(sections') : HasPath(s)'
BY PathStays

\* Where the loop of _split_sections leaves the stack and the headings alone.
LEMMA StackStays ==
  ASSUME PathInv, UNCHANGED <<phase, stack, headings>>,
         \A s \in 1..Len(sections') : HasPath(s)'
  PROVE  PathInv'
<1>1. Enclosing(Before)' = Enclosing(Before)
  BY DEF Enclosing, Before
<1>2. \A at : OnStack(at) => OnStack(at)'
  BY <1>1 DEF OnStack, Increasing, Closes, Match
<1> QED
  BY <1>1, <1>2 DEF PathInv

LEMMA PopPaths ==
  ASSUME PathInv, TypeOK, headings # <<>>, Pop
  PROVE  PathInv'
<1>1. /\ phase = "popping" /\ UNCHANGED <<phase, headings, sections>>
      /\ stack \in Seq(Heading) /\ stack # <<>> /\ headings \in Seq(Heading)
  BY DEF Pop, TypeOK
<1>2. PICK k \in Nat : Len(stack) = k + 1
  BY <1>1
<1>3. Len(stack') = k /\ (\A i \in 1..k : stack'[i] = stack[i]) /\ Closes(stack[k + 1])
  BY <1>1, <1>2 DEF Pop
<1>4. PICK n \in Nat : Len(headings) = n + 1
  BY <1>1
<1>5. Enclosing(Before) = Enclosing(n) /\ Enclosing(Before)' = Enclosing(n)
  BY <1>1, <1>4 DEF Before, Enclosing
<1>6. PICK at \in [1..k + 1 -> Enclosing(n)] : OnStack(at)
  BY <1>1, <1>2, <1>5 DEF PathInv
<1> DEFINE rest == [i \in 1..k |-> at[i]]
<1>7. rest \in [1..k -> Enclosing(n)] /\ Increasing(rest)
      /\ \A i \in 1..k : stack'[i] = headings'[rest[i]]
  BY <1>1, <1>2, <1>3, <1>6 DEF OnStack, Increasing
<1>8. Closes(headings[at[k + 1]])
  BY <1>2, <1>3, <1>6 DEF OnStack
<1>9. ASSUME NEW x \in Enclosing(n)
      PROVE  (\E i \in 1..k : rest[i] = x) \/ Closes(headings[x])
  <2>1. (\E i \in 1..k + 1 : at[i] = x) \/ Closes(headings[x])
    BY <1>2, <1>5, <1>6 DEF OnStack
  <2> QED
    BY <1>8, <2>1
<1>10. \A x \in Enclosing(n) : Closes(headings[x]) => Closes(headings[x])'
  BY <1>1 DEF Closes, Match
<1> HIDE DEF rest
<1>11. \A a : a = rest => OnStack(a)'
  BY <1>1, <1>3, <1>5, <1>7, <1>9, <1>10 DEF OnStack, Increasing
<1> QED
  BY <1>1, <1>3, <1>5, <1>7, <1>11, SectionsStay DEF PathInv

\* A heading that is pushed encloses what follows, with those above that it does not close.
LEMMA PushPaths ==
  ASSUME PathInv, TypeOK, headings # <<>>, Push
  PROVE  PathInv'
<1>1. /\ phase = "popping" /\ phase' = "splitting" /\ UNCHANGED <<headings, sections>>
      /\ stack \in Seq(Heading) /\ headings \in Seq(Heading)
      /\ stack' = Append(stack, Match)
  BY DEF Push, TypeOK
<1>2. PICK k \in Nat : Len(stack) = k
  BY <1>1
<1>3. PICK n \in Nat : Len(headings) = n + 1
  BY <1>1
<1>4. Before = n /\ Before' = n + 1 /\ Match = headings[n + 1]
  BY <1>1, <1>3 DEF Before, Match
<1>5. Enclosing(Before) = Enclosing(n) /\ Enclosing(Before)' = Enclosing(n + 1)
  BY <1>1, <1>4 DEF Enclosing
<1>6. PICK at \in [1..k -> Enclosing(n)] : OnStack(at)
  BY <1>1, <1>2, <1>5 DEF PathInv
<1>7. \A i \in 1..n + 1 : headings[i].level \in Int
  <2>1. \A i \in 1..n + 1 : headings[i] \in Heading
    BY <1>1, <1>3
  <2> QED
    BY <2>1 DEF Heading
<1>8. \A i \in Enclosing(n) : i \in 1..n /\ \A j \in i + 1..n : headings[j].level > headings[i].level
  BY DEF Enclosing
<1>9. /\ Increasing(at) /\ \A i \in 1..k : stack[i] = headings[at[i]]
      /\ \A x \in Enclosing(n) : (\E i \in 1..k : at[i] = x) \/ Closes(headings[x])
  BY <1>2, <1>5, <1>6 DEF OnStack
<1>10. \A i \in 1..k : at[i] \in 1..n
  BY <1>6, <1>8
<1>11. ASSUME NEW i \in 1..k PROVE Match.level > headings[at[i]].level
  <2>1. ~Closes(headings[at[k]])
    BY <1>1, <1>2, <1>9 DEF Push
  <2>2. Match.level > headings[at[k]].level
    BY <1>4, <1>7, <1>10, <2>1 DEF Closes
  <2>3. i # k => at[i] < at[k]
    BY <1>6, <1>9 DEF Increasing
  <2>4. i # k => headings[at[k]].level > headings[at[i]].level
    BY <1>6, <1>8, <1>10, <2>3
  <2> QED
    BY <1>4, <1>7, <1>10, <2>2, <2>4
<1>12. Enclosing(n + 1) = {x \in Enclosing(n) : Match.level > headings[x].level} \cup {n + 1}
  <2>1. \A i \in 1..n + 1 : (\A j \in i + 1..n + 1 : headings[j].level > headings[i].level)
          <=> i = n + 1 \/ (i \in 1..n /\ (\A j \in i + 1..n : headings[j].level > headings[i].level)
                             /\ headings[n + 1].level > headings[i].level)
    OBVIOUS
  <2> QED
    BY <1>4, <2>1 DEF Enclosing
<1> DEFINE new == [i \in 1..k + 1 |-> IF i = k + 1 THEN n + 1 ELSE at[i]]
<1>13. new \in [1..k + 1 -> Enclosing(n + 1)]
  BY <1>6, <1>11, <1>12
<1>14. Increasing(new)
  BY <1>6, <1>9, <1>10 DEF Increasing
<1>15. Len(stack') = k + 1 /\ \A i \in 1..k + 1 : stack'[i] = headings'[new[i]]
  BY <1>1, <1>2, <1>4, <1>9
<1>16. ASSUME NEW x \in Enclosing(n + 1) PROVE \E i \in 1..k + 1 : new[i] = x
  <2>1. CASE x = n + 1
    BY <2>1
  <2>2. CASE x \in Enclosing(n) /\ Match.level > headings[x].level
    <3>1. ~Closes(headings[x])
      BY <1>4, <1>7, <1>8, <2>2 DEF Closes
    <3>2. PICK i \in 1..k : at[i] = x
      BY <1>9, <2>2, <3>1
    <3> QED
      BY <3>2
  <2> QED
    BY <1>12, <2>1, <2>2
<1> HIDE DEF new
<1>17. \A a : a = new => OnStack(a)'
  BY <1>5, <1>13, <1>14, <1>15, <1>16 DEF OnStack, Increasing
<1> QED
  BY <1>1, <1>5, <1>13, <1>15, <1>17, SectionsStay DEF PathInv

\* chunk_text leaves what was split alone, and the stack does not matter any more.
LEMMA ChunkingPaths ==
  ASSUME PathInv, TypeOK, UNCHANGED splitVars,
         phase' = phase \/ phase' \in {"chunking", "seeding", "done"}
  PROVE  PathInv'
<1>1. UNCHANGED <<stack, headings, sections>>
  BY DEF splitVars
<1>2. \A s \in 1..Len(sections') : HasPath(s)'
  BY <1>1, SectionsStay
<1> QED
  BY <1>1, <1>2, StackStays DEF PathInv

LEMMA PathStep == ASSUME PathInv, ChunkInv, [Next]_vars PROVE PathInv'
<1>1. TypeOK /\ (phase = "popping" => headings # <<>>)
  BY DEF ChunkInv, LoopsOK
<1>2. ASSUME NEW h \in Heading, ReadHeading(h) PROVE PathInv'
  BY <1>1, <1>2, ReadHeadingPaths
<1>3. ASSUME NEW n \in Tokens, ReadSentence(n) PROVE PathInv'
  <2>1. UNCHANGED <<phase, stack, headings, sections>>
    BY <1>3 DEF ReadSentence
  <2> QED
    BY <1>1, <2>1, SectionsStay, StackStays
<1>4. CASE Pop
  BY <1>1, <1>4, PopPaths DEF Pop
<1>5. CASE Push
  BY <1>1, <1>5, PushPaths DEF Push
<1>6. CASE EndOfText
  <2>1. phase = "splitting" /\ phase' = "chunking" /\ Flush /\ headings' = headings
    BY <1>6 DEF EndOfText
  <2>2. \A s \in 1..Len(sections') : HasPath(s)'
    BY <1>1, <2>1, FlushPaths
  <2> QED
    BY <2>1, <2>2 DEF PathInv
<1>7. CASE Take \/ EmitFull \/ SeedOverlap \/ Seeded \/ EndSection \/ Finish
  BY <1>1, <1>7, ChunkingPaths DEF Take, EmitFull, SeedOverlap, Seeded, EndSection, Finish
<1>8. CASE UNCHANGED vars
  BY <1>1, <1>8, ChunkingPaths DEF vars
<1> QED
  BY <1>2, <1>3, <1>4, <1>5, <1>6, <1>7, <1>8 DEF Next

(* The stack holds the headings that enclose what follows, and sections    *)
(* have their paths from it.                                               *)
THEOREM PathInvariant == Spec => []PathInv
<1>1. Init => PathInv
  <2> SUFFICES ASSUME Init PROVE PathInv
    OBVIOUS
  <2>1. Len(stack) = 0 /\ Len(sections) = 0 /\ Len(headings) = 0 /\ Before = 0
    BY DEF Init, Before
  <2>2. Enclosing(Before) = {}
    BY <2>1 DEF Enclosing
  <2>3. \A at \in [1..0 -> {}] : OnStack(at)
    BY <2>1, <2>2 DEF OnStack, Increasing
  <2>4. [i \in 1..0 |-> i] \in [1..0 -> {}]
    OBVIOUS
  <2> QED
    BY <2>1, <2>2, <2>3, <2>4 DEF PathInv
<1>2. PathInv /\ ChunkInv /\ [Next]_vars => PathInv'
  BY PathStep
<1> QED
  BY <1>1, <1>2, ChunkInvariant, PTL DEF Spec

UpTo(S, n) == {x \in S : x <= n}

\* An increasing list of k numbers, all of S: the k-th of S is the last, and the first i
\* are those up to the i-th.
LEMMA Enumerated ==
  ASSUME NEW S, S \subseteq Nat, NEW k \in Nat, NEW at \in [1..k -> S], Increasing(at),
         \A x \in S : \E i \in 1..k : at[i] = x
  PROVE  /\ Cardinality(S) = k
         /\ \A i \in 1..k : Cardinality(UpTo(S, at[i])) = i
<1>a. /\ \A i \in 1..k : at[i] \in Nat
      /\ \A i, j \in 1..k : i < j => at[i] < at[j]
  BY DEF Increasing
<1>1. ASSUME NEW T \in SUBSET S, NEW i \in 0..k,
             T = {at[j] : j \in 1..i}
      PROVE  Cardinality(T) = i
  <2> DEFINE f == [j \in 1..i |-> at[j]]
  <2>1. f \in [1..i -> T]
    BY <1>1
  <2>2. \A a, b \in 1..i : a # b => f[a] # f[b]
    BY <1>a
  <2>3. \A x \in T : \E j \in 1..i : f[j] = x
    BY <1>1
  <2> HIDE DEF f
  <2>4. f \in Bijection(1..i, T)
    BY <2>1, <2>2, <2>3 DEF Bijection, Injection, Surjection, IsInjective
  <2>5. IsFiniteSet(1..i) /\ Cardinality(1..i) = i
    BY FS_Interval
  <2> QED
    BY <2>4, <2>5, FS_Bijection DEF ExistsBijection
<1>2. S = {at[j] : j \in 1..k}
  OBVIOUS
<1>3. ASSUME NEW i \in 1..k PROVE {x \in S : x <= at[i]} = {at[j] : j \in 1..i}
  <2>1. \A j \in 1..k : at[j] \in Nat /\ (at[j] <= at[i] <=> j <= i)
    BY <1>a
  <2>2. \A x \in S : x <= at[i] => x \in {at[j] : j \in 1..i}
    <3> SUFFICES ASSUME NEW x \in S, x <= at[i] PROVE x \in {at[j] : j \in 1..i}
      OBVIOUS
    <3>1. PICK j \in 1..k : at[j] = x
      OBVIOUS
    <3> QED
      BY <2>1, <3>1
  <2>3. \A j \in 1..i : at[j] \in S /\ at[j] <= at[i]
    BY <2>1
  <2> QED
    BY <2>2, <2>3
<1>4. Cardinality(S) = k
  <2>1. k \in 0..k /\ S \in SUBSET S
    OBVIOUS
  <2> QED
    BY <1>1, <1>2, <2>1
<1>5. ASSUME NEW i \in 1..k PROVE Cardinality(UpTo(S, at[i])) = i
  BY <1>1, <1>3, SMTT(20), ZenonT(20) DEF UpTo
<1> QED
  BY <1>4, <1>5

(* A section's heading path is made of the headings that enclose it,       *)
(* outermost first, however levels are skipped or repeated.                *)
THEOREM PathsComplete == Spec => []PathsEnclose
<1>1. PathInv /\ ChunkInv => PathsEnclose
  <2> SUFFICES ASSUME PathInv, ChunkInv, NEW s \in 1..Len(sections)
               PROVE  LET open == Enclosing(sections[s].under)
                          path == sections[s].path
                      IN /\ Len(path) = Cardinality(open)
                         /\ \A i \in open :
                              path[Cardinality({j \in open : j <= i})] = headings[i].title
    BY DEF PathsEnclose
  <2>1. PICK open, path : open = Enclosing(sections[s].under) /\ path = sections[s].path
    OBVIOUS
  <2>2. open \subseteq Nat
    BY <2>1 DEF Enclosing
  <2>3. PICK k \in Nat : k = Len(path)
    <3>1. sections[s] \in Section
      BY DEF ChunkInv, TypeOK
    <3>2. path \in Seq(Title)
      BY <2>1, <3>1 DEF Section
    <3> QED
      BY <3>2
  <2>4. PICK at : at \in [1..k -> open] /\ OnPath(s, at)
    BY <2>1, <2>3 DEF PathInv, HasPath
  <2>5. /\ Increasing(at)
        /\ \A i \in 1..k : path[i] = headings[at[i]].title
        /\ \A x \in open : \E i \in 1..k : at[i] = x
    BY <2>1, <2>3, <2>4 DEF OnPath
  <2>6. /\ Cardinality(open) = k
        /\ \A i \in 1..k : Cardinality(UpTo(open, at[i])) = i
    BY <2>2, <2>4, <2>5, Enumerated
  <2>7. \A i \in open : path[Cardinality({j \in open : j <= i})] = headings[i].title
    BY <2>5, <2>6 DEF UpTo
  <2> QED
    BY <2>1, <2>3, <2>6, <2>7
<1> QED
  BY <1>1, PathInvariant, ChunkInvariant, PTL
-----------------------------------------------------------------------------
(* TextIndex: embed_texts and the rows.                                     *)

(* A chunk is stored under the headings that enclose each of its           *)
(* sentences, wherever tails are merged.                                   *)
THEOREM HeadingsKnown == Spec => []ChunksKnowTheirHeadings
<1>1. PathsEnclose /\ PartsAgree => ChunksKnowTheirHeadings
  BY DEF ChunksKnowTheirHeadings
<1> QED
  BY <1>1, PathsComplete, ChunksAgree, PTL

Embedding == {"embedding", "asleep", "exhausted"}

\* Every vector so far is its chunk's own, and there are some to come until all are
\* there, ...
VectorsInv ==
  /\ stage \in {"chunking", "embedded", "stored", "failed"} \cup Embedding
  /\ stage # "chunking" => phase = "done"
  /\ vectors \in Seq(Nat) /\ \A i \in 1..Len(vectors) : vectors[i] = i
  /\ stage = "chunking" => vectors = <<>>
  /\ stage \in Embedding => Len(vectors) < Len(chunks)
  /\ stage = "embedded" => Len(vectors) = Len(chunks)
  /\ VectorsMatchChunks

\* ... and a batch has been tried once more than it has slept, but for the call that is due.
RetryInv ==
  stage \in {"chunking"} \cup Embedding =>
    /\ attempt \in 0..MaxRetries /\ waits = [k \in 1..attempt |-> 2^(k - 1)]
    /\ calls = IF stage \in {"asleep", "exhausted"} THEN attempt + 1 ELSE attempt
    /\ stage = "asleep" => attempt < MaxRetries
    /\ stage = "exhausted" => attempt = MaxRetries

EmbedInv == VectorsInv /\ RetryInv

\* TextIndex works on chunk_text as it is: what Chunker's theorems say holds in it.
THEOREM TextIndexIsChunker == IndexSpec => Spec
<1>1. IndexInit => Init
  BY DEF IndexInit
<1>2. [IndexNext]_<<vars, embedVars>> => [Next]_vars
  BY DEF IndexNext
<1> QED
  BY <1>1, <1>2, PTL DEF IndexSpec, Spec

\* An increasing list of as many numbers as there are has each at its place.
LEMMA InOrder ==
  ASSUME NEW n \in Nat, NEW at \in [1..n -> 1..n], Increasing(at)
  PROVE  \A i \in 1..n : at[i] = i
<1>1. \A i, j \in 1..n : i # j => at[i] # at[j]
  <2>1. \A i, j \in 1..n : i < j => at[i] < at[j]
    BY DEF Increasing
  <2> QED
    BY <2>1
<1>2. at \in Injection(1..n, 1..n)
  BY <1>1 DEF Injection, IsInjective
<1>3. IsFiniteSet(1..n)
  BY FS_Interval
<1>4. at \in Surjection(1..n, 1..n)
  BY <1>2, <1>3, FS_Injection
<1>5. \A x \in 1..n : \E i \in 1..n : at[i] = x
  BY <1>4 DEF Surjection
<1>6. \A i \in 1..n : Cardinality(UpTo(1..n, at[i])) = i
  <2>1. PICK S : S = 1..n
    OBVIOUS
  <2>0. S \subseteq Nat
    BY <2>1
  <2>2. S \subseteq Nat /\ at \in [1..n -> S] /\ \A x \in S : \E i \in 1..n : at[i] = x
    BY <1>5, <2>0, <2>1, Zenon
  <2>3. \A i \in 1..n : Cardinality(UpTo(S, at[i])) = i
    BY <2>2, Enumerated
  <2> QED
    BY <2>1, <2>3
<1>7. ASSUME NEW i \in 1..n PROVE at[i] = i
  <2>1. PICK m \in 1..n : m = at[i]
    OBVIOUS
  <2>2. UpTo(1..n, m) = 1..m
    BY DEF UpTo
  <2>3. Cardinality(1..m) = m
    BY FS_Interval
  <2> QED
    BY <1>6, <2>1, <2>2, <2>3
<1> QED
  BY <1>7

\* The answers of a batch, sorted by index, are its vectors in the batch's order.
LEMMA ArrangedIsBatch ==
  ASSUME NEW n \in Nat, NEW batch \in [1..n -> Nat],
         NEW answer \in Arranged({<<i, batch[i]>> : i \in DOMAIN batch})
  PROVE  answer = batch
<1> DEFINE items == {<<i, batch[i]>> : i \in 1..n}
           f == [i \in 1..n |-> <<i, batch[i]>>]
<1>1. IsFiniteSet(1..n) /\ Cardinality(1..n) = n
  BY FS_Interval
<1>2. f \in Bijection(1..n, items)
  BY DEF Bijection, Injection, Surjection, IsInjective
<1>3. Cardinality(items) = n
  <2> HIDE DEF items, f
  <2> QED
    BY <1>1, <1>2, FS_Bijection DEF ExistsBijection
<1>4. PICK s \in [1..n -> items] :
        /\ \A i, j \in 1..n : i < j => s[i][1] < s[j][1]
        /\ answer = [i \in 1..n |-> s[i][2]]
  <2>1. items = {<<i, batch[i]>> : i \in DOMAIN batch}
    OBVIOUS
  <2> HIDE DEF items
  <2>2. answer \in Arranged(items)
    BY <2>1
  <2>3. PICK t \in SetToSeqs(items) : /\ \A i, j \in DOMAIN t : i < j => t[i][1] < t[j][1]
                                      /\ answer = [i \in DOMAIN t |-> t[i][2]]
    BY <2>2 DEF Arranged
  <2>4. t \in [1..n -> items]
    BY <1>3, <2>3 DEF SetToSeqs
  <2> QED
    BY <2>3, <2>4
<1> DEFINE at == [i \in 1..n |-> s[i][1]]
<1>5. \A i \in 1..n : s[i][1] \in 1..n /\ s[i] = <<s[i][1], batch[s[i][1]]>>
  BY <1>4
<1>6. at \in [1..n -> 1..n] /\ Increasing(at)
  BY <1>4, <1>5 DEF Increasing
<1>7. \A i \in 1..n : at[i] = i
  <2> HIDE DEF at
  <2> QED
    BY <1>6, InOrder
<1>8. \A i \in 1..n : s[i][2] = batch[i]
  <2>1. \A i \in 1..n : s[i][1] = i
    BY <1>7
  <2>2. \A i \in 1..n : s[i] = <<i, batch[i]>>
    BY <1>5, <2>1
  <2> QED
    BY <2>2
<1> QED
  BY <1>4, <1>8

-----------------------------------------------------------------------------
(* The steps of embed_texts. *)

\* What the pipeline leaves alone of the chunks, once they are there.
LEMMA EmbedStays ==
  ASSUME EmbedInv, UNCHANGED <<phase, chunks, embedVars>>
  PROVE  EmbedInv'
BY DEF EmbedInv, VectorsInv, RetryInv, VectorsMatchChunks, embedVars

LEMMA EmbedTextsStep ==
  ASSUME EmbedInv, EmbedTexts, UNCHANGED vars
  PROVE  EmbedInv'
BY DEF EmbedInv, VectorsInv, RetryInv, VectorsMatchChunks, Embedding, EmbedTexts, vars

\* A batch that is answered adds its own vectors, and the next begins afresh.
LEMMA EmbedBatchStep ==
  ASSUME EmbedInv, TypeOK, Embed, UNCHANGED vars
  PROVE  EmbedInv'
<1>1. PICK done \in Nat : done = Len(vectors)
  BY DEF EmbedInv, VectorsInv
<1>2. PICK n \in Nat : Batch = [i \in 1..n |-> done + i] /\ done + n <= Len(chunks)
  <2>1. Len(chunks) \in Nat /\ Len(chunks) > done
    BY <1>1 DEF TypeOK, EmbedInv, VectorsInv, Embed, Embedding
  <2> QED
    BY <1>1, <2>1, TextIndexAssumption DEF Batch
<1>3. PICK batch \in [1..n -> Nat] : batch = [i \in 1..n |-> done + i] /\ Batch = batch
  BY <1>1, <1>2
<1>4. PICK answer \in Arranged({<<i, batch[i]>> : i \in DOMAIN batch}) : vectors' = vectors \o answer
  BY <1>3 DEF Embed
<1>5. answer = batch
  BY <1>4, ArrangedIsBatch
<1>6. vectors \in Seq(Nat) /\ batch \in Seq(Nat) /\ Len(batch) = n
  BY DEF EmbedInv, VectorsInv
<1>7. /\ vectors' \in Seq(Nat) /\ Len(vectors') = done + n
      /\ \A i \in 1..done + n : vectors'[i] = IF i <= done THEN vectors[i] ELSE batch[i - done]
  BY <1>1, <1>4, <1>5, <1>6, ConcatProperties
<1>8. \A i \in 1..Len(vectors') : vectors'[i] = i
  <2> SUFFICES ASSUME NEW i \in 1..done + n PROVE vectors'[i] = i
    BY <1>7
  <2>1. CASE i <= done
    BY <1>1, <1>7, <2>1 DEF EmbedInv, VectorsInv
  <2>2. CASE i > done
    <3>1. i - done \in 1..n /\ batch[i - done] = done + (i - done)
      BY <1>1, <1>3, <2>2
    <3> QED
      BY <1>1, <1>7, <2>2, <3>1
  <2> QED
    BY <1>1, <2>1, <2>2
<1>9. VectorsInv'
  <2>1. Len(vectors') = done + n /\ done + n <= Len(chunks) /\ Len(chunks') = Len(chunks)
    BY <1>2, <1>7 DEF vars
  <2>2. stage' = IF done + n < Len(chunks) THEN "embedding" ELSE "embedded"
    BY <2>1 DEF Embed
  <2>3. phase' = "done" /\ Len(chunks) \in Nat
    BY DEF EmbedInv, VectorsInv, Embed, TypeOK, vars
  <2> QED
    BY <1>7, <1>8, <2>1, <2>2, <2>3 DEF VectorsInv, VectorsMatchChunks, Embedding
<1>10. RetryInv'
  BY TextIndexAssumption DEF RetryInv, Embedding, Embed
<1> QED
  BY <1>9, <1>10 DEF EmbedInv

\* A batch whose call fails has slept twice as long as the time before.
LEMMA WakeStep ==
  ASSUME EmbedInv, Wake, UNCHANGED vars
  PROVE  EmbedInv'
<1>1. attempt \in Nat /\ attempt < MaxRetries /\ attempt' = attempt + 1 /\ calls' = attempt'
  BY TextIndexAssumption DEF EmbedInv, RetryInv, Embedding, Wake
<1>2. PICK n \in Nat : n = attempt
  BY <1>1
<1>3. waits = [k \in 1..n |-> 2^(k - 1)] /\ waits' = Append(waits, 2^n)
  BY <1>2 DEF EmbedInv, RetryInv, Embedding, Wake
<1> DEFINE pause(k) == 2^(k - 1)
<1>4. waits = [k \in 1..n |-> pause(k)] /\ pause(n + 1) = 2^n
  BY <1>3
<1> HIDE DEF pause
<1>5. PICK P : P = {pause(k) : k \in 1..n + 1}
  OBVIOUS
<1>6. waits \in Seq(P) /\ Len(waits) = n /\ pause(n + 1) \in P
  BY <1>4, <1>5
<1>7. waits' = Append(waits, pause(n + 1))
  BY <1>3, <1>4
<1>8. waits' = [k \in 1..n + 1 |-> pause(k)]
  BY <1>4, <1>6, <1>7
<1>9. waits' = [k \in 1..attempt' |-> 2^(k - 1)]
  BY <1>1, <1>2, <1>8 DEF pause
<1>10. RetryInv'
  BY <1>1, <1>9, TextIndexAssumption DEF RetryInv, Wake
<1>11. VectorsInv'
  BY DEF EmbedInv, VectorsInv, VectorsMatchChunks, Embedding, Wake, vars
<1> QED
  BY <1>10, <1>11 DEF EmbedInv

\* zip pairs every chunk with its own vector.
LEMMA StoreStep ==
  ASSUME EmbedInv, TypeOK, Store, UNCHANGED vars
  PROVE  EmbedInv'
<1>1. Len(vectors) = Len(chunks) /\ stage' = "stored" /\ rows' = [c \in DOMAIN chunks |-> <<c, vectors[c]>>]
  BY DEF EmbedInv, VectorsInv, Store
<1>2. PICK n \in Nat : n = Len(chunks) /\ DOMAIN chunks = 1..n
  BY DEF TypeOK
<1>3. rows' = [c \in 1..n |-> <<c, c>>]
  BY <1>1, <1>2 DEF EmbedInv, VectorsInv
<1>4. DOMAIN rows' = 1..n /\ Len(rows') = n /\ \A c \in 1..n : rows'[c] = <<c, c>>
  BY <1>3
<1>5. VectorsMatchChunks'
  BY <1>2, <1>4 DEF VectorsMatchChunks, vars
<1>6. VectorsInv'
  BY <1>1, <1>5 DEF EmbedInv, VectorsInv, Embedding, Store, vars
<1>7. RetryInv'
  BY <1>1 DEF RetryInv, Embedding
<1> QED
  BY <1>6, <1>7 DEF EmbedInv

\* The errors, of the provider and of its answers.
LEMMA FailStep ==
  ASSUME EmbedInv, Miscount \/ ProviderRaises, UNCHANGED vars
  PROVE  EmbedInv'
<1>1. CASE Miscount
  BY <1>1 DEF EmbedInv, VectorsInv, RetryInv, VectorsMatchChunks, Embedding, Miscount, vars
<1>2. CASE ProviderRaises
  BY <1>2, TextIndexAssumption
  DEF EmbedInv, VectorsInv, RetryInv, VectorsMatchChunks, Embedding, ProviderRaises, LastAttempt,
      vars
<1> QED
  BY <1>1, <1>2

\* While the text is chunked, nothing is embedded; once it is, the chunks are what they are.
LEMMA ChunkingStep ==
  ASSUME EmbedInv, Next, UNCHANGED embedVars
  PROVE  EmbedInv'
<1>1. phase # "done"
  BY DEF Next, ReadHeading, ReadSentence, Pop, Push, EndOfText, Take, EmitFull, SeedOverlap, Seeded,
         EndSection, Finish, AtSentence, AtEndOfSection
<1>2. stage = "chunking"
  BY <1>1 DEF EmbedInv, VectorsInv
<1> QED
  BY <1>2 DEF EmbedInv, VectorsInv, RetryInv, VectorsMatchChunks, Embedding, embedVars

(* Batches keep the order of the chunks, and retries their count.           *)
THEOREM EmbedInvariant == IndexSpec => []EmbedInv
<1>1. IndexInit => EmbedInv
  <2> SUFFICES ASSUME IndexInit PROVE EmbedInv
    OBVIOUS
  <2>1. /\ stage = "chunking" /\ vectors = <<>> /\ attempt = 0 /\ waits = <<>> /\ calls = 0
    BY DEF IndexInit, EmbedInit
  <2>2. VectorsInv
    BY <2>1 DEF VectorsInv, VectorsMatchChunks, Embedding
  <2>3. waits = [k \in 1..attempt |-> 2^(k - 1)]
    BY <2>1
  <2> QED
    BY <2>1, <2>2, <2>3, TextIndexAssumption DEF EmbedInv, RetryInv
<1>2. EmbedInv /\ ChunkInv /\ [IndexNext]_<<vars, embedVars>> => EmbedInv'
  <2> SUFFICES ASSUME EmbedInv, ChunkInv, [IndexNext]_<<vars, embedVars>> PROVE EmbedInv'
    OBVIOUS
  <2>1. TypeOK
    BY DEF ChunkInv
  <2>2. CASE Next /\ UNCHANGED embedVars
    BY <2>2, ChunkingStep
  <2>3. CASE EmbedNext /\ UNCHANGED vars
    BY <2>1, <2>3, EmbedTextsStep, EmbedBatchStep, WakeStep, StoreStep, FailStep DEF EmbedNext
  <2>4. CASE UNCHANGED <<vars, embedVars>>
    BY <2>4, EmbedStays DEF vars
  <2> QED
    BY <2>2, <2>3, <2>4 DEF IndexNext
<1> QED
  BY <1>1, <1>2, TextIndexIsChunker, ChunkInvariant, PTL DEF IndexSpec

(* Whatever way a text falls into batches, the provider lists its answers  *)
(* and batches are retried, each chunk is stored once with its own vector; *)
(* and a batch is given up only after every retry and the pauses between.  *)
THEOREM EmbeddingComplete == IndexSpec => []EmbedsAllOrGivesUp
<1>1. EmbedInv => EmbedsAllOrGivesUp
  BY TextIndexAssumption
  DEF EmbedInv, VectorsInv, RetryInv, Embedding, EmbedsAllOrGivesUp, GivesUpLate
<1> QED
  BY <1>1, EmbedInvariant, PTL
=============================================================================
