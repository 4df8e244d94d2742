------------------------------ MODULE Chunker ------------------------------
(***************************************************************************)
(* chunk_text (services/ingestion/chunker.py): a text becomes sections     *)
(* under their heading path, a section sentences, and these overlapping    *)
(* chunks.  A step is an iteration of one of the loops.                    *)
(*                                                                         *)
(* A heading is its level and title, a sentence its token count.  The      *)
(* list "current" is always a run of sentences of one section: first to    *)
(* index - 1.  count_tokens of sentences joined by blanks is the sum of    *)
(* their counts, give or take Seam tokens for each blank.                  *)
(***************************************************************************)
EXTENDS Integers, Sequences, FiniteSets

CONSTANTS
  Title, MaxLevel, Tokens,             \* what lines of text there are
  TargetMin, TargetMax, OverlapTarget, \* OverlapTarget is int(TargetMax * overlap_ratio)
  Seam,
  MaxLines                             \* bound on the headings and sentences

ASSUME ChunkerAssumption ==
  /\ MaxLevel \in Nat /\ Tokens \subseteq Nat
  /\ TargetMin \in Nat /\ TargetMax \in Nat /\ OverlapTarget \in Nat
  /\ Seam \in Nat /\ MaxLines \in Nat

VARIABLES
  phase,     \* which loop runs
  lines,     \* how many lines have been read
  stack,     \* the open headings
  buffer,    \* the sentences since the last heading
  sections,
  headings,  \* all headings so far; match is the last one
  sec,       \* the section that is being chunked
  first, index, tokens,  \* current is first..index-1, with this many tokens
  seed, seedTokens,      \* overlap is seed..index-1
  chunks

splitVars == <<lines, stack, buffer, sections, headings>>
chunkVars == <<sec, first, index, tokens, seed, seedTokens, chunks>>
vars == <<phase, splitVars, chunkVars>>

Heading == [level : 1..MaxLevel, title : Title]
Section == [path : Seq(Title), sentences : Seq(Tokens),
            under : Nat]          \* auxiliary: how many headings precede it
Part == [sec : Nat, from : Nat, to : Nat]
Chunk == [path : Seq(Title), parts : SUBSET Part, count : Int,
          seams : Nat]            \* auxiliary: how many blanks join its sentences

Init ==
  /\ phase = "splitting" /\ lines = 0
  /\ stack = <<>> /\ buffer = <<>> /\ sections = <<>> /\ headings = <<>>
  /\ sec = 1 /\ first = 1 /\ index = 1 /\ tokens = 0 /\ seed = 1 /\ seedTokens = 0
  /\ chunks = <<>>

-----------------------------------------------------------------------------
(* _split_sections.                                                         *)

Titles(s) == [i \in 1..Len(s) |-> s[i].title]

\* flush: no section without a body.
Flush ==
  /\ sections' = IF buffer = <<>> THEN sections
                 ELSE Append(sections, [path |-> Titles(stack), sentences |-> buffer,
                                        under |-> Len(headings)])
  /\ buffer' = <<>>

ReadHeading(h) ==
  /\ phase = "splitting" /\ lines < MaxLines /\ lines' = lines + 1
  /\ phase' = "popping" /\ Flush /\ headings' = Append(headings, h)
  /\ UNCHANGED <<stack, chunkVars>>

Match == headings[Len(headings)]

\* Fault: a heading does not close its sibling.
ClosesLower(h) == h.level > Match.level
Closes(h) == h.level >= Match.level

\* The open headings that the one just read closes are popped, and it is pushed.
Pop ==
  /\ phase = "popping" /\ stack # <<>> /\ Closes(stack[Len(stack)])
  /\ stack' = SubSeq(stack, 1, Len(stack) - 1)
  /\ UNCHANGED <<phase, lines, buffer, sections, headings, chunkVars>>

Push ==
  /\ phase = "popping" /\ (stack # <<>> => ~Closes(stack[Len(stack)]))
  /\ phase' = "splitting" /\ stack' = Append(stack, Match)
  /\ UNCHANGED <<lines, buffer, sections, headings, chunkVars>>

ReadSentence(n) ==
  /\ phase = "splitting" /\ lines < MaxLines /\ lines' = lines + 1
  /\ buffer' = Append(buffer, n)
  /\ UNCHANGED <<phase, stack, sections, headings, chunkVars>>

EndOfText ==
  /\ phase = "splitting" /\ phase' = "chunking" /\ Flush
  /\ UNCHANGED <<lines, stack, headings, chunkVars>>

-----------------------------------------------------------------------------
(* chunk_text: one section after the other.                                 *)

Sentences == sections[sec].sentences
AtSentence == phase = "chunking" /\ sec <= Len(sections) /\ index <= Len(Sentences)
AtEndOfSection == phase = "chunking" /\ sec <= Len(sections) /\ index > Len(Sentences)

\* Fault: the limit is noticed after it is passed.
FullBefore == first < index /\ tokens > TargetMax
Full == first < index /\ tokens + Sentences[index] > TargetMax

Take ==
  /\ AtSentence /\ ~Full
  /\ index' = index + 1 /\ tokens' = tokens + Sentences[index]
  /\ UNCHANGED <<phase, splitVars, sec, first, seed, seedTokens, chunks>>

Counts(n, seams) == n - Seam * seams .. n + Seam * seams
Current == [sec |-> sec, from |-> first, to |-> index - 1]

Emit == \E n \in Counts(tokens, index - first - 1) :
  chunks' = Append(chunks, [path |-> sections[sec].path, parts |-> {Current}, count |-> n,
                            seams |-> index - first - 1])

EmitFull ==
  /\ AtSentence /\ Full /\ Emit
  /\ phase' = "seeding" /\ seed' = index /\ seedTokens' = 0
  /\ UNCHANGED <<splitVars, sec, first, index, tokens>>

\* Fault: the overlap may be all of the chunk before.
FitsWhole == seed > first /\ seedTokens + Sentences[seed - 1] <= OverlapTarget

\* The next sentence backwards fits the overlap and is not the first one.
Fits == seed - 1 > first /\ seedTokens + Sentences[seed - 1] <= OverlapTarget

SeedOverlap ==
  /\ phase = "seeding" /\ Fits
  /\ seed' = seed - 1 /\ seedTokens' = seedTokens + Sentences[seed - 1]
  /\ UNCHANGED <<phase, splitVars, sec, first, index, tokens, chunks>>

\* The sentence that did not fit is added to the overlap.
Seeded ==
  /\ phase = "seeding" /\ ~Fits /\ phase' = "chunking"
  /\ first' = seed /\ tokens' = seedTokens + Sentences[index] /\ index' = index + 1
  /\ UNCHANGED <<splitVars, sec, seed, seedTokens, chunks>>

LastChunk == chunks[Len(chunks)]

\* Fault: a tail is merged whatever it is about.
TinyAnywhere ==
  /\ chunks # <<>> /\ tokens < TargetMin \div 4 /\ LastChunk.count + tokens <= TargetMax

TinyTail ==
  /\ chunks # <<>> /\ LastChunk.path = sections[sec].path
  /\ tokens < TargetMin \div 4 /\ LastChunk.count + tokens <= TargetMax

MergeTail == \E n \in Counts(LastChunk.count + tokens, index - first) :
  chunks' = [chunks EXCEPT ![Len(chunks)] =
    [path |-> LastChunk.path, parts |-> LastChunk.parts \cup {Current}, count |-> n,
     seams |-> LastChunk.seams + (index - first)]]

\* Fault: a tail is dropped if it cannot be merged and is tiny.
EndTinyTail == IF TinyTail THEN MergeTail
               ELSE IF tokens < TargetMin \div 4 THEN UNCHANGED chunks ELSE Emit

EndTail == IF TinyTail THEN MergeTail ELSE Emit

EndSection ==
  /\ AtEndOfSection /\ EndTail
  /\ sec' = sec + 1 /\ first' = 1 /\ index' = 1 /\ tokens' = 0
  /\ UNCHANGED <<phase, splitVars, seed, seedTokens>>

Finish ==
  /\ phase = "chunking" /\ sec > Len(sections) /\ phase' = "done"
  /\ UNCHANGED <<splitVars, chunkVars>>

-----------------------------------------------------------------------------
Next ==
  \/ \E h \in Heading : ReadHeading(h)
  \/ \E n \in Tokens : ReadSentence(n)
  \/ Pop \/ Push \/ EndOfText \/ Take \/ EmitFull \/ SeedOverlap \/ Seeded \/ EndSection \/ Finish

Spec == Init /\ [][Next]_vars

-----------------------------------------------------------------------------
(* Correctness.                                                             *)

TypeOK ==
  /\ phase \in {"splitting", "popping", "chunking", "seeding", "done"} /\ lines \in Nat
  /\ stack \in Seq(Heading) /\ buffer \in Seq(Tokens) /\ headings \in Seq(Heading)
  /\ sections \in Seq(Section) /\ chunks \in Seq(Chunk)
  /\ sec \in Nat /\ first \in Nat /\ index \in Nat /\ seed \in Nat
  /\ tokens \in Nat /\ seedTokens \in Nat

\* The headings that enclose what comes after the first n: those that no later one
\* of the same or a higher rank has closed.
Enclosing(n) ==
  {i \in 1..n : \A j \in i + 1..n : headings[j].level > headings[i].level}

\* A section's heading path is made of the headings that enclose it, outermost first,
\* however levels are skipped or repeated.
PathsEnclose ==
  \A s \in 1..Len(sections) :
    LET open == Enclosing(sections[s].under)
        path == sections[s].path
    IN /\ Len(path) = Cardinality(open)
       /\ \A i \in open : path[Cardinality({j \in open : j <= i})] = headings[i].title

InChunk(s, i) == \E c \in 1..Len(chunks) : \E p \in chunks[c].parts :
  p.sec = s /\ p.from <= i /\ i <= p.to

\* No sentence of the text is lost between chunks, overlaps, merges and sections.
NothingLost ==
  phase = "done" =>
    \A s \in 1..Len(sections) : \A i \in 1..Len(sections[s].sentences) : InChunk(s, i)

Parts == UNION {chunks[c].parts : c \in 1..Len(chunks)}

\* No two parts of a section are nested: the overlap is less than the chunk before,
\* and each chunk adds to it.
PartsAdvance ==
  \A p, q \in Parts : p # q /\ p.sec = q.sec =>
    \/ p.from < q.from /\ p.to < q.to
    \/ q.from < p.from /\ q.to < p.to

\* A chunk only has sentences under its own heading path.  It may cross a heading all
\* the same: two sections may have the same path.
PartsAgree ==
  \A c \in 1..Len(chunks) : \A p \in chunks[c].parts :
    sections[p.sec].path = chunks[c].path

\* So a chunk is stored under the headings that enclose each of its sentences.
ChunksKnowTheirHeadings == PathsEnclose /\ PartsAgree

\* Only a sentence that is too long for the overlap it follows makes a chunk longer
\* than the target.
SizeOK(c) ==
  \/ c.count - Seam * c.seams <= TargetMax
  \/ \E p \in c.parts : \E i \in p.from..p.to :
       c.count - Seam * c.seams <= OverlapTarget + sections[p.sec].sentences[i]
SizeBounded == \A c \in 1..Len(chunks) : SizeOK(chunks[c])

=============================================================================
