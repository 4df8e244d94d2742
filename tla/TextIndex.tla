----------------------------- MODULE TextIndex -----------------------------
(***************************************************************************)
(* From text to rows: chunk_text (Chunker), the embedding of its chunks in *)
(* batches with retries (services/embeddings.py), and the pairing of       *)
(* chunks and vectors (services/ingestion/pipeline.py).  A vector is named *)
(* by the chunk it was computed from.                                      *)
(***************************************************************************)
EXTENDS Chunker, SequencesExt

CONSTANTS
  MaxBatch,    \* MAX_BATCH_SIZE
  MaxRetries   \* MAX_RETRIES

ASSUME TextIndexAssumption == MaxBatch \in Nat \ {0} /\ MaxRetries \in Nat

VARIABLES
  stage,     \* what the pipeline does with the chunks
  vectors,   \* of the batches that are done
  attempt,   \* of the batch in work
  waits,     \* auxiliary: for how many base delays it has slept, each time
  calls,     \* auxiliary: how often the provider was called for it
  rows       \* the chunks rows: chunk and vector

embedVars == <<stage, vectors, attempt, waits, calls, rows>>

EmbedInit ==
  /\ stage = "chunking" /\ vectors = <<>> /\ attempt = 0 /\ waits = <<>> /\ calls = 0 /\ rows = <<>>

\* embed_texts: the next MaxBatch chunks that have no vectors yet.
Batch ==
  LET done == Len(vectors) IN
  [i \in 1..(IF Len(chunks) - done < MaxBatch THEN Len(chunks) - done ELSE MaxBatch) |-> done + i]

EmbedTexts ==
  /\ stage = "chunking" /\ phase = "done"
  /\ stage' = IF chunks = <<>> THEN "embedded" ELSE "embedding"
  /\ UNCHANGED <<vectors, attempt, waits, calls, rows>>

\* Fault: vectors in the order in which the provider lists them.
ArrangedAsListed(items) == {[i \in DOMAIN s |-> s[i][2]] : s \in SetToSeqs(items)}

\* The provider lists index and vector of each text in any order; sorted by index.
Arranged(items) ==
  {[i \in DOMAIN s |-> s[i][2]] :
     s \in {t \in SetToSeqs(items) : \A i, j \in DOMAIN t : i < j => t[i][1] < t[j][1]}}

Embed ==
  /\ stage = "embedding"
  /\ \E answer \in Arranged({<<i, Batch[i]>> : i \in DOMAIN Batch}) : vectors' = vectors \o answer
  /\ stage' = IF Len(vectors') < Len(chunks) THEN "embedding" ELSE "embedded"
  /\ attempt' = 0 /\ waits' = <<>> /\ calls' = 0
  /\ UNCHANGED rows

\* As many vectors as texts, or EmbeddingError: that is not retried.
Miscount ==
  /\ stage = "embedding" /\ stage' = "failed"
  /\ UNCHANGED <<vectors, attempt, waits, calls, rows>>

\* Fault: the last attempt is the one before.
LastAttemptEarly == attempt + 1 >= MaxRetries
LastAttempt == attempt = MaxRetries

\* The provider raises: after the last attempt the batch, and with it the run, fails.
ProviderRaises ==
  /\ stage = "embedding" /\ calls' = calls + 1
  /\ stage' = IF LastAttempt THEN "exhausted" ELSE "asleep"
  /\ UNCHANGED <<vectors, attempt, waits, rows>>

Wake ==
  /\ stage = "asleep" /\ stage' = "embedding"
  /\ waits' = Append(waits, 2^attempt) /\ attempt' = attempt + 1
  /\ UNCHANGED <<vectors, calls, rows>>

\* zip(chunks, vectors, strict=True).
Store ==
  /\ stage = "embedded"
  /\ IF Len(vectors) = Len(chunks)
     THEN stage' = "stored" /\ rows' = [c \in DOMAIN chunks |-> <<c, vectors[c]>>]
     ELSE stage' = "failed" /\ rows' = rows
  /\ UNCHANGED <<vectors, attempt, waits, calls>>

EmbedNext == EmbedTexts \/ Embed \/ Miscount \/ ProviderRaises \/ Wake \/ Store

IndexInit == Init /\ EmbedInit

IndexNext ==
  \/ Next /\ UNCHANGED embedVars
  \/ EmbedNext /\ UNCHANGED vars

IndexSpec == IndexInit /\ [][IndexNext]_<<vars, embedVars>>

-----------------------------------------------------------------------------
(* Correctness.                                                             *)

\* Every chunk of the text is stored once and with its own vector, however the
\* text falls into batches, batches are retried and providers list their answers.
VectorsMatchChunks ==
  stage = "stored" => /\ Len(rows) = Len(chunks)
                      /\ \A c \in DOMAIN rows : rows[c] = <<c, c>>

\* A run gives up a batch only after all its retries and all the waiting between
\* them, and never waits once more in vain.
GivesUpLate ==
  /\ stage = "exhausted" => calls = MaxRetries + 1
  /\ stage = "asleep" => calls <= MaxRetries
  /\ stage \in {"embedding", "exhausted"} => waits = [k \in 1..attempt |-> 2^(k - 1)]

\* What the pipeline may rely on in embed_texts: all vectors, or an error that is
\* not one of the first attempts.
EmbedsAllOrGivesUp == VectorsMatchChunks /\ GivesUpLate
=============================================================================
