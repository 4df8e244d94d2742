--------------------------- MODULE ResponseCache ---------------------------
(***************************************************************************)
(* The versioned key of the answer cache (services/cache.py) against the   *)
(* two things that move underneath it: indexing runs, which change what    *)
(* retrieval finds, and chat turns, which compute the version first,       *)
(* retrieve later and store their answer last (routers/chat.py).           *)
(*                                                                         *)
(* One organization and one question.  An answer is abstracted to the      *)
(* indexing runs whose chunks it was drawn from; Ingestion has the runs in *)
(* detail, ChatTurn the turns.  Postgres' now() is the start of the        *)
(* transaction, so a run's updated_at is fixed when it deletes the old     *)
(* chunks and is visible only when it commits.  Its status "processing" is *)
(* committed long before that: the source is loaded, cut and embedded in   *)
(* between.                                                                *)
(***************************************************************************)
EXTENDS Naturals, FiniteSets, FiniteSetsExt

CONSTANTS Doc, Job, Turn, NoDoc

ASSUME CacheAssumption == NoDoc \notin Doc /\ IsFiniteSet(Doc) /\ IsFiniteSet(Job)

VARIABLES
  state,    \* documents.status; pending and processing are "indexing"
  updated,  \* documents.updated_at of ready documents
  content,  \* the runs whose chunks of the document are stored
  job,      \* the indexing runs
  clock,    \* number of timestamps taken
  cache,    \* the answers stored under each version: one or none
  turn,     \* the coroutine of each chat turn
  raced     \* auxiliary: two runs of one document have overlapped, from the
            \* moment they loaded it until their last commit

kb == <<state, updated, content, job, clock, raced>>
vars == <<kb, cache, turn>>

Time == 0..Cardinality(Job)
DocState == {"absent", "indexing", "ready", "failed", "deleted"}
JobState == [pc : {"none", "queued", "loaded", "processing", "replacing", "over"},
             doc : Doc \cup {NoDoc}, stamp : Time, doomed : SUBSET Job]
TurnState == [pc : {"idle", "missed", "dense", "retrieved", "done"},
              version : (0..Cardinality(Doc)) \X Time, found : SUBSET Job]

\* Fault: the count alone.
VersionByCount(st, up) == <<Cardinality({d \in Doc : st[d] = "ready"}), 0>>

\* compute_kb_version: how many documents are ready, and the latest updated_at
\* of those.
Version(st, up) ==
  LET ready == {d \in Doc : st[d] = "ready"}
  IN <<Cardinality(ready), IF ready = {} THEN 0 ELSE Max({up[d] : d \in ready})>>

Now == Version(state, updated)
Versions == (0..Cardinality(Doc)) \X Time

\* What _dense_search and _fulltext_search read: chunks, whatever the status of
\* their document is.
Retrievable == UNION {content[d] : d \in Doc}

Init ==
  /\ state = [d \in Doc |-> "absent"] /\ updated = [d \in Doc |-> 0]
  /\ content = [d \in Doc |-> {}] /\ clock = 0 /\ raced = FALSE
  /\ job = [j \in Job |-> [pc |-> "none", doc |-> NoDoc, stamp |-> 0, doomed |-> {}]]
  /\ cache = [v \in Versions |-> {}]
  /\ turn = [t \in Turn |-> [pc |-> "idle", version |-> <<0, 0>>, found |-> {}]]

-----------------------------------------------------------------------------
(* The knowledge base.                                                      *)

\* upload_document, create_document or reindex_document, up to the job.  A
\* re-index that had read "pending" sends no UPDATE, also when a run has made the
\* document ready since.
Index(j, d) ==
  /\ job[j].pc = "none" /\ state[d] # "deleted"
  /\ job' = [job EXCEPT ![j].pc = "queued", ![j].doc = d]
  /\ \/ state' = [state EXCEPT ![d] = "indexing"]
     \/ state[d] = "ready" /\ state' = state
  /\ UNCHANGED <<updated, content, clock, raced, cache, turn>>

Busy(j) == job[j].pc \in {"loaded", "processing", "replacing"}

\* run_ingestion loads the document ...
Load(j) ==
  /\ job[j].pc = "queued" /\ state[job[j].doc] # "deleted"
  /\ job' = [job EXCEPT ![j].pc = "loaded"]
  /\ raced' = (raced \/ \E k \in Job : Busy(k) /\ job[k].doc = job[j].doc)
  /\ UNCHANGED <<state, updated, content, clock, cache, turn>>

\* ... and commits "processing", for which the ORM sends no UPDATE if that is what
\* it has loaded, from another run: then the document stays as that run leaves it.
Process(j) ==
  /\ job[j].pc = "loaded" /\ state[job[j].doc] # "deleted"
  /\ job' = [job EXCEPT ![j].pc = "processing"]
  /\ \/ state' = [state EXCEPT ![job[j].doc] = "indexing"]
     \/ raced /\ state' = state
  /\ UNCHANGED <<updated, content, clock, raced, cache, turn>>

\* The run has its embeddings and opens the transaction that replaces the chunks,
\* whatever the document's status is by now.
Replace(j) ==
  /\ job[j].pc = "processing" /\ state[job[j].doc] # "deleted"
  /\ clock' = clock + 1
  /\ job' = [job EXCEPT ![j].pc = "replacing", ![j].stamp = clock + 1,
                        ![j].doomed = content[job[j].doc]]
  /\ UNCHANGED <<state, updated, content, raced, cache, turn>>

Stamp(j) == [updated EXCEPT ![job[j].doc] = job[j].stamp]

Publish(j) ==
  /\ job[j].pc = "replacing" /\ state[job[j].doc] # "deleted"
  /\ job' = [job EXCEPT ![j].pc = "over", ![j].doomed = {}]
  /\ content' = [content EXCEPT ![job[j].doc] = (@ \ job[j].doomed) \cup {j}]
  /\ state' = [state EXCEPT ![job[j].doc] = "ready"]
  /\ updated' = Stamp(j)
  /\ UNCHANGED <<clock, raced, cache, turn>>

\* The run or its call ends without chunks.  The document is marked failed unless it
\* is gone, or the job is cancelled or its worker dies: then it stays as it is.
FailRun(j) ==
  /\ job[j].pc = "queued" \/ Busy(j)
  /\ job' = [job EXCEPT ![j].pc = "over", ![j].doomed = {}]
  /\ \/ state[job[j].doc] # "deleted" /\ state' = [state EXCEPT ![job[j].doc] = "failed"]
     \/ state' = state
  /\ UNCHANGED <<updated, content, clock, raced, cache, turn>>

Delete(d) ==
  /\ state[d] \in {"indexing", "ready", "failed"}
  /\ state' = [state EXCEPT ![d] = "deleted"]
  /\ content' = [content EXCEPT ![d] = {}]
  /\ UNCHANGED <<updated, job, clock, raced, cache, turn>>

-----------------------------------------------------------------------------
(* Chat turns.                                                              *)

\* The version, and a lookup that misses or is bypassed.
Lookup(t) ==
  /\ turn[t].pc = "idle"
  /\ turn' = [turn EXCEPT ![t].pc = "missed", ![t].version = Now]
  /\ UNCHANGED <<kb, cache>>

\* The two searches run side by side, each in a session of its own.
Search(t) ==
  /\ turn[t].pc \in {"missed", "dense"}
  /\ turn' = [turn EXCEPT ![t].pc = IF @ = "missed" THEN "dense" ELSE "retrieved",
                          ![t].found = @ \cup Retrievable]
  /\ UNCHANGED <<kb, cache>>

Key(t) == turn[t].version

Store(t) ==
  /\ turn[t].pc = "retrieved"
  /\ cache' = [cache EXCEPT ![Key(t)] = {turn[t].found}]
  /\ turn' = [turn EXCEPT ![t].pc = "done", ![t].found = {}]
  /\ UNCHANGED kb

\* response_cache_ttl_seconds pass.
Expire(v) ==
  /\ cache[v] # {}
  /\ cache' = [cache EXCEPT ![v] = {}]
  /\ UNCHANGED <<kb, turn>>

Next ==
  \/ \E j \in Job : \/ Load(j) \/ Process(j) \/ Replace(j) \/ Publish(j) \/ FailRun(j)
                   \/ \E d \in Doc : Index(j, d)
  \/ \E d \in Doc : Delete(d)
  \/ \E t \in Turn : Lookup(t) \/ Search(t) \/ Store(t)
  \/ \E v \in Versions : Expire(v)

Spec == Init /\ [][Next]_vars

-----------------------------------------------------------------------------
(* Correctness.                                                             *)

TypeOK ==
  /\ state \in [Doc -> DocState] /\ updated \in [Doc -> Time]
  /\ content \in [Doc -> SUBSET Job] /\ clock \in Time /\ raced \in BOOLEAN
  /\ job \in [Job -> JobState] /\ turn \in [Turn -> TurnState]
  /\ cache \in [Versions -> SUBSET SUBSET Job]

\* Once every document there ever was is ready, a hit is drawn from what
\* retrieval would find now, even if its turn had computed the version, searched
\* and stored the answer around any number of re-ingests; provided that no two
\* runs of a document overlapped between loading it and their last commit (the
\* chunks of both may stay, the stamps may go backwards, and one may replace the
\* chunks of a document that the other has made ready).
SettledHitIsCurrent ==
  ~raced /\ (\A d \in Doc : state[d] \in {"absent", "ready"}) =>
    cache[Now] \subseteq {Retrievable}

=============================================================================
