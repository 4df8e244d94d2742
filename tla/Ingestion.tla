----------------------------- MODULE Ingestion -----------------------------
(***************************************************************************)
(* The knowledge base of one organization: the document endpoints          *)
(* (routers/documents.py), the arq queue between API and worker            *)
(* (services/queue.py, workers/), the ingestion pipeline                   *)
(* (services/ingestion/pipeline.py) and the source storage                 *)
(* (services/storage.py).                                                  *)
(*                                                                         *)
(* Request r is one call of an endpoint; the job it enqueues is job[r].    *)
(* Several jobs run at once (arq runs up to max_jobs of them), also for    *)
(* the same document.  As in ChatTurn a database transaction at READ       *)
(* COMMITTED is one step per read its effect depends on.                   *)
(***************************************************************************)
EXTENDS Naturals

CONSTANTS Request,   \* calls of the document endpoints
          Doc,       \* document ids that may be minted
          UrlDoc,    \* those created from a URL; the others have a stored file
          NoDoc,
          MaxTries   \* arq's max_tries

ASSUME IngestionAssumption ==
  UrlDoc \subseteq Doc /\ NoDoc \notin Doc /\ MaxTries \in Nat \ {0}

VARIABLES status,  \* documents.status
          chunks,  \* one element for all the chunks one run inserted
          stored,  \* documents with an object in storage
          api,     \* the coroutine of each request
          job      \* its arq job, and the coroutine that runs it

vars == <<status, chunks, stored, api, job>>

Status == {"absent", "pending", "processing", "ready", "failed", "deleted"}
Chunks == [doc : Doc, job : Request, try : 1..MaxTries]

ApiState == [pc : {"idle", "storing", "enqueueing", "loaded", "unlinking", "over", "lost"},
             doc : Doc \cup {NoDoc}, saw : Status]

Running == {"reading", "loading", "embedded", "replacing", "failing", "recording"}
Live == {"queued", "committed"} \cup Running
Settled == {"done", "failed", "abandoned"}
JobState == [pc : {"none"} \cup Live \cup Settled, try : 0..MaxTries, saw : Status,
             doomed : SUBSET Chunks, found : BOOLEAN]

NoJob == [pc |-> "none", try |-> 0, saw |-> "absent", doomed |-> {}, found |-> FALSE]

Exists(d) == status[d] \in {"pending", "processing", "ready", "failed"}
Of(j) == api[j].doc
ChunksOf(d) == {c \in chunks : c.doc = d}

Init ==
  /\ status = [d \in Doc |-> "absent"] /\ chunks = {} /\ stored = {}
  /\ api = [r \in Request |-> [pc |-> "idle", doc |-> NoDoc, saw |-> "absent"]]
  /\ job = [r \in Request |-> NoJob]

-----------------------------------------------------------------------------
(* The API.                                                                 *)

Step(r, p) == api' = [api EXCEPT ![r].pc = p, ![r].saw = "absent"]

\* upload_document and create_document: the row is committed first.
Create(r, d) ==
  /\ api[r].pc = "idle" /\ status[d] = "absent"
  /\ status' = [status EXCEPT ![d] = "pending"]
  /\ api' = [api EXCEPT ![r] = [pc |-> IF d \in UrlDoc THEN "enqueueing" ELSE "storing",
                                doc |-> d, saw |-> "absent"]]
  /\ UNCHANGED <<chunks, stored, job>>

StoreSource(r) ==
  /\ api[r].pc = "storing" /\ Step(r, "enqueueing")
  /\ stored' = stored \cup {Of(r)}
  /\ UNCHANGED <<status, chunks, job>>

\* Each call makes a job of its own: enqueue_job is given no job id.
Enqueue(r) ==
  /\ api[r].pc = "enqueueing" /\ Step(r, "over")
  /\ job' = [job EXCEPT ![r] = [NoJob EXCEPT !.pc = "queued"]]
  /\ UNCHANGED <<status, chunks, stored>>

ReindexRead(r, d) ==
  /\ api[r].pc = "idle" /\ Exists(d)
  /\ api' = [api EXCEPT ![r] = [pc |-> "loaded", doc |-> d, saw |-> status[d]]]
  /\ UNCHANGED <<status, chunks, stored, job>>

\* The ORM emits no UPDATE for an attribute set to the value that was read;
\* an UPDATE that finds no row raises.
AfterUpdate(now, read, new) == IF read = new THEN now ELSE new

ReindexCommit(r) ==
  /\ api[r].pc = "loaded" /\ (Exists(Of(r)) \/ api[r].saw = "pending")
  /\ status' = [status EXCEPT ![Of(r)] = AfterUpdate(@, api[r].saw, "pending")]
  /\ Step(r, "enqueueing")
  /\ UNCHANGED <<chunks, stored, job>>

\* Fault: the source goes first, and the row stays when the call breaks off there.
DeleteSourceFirst(r, d) ==
  /\ api[r].pc = "idle" /\ Exists(d)
  /\ stored' = stored \ {d}
  /\ api' = [api EXCEPT ![r] = [pc |-> "lost", doc |-> d, saw |-> "absent"]]
  /\ UNCHANGED <<status, chunks, job>>

\* delete_document; ON DELETE CASCADE takes the chunks.
Delete(r, d) ==
  /\ api[r].pc = "idle" /\ Exists(d)
  /\ status' = [status EXCEPT ![d] = "deleted"]
  /\ chunks' = chunks \ ChunksOf(d)
  /\ api' = [api EXCEPT ![r] = [pc |-> "unlinking", doc |-> d, saw |-> "absent"]]
  /\ UNCHANGED <<stored, job>>

Unlink(r) ==
  /\ api[r].pc = "unlinking" /\ Step(r, "over")
  /\ stored' = stored \ {Of(r)}
  /\ UNCHANGED <<status, chunks, job>>

\* Storage, Redis or Postgres raises, or the API process dies: what the call
\* has committed so far stays.
LoseRequest(r) ==
  /\ api[r].pc \in {"storing", "enqueueing", "loaded", "unlinking"}
  /\ Step(r, "lost")
  /\ UNCHANGED <<status, chunks, stored, job>>

-----------------------------------------------------------------------------
(* The worker: run_ingestion, inside ingest_document.                       *)

\* The coroutine is over, and what it held is gone.
Leave(j, p) == job' = [job EXCEPT ![j] = [NoJob EXCEPT !.pc = p, !.try = job[j].try]]

\* Fault: a job that does not know its organization returns at once.
BeginWithoutOrg(j) ==
  /\ job[j].pc = "queued" /\ job[j].try < MaxTries /\ Leave(j, "failed")
  /\ UNCHANGED <<status, chunks, stored, api>>

\* The document is read; without one the job fails before the try block.
Begin(j) ==
  /\ job[j].pc = "queued" /\ job[j].try < MaxTries
  /\ \/ /\ Exists(Of(j))
        /\ job' = [job EXCEPT ![j].pc = "reading", ![j].try = @ + 1, ![j].saw = status[Of(j)]]
     \/ ~Exists(Of(j)) /\ Leave(j, "failed")
  /\ UNCHANGED <<status, chunks, stored, api>>

\* The first commit, of status processing.
MarkProcessing(j) ==
  /\ job[j].pc = "reading" /\ (Exists(Of(j)) \/ job[j].saw = "processing")
  /\ status' = [status EXCEPT ![Of(j)] = AfterUpdate(@, job[j].saw, "processing")]
  /\ job' = [job EXCEPT ![j].pc = "loading", ![j].saw = "absent"]
  /\ UNCHANGED <<chunks, stored, api>>

\* _load_source, chunk_text and embed_texts; an empty source gives no chunks.
Load(j) ==
  /\ job[j].pc = "loading" /\ Of(j) \in stored \cup UrlDoc
  /\ \E found \in BOOLEAN :
       job' = [job EXCEPT ![j].pc = "embedded", ![j].found = found]
  /\ UNCHANGED <<status, chunks, stored, api>>

\* Fault: the old chunks are not deleted.
DeleteNothing(j) ==
  /\ job[j].pc = "embedded"
  /\ job' = [job EXCEPT ![j].pc = "replacing"]
  /\ UNCHANGED <<status, chunks, stored, api>>

\* DELETE FROM chunks: it will remove the chunks that are committed now.
DeleteOld(j) ==
  /\ job[j].pc = "embedded"
  /\ job' = [job EXCEPT ![j].pc = "replacing", ![j].doomed = ChunksOf(Of(j))]
  /\ UNCHANGED <<status, chunks, stored, api>>

Inserted(j) == IF job[j].found
               THEN {[doc |-> Of(j), job |-> j, try |-> job[j].try]} ELSE {}

\* Fault: the row is written as a whole, so that a deleted one comes back.
CommitResurrecting(j) ==
  /\ job[j].pc = "replacing"
  /\ chunks' = (chunks \ job[j].doomed) \cup Inserted(j)
  /\ status' = [status EXCEPT ![Of(j)] = "ready"]
  /\ job' = [job EXCEPT ![j].pc = "committed", ![j].doomed = {}]
  /\ UNCHANGED <<stored, api>>

\* INSERT, UPDATE ... SET status = 'ready', COMMIT.  The foreign key rejects
\* chunks of a document that is gone; without chunks the UPDATE finds no row.
CommitChunks(j) ==
  /\ job[j].pc = "replacing" /\ (Exists(Of(j)) \/ ~job[j].found)
  /\ chunks' = (chunks \ job[j].doomed) \cup Inserted(j)
  /\ status' = [status EXCEPT ![Of(j)] = IF Exists(Of(j)) THEN "ready" ELSE @]
  /\ job' = [job EXCEPT ![j].pc = "committed", ![j].doomed = {}]
  /\ UNCHANGED <<stored, api>>

\* Anything in the try block raises; its transaction rolls back.
Raise(j) ==
  /\ job[j].pc \in {"reading", "loading", "embedded", "replacing"}
  /\ Leave(j, "failing")
  /\ UNCHANGED <<status, chunks, stored, api>>

\* _mark_failed: read again, then commit.
FailRead(j) ==
  /\ job[j].pc = "failing"
  /\ \/ /\ Exists(Of(j))
        /\ job' = [job EXCEPT ![j].pc = "recording", ![j].saw = status[Of(j)]]
     \/ ~Exists(Of(j)) /\ Leave(j, "failed")
  /\ UNCHANGED <<status, chunks, stored, api>>

\* Fault: the failure is set on the object and never committed.
FailUncommitted(j) ==
  /\ job[j].pc = "recording" /\ Leave(j, "failed")
  /\ UNCHANGED <<status, chunks, stored, api>>

FailCommit(j) ==
  /\ job[j].pc = "recording" /\ Leave(j, "failed")
  /\ status' = [status EXCEPT ![Of(j)] =
                  IF Exists(Of(j)) THEN AfterUpdate(@, job[j].saw, "failed") ELSE @]
  /\ UNCHANGED <<chunks, stored, api>>

\* arq writes the result of the job and takes it off the queue.
Acknowledge(j) ==
  /\ job[j].pc = "committed" /\ Leave(j, "done")
  /\ UNCHANGED <<status, chunks, stored, api>>

\* arq cancels the job at its time limit.  CancelledError passes the pipeline's
\* "except Exception": nothing is recorded.  Or _mark_failed itself raises, or the
\* job's connection has lost its tenant (TenantSession) and finds no row.
Cancel(j) ==
  /\ job[j].pc \in Running /\ Leave(j, "abandoned")
  /\ UNCHANGED <<status, chunks, stored, api>>

\* The worker dies or shuts down: arq runs the job again, up to max_tries.
WorkerDies(j) ==
  /\ job[j].pc \in Running \cup {"committed"} /\ Leave(j, "queued")
  /\ UNCHANGED <<status, chunks, stored, api>>

GiveUp(j) ==
  /\ job[j].pc = "queued" /\ job[j].try = MaxTries /\ Leave(j, "abandoned")
  /\ UNCHANGED <<status, chunks, stored, api>>

-----------------------------------------------------------------------------
JobStep(j) ==
  \/ Begin(j) \/ MarkProcessing(j) \/ Load(j) \/ DeleteOld(j) \/ CommitChunks(j)
  \/ Raise(j) \/ FailRead(j) \/ FailCommit(j) \/ Acknowledge(j) \/ GiveUp(j)

Next == \E r \in Request :
  \/ \E d \in Doc : Create(r, d) \/ ReindexRead(r, d) \/ Delete(r, d)
  \/ StoreSource(r) \/ Enqueue(r) \/ ReindexCommit(r) \/ Unlink(r) \/ LoseRequest(r)
  \/ JobStep(r) \/ Cancel(r) \/ WorkerDies(r)

Spec == Init /\ [][Next]_vars

\* A worker is there, and what a job awaits returns or raises.
FairSpec == Spec /\ \A j \in Request : WF_vars(JobStep(j))

-----------------------------------------------------------------------------
(* Correctness.                                                             *)

TypeOK ==
  /\ status \in [Doc -> Status] /\ chunks \subseteq Chunks /\ stored \subseteq Doc
  /\ api \in [Request -> ApiState] /\ job \in [Request -> JobState]

\* A job that is delivered again, also after it had committed, leaves the
\* chunks of one run.
RedeliveryIsIdempotent ==
  \A c1, c2 \in chunks : c1.job = c2.job => c1 = c2

\* A document that has been indexed from a file can be indexed again: its source
\* is still there, wherever a deletion or an upload breaks off.
ReadyHasSource ==
  \A d \in Doc \ UrlDoc : status[d] = "ready" => d \in stored

\* A document is left pending or processing only by a request or a job that was
\* lost; otherwise some request or job will still settle it.
Responsible(r) == api[r].pc \in {"storing", "enqueueing"} \/ job[r].pc \in Live
Lost(r) == api[r].pc = "lost" \/ job[r].pc = "abandoned"
StrandedOnlyByLoss ==
  \A d \in Doc : status[d] \in {"pending", "processing"} =>
    \E r \in Request : Of(r) = d /\ (Responsible(r) \/ Lost(r))

\* A queued document leaves pending unless its job is abandoned.
LeavesPending ==
  \A j \in Request, d \in Doc :
    job[j].pc = "queued" /\ Of(j) = d /\ status[d] = "pending" ~>
      job[j].pc = "abandoned" \/ status[d] # "pending"

\* Refinement: the knowledge base as retrieval sees it.
Shown(s) == IF s \in {"pending", "processing"} THEN "indexing" ELSE s

Base == INSTANCE KnowledgeBase
  WITH Content <- Chunks, state <- [d \in Doc |-> Shown(status[d])],
       content <- [d \in Doc |-> ChunksOf(d)]
IsKnowledgeBase == Base!KBSpec
=============================================================================
