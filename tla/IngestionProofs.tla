-------------------------- MODULE IngestionProofs --------------------------
(* What TLAPS proves of Ingestion, for any calls, documents and retries:    *)
(* redelivery is idempotent, sources stay, a document is stuck only if a    *)
(* call or job was lost, and the pipeline implements KnowledgeBase.         *)
EXTENDS Ingestion, TLAPS

-----------------------------------------------------------------------------
(* The inductive invariant.                                                 *)

\* A call has no document before it starts and no job before it has enqueued one.
RequestOK(r) ==
  /\ api[r].pc = "idle" => Of(r) = NoDoc
  /\ api[r].pc # "idle" => Of(r) \in Doc /\ status[Of(r)] # "absent"
  /\ api[r].pc # "over" => job[r].pc = "none"
  /\ api[r].pc = "unlinking" => status[Of(r)] = "deleted"

\* A job that has loaded its source has one, and one that is about to replace
\* chunks knows all that it inserted in an earlier try.
JobOK(j) ==
  /\ job[j].pc \in Running => job[j].try \in 1..MaxTries
  /\ job[j].pc \in {"embedded", "replacing"} /\ Exists(Of(j)) => Of(j) \in stored \cup UrlDoc
  /\ job[j].pc = "replacing" =>
       /\ \A c \in job[j].doomed : c.doc = Of(j)
       /\ \A c \in chunks : c.job = j => c \in job[j].doomed

ChunksOwned == \A c \in chunks : Exists(c.doc) /\ c.doc = Of(c.job)

\* Who will take a document out of pending and processing, or was lost on the way.
WillSettle(r) ==
  \/ api[r].pc \in {"storing", "enqueueing"} \/ Lost(r)
  \/ job[r].pc \in {"queued", "reading", "loading", "embedded", "replacing", "failing"}
  \/ job[r].pc = "recording" /\ job[r].saw # "failed"

Unsettled(d) == status[d] \in {"pending", "processing"}
SomeoneSettles == \A d \in Doc : Unsettled(d) => \E r \in Request : Of(r) = d /\ WillSettle(r)

IngInv ==
  /\ TypeOK /\ ChunksOwned /\ RedeliveryIsIdempotent /\ ReadyHasSource /\ SomeoneSettles
  /\ \A r \in Request : RequestOK(r) /\ JobOK(r)

LEMMA InitOK == Init => IngInv
<1> SUFFICES ASSUME Init PROVE IngInv
  OBVIOUS
<1>1. TypeOK
  BY IngestionAssumption DEF Init, TypeOK, Status, ApiState, JobState, NoJob
<1>2. ChunksOwned /\ RedeliveryIsIdempotent /\ ReadyHasSource /\ SomeoneSettles
  BY DEF Init, ChunksOwned, RedeliveryIsIdempotent, ReadyHasSource, SomeoneSettles, Unsettled
<1>3. ASSUME NEW r \in Request PROVE RequestOK(r) /\ JobOK(r)
  BY DEF Init, RequestOK, JobOK, NoJob, Running, Of
<1> QED
  BY <1>1, <1>2, <1>3 DEF IngInv

-----------------------------------------------------------------------------
(* Types.                                                                   *)

LEMMA LeaveType ==
  ASSUME TypeOK, NEW j \in Request, NEW p \in {"queued"} \cup Settled \cup {"failing"}, Leave(j, p)
  PROVE  job' \in [Request -> JobState]
<1>1. job[j] \in JobState /\ job \in [Request -> JobState]
  BY DEF TypeOK
<1>2. [NoJob EXCEPT !.pc = p, !.try = job[j].try] \in JobState
  BY <1>1, IngestionAssumption DEF JobState, NoJob, Live, Settled, Running, Status
<1> QED
  BY <1>1, <1>2 DEF Leave

LEMMA NewJobType == [NoJob EXCEPT !.pc = "queued"] \in JobState
<1>1. 0 \in 0..MaxTries /\ {} \in SUBSET Chunks /\ FALSE \in BOOLEAN
  BY IngestionAssumption
<1>2. "queued" \in {"none"} \cup Live \cup Settled /\ "absent" \in Status
  BY DEF Live, Status
<1> QED
  BY <1>1, <1>2 DEF NoJob, JobState

\* A call that moves on keeps its document.
LEMMA StepType ==
  ASSUME TypeOK, NEW r \in Request,
         NEW p \in {"storing", "enqueueing", "unlinking", "over", "lost"}, Step(r, p)
  PROVE  api' \in [Request -> ApiState]
<1>1. api \in [Request -> ApiState]
  BY DEF TypeOK
<1>2. api' = [api EXCEPT ![r] = [api[r] EXCEPT !.pc = p, !.saw = "absent"]]
  BY <1>1 DEF Step
<1>3. [api[r] EXCEPT !.pc = p, !.saw = "absent"] \in ApiState
  BY <1>1 DEF ApiState, Status
<1> QED
  BY <1>1, <1>2, <1>3

LEMMA ApiTypes ==
  ASSUME IngInv, NEW r \in Request,
         \/ \E d \in Doc : Create(r, d) \/ ReindexRead(r, d) \/ Delete(r, d)
         \/ StoreSource(r) \/ Enqueue(r) \/ ReindexCommit(r) \/ Unlink(r) \/ LoseRequest(r)
  PROVE  TypeOK'
<1> TypeOK /\ RequestOK(r)
  BY DEF IngInv
<1>1. ASSUME NEW d \in Doc, Create(r, d) PROVE TypeOK'
  BY <1>1 DEF Create, TypeOK, Status, ApiState
<1>2. ASSUME NEW d \in Doc, ReindexRead(r, d) PROVE TypeOK'
  BY <1>2 DEF ReindexRead, TypeOK, ApiState
<1>3. ASSUME NEW d \in Doc, Delete(r, d) PROVE TypeOK'
  BY <1>3 DEF Delete, TypeOK, Status, ApiState
<1>4. CASE StoreSource(r)
  <2>1. api' \in [Request -> ApiState] /\ Of(r) \in Doc
    BY <1>4, StepType DEF StoreSource, RequestOK
  <2> QED
    BY <1>4, <2>1 DEF StoreSource, TypeOK
<1>5. CASE Enqueue(r)
  <2>1. api' \in [Request -> ApiState]
    BY <1>5, StepType DEF Enqueue
  <2> QED
    BY <1>5, <2>1, NewJobType DEF Enqueue, TypeOK
<1>6. CASE ReindexCommit(r)
  <2>1. api' \in [Request -> ApiState]
    BY <1>6, StepType DEF ReindexCommit
  <2>2. status' \in [Doc -> Status]
    BY <1>6 DEF ReindexCommit, AfterUpdate, TypeOK, Status
  <2> QED
    BY <1>6, <2>1, <2>2 DEF ReindexCommit, TypeOK
<1>7. CASE Unlink(r)
  <2>1. api' \in [Request -> ApiState]
    BY <1>7, StepType DEF Unlink
  <2> QED
    BY <1>7, <2>1 DEF Unlink, TypeOK
<1>8. CASE LoseRequest(r)
  <2>1. api' \in [Request -> ApiState]
    BY <1>8, StepType DEF LoseRequest
  <2> QED
    BY <1>8, <2>1 DEF LoseRequest, TypeOK
<1> QED
  BY <1>1, <1>2, <1>3, <1>4, <1>5, <1>6, <1>7, <1>8

LEMMA JobTypes ==
  ASSUME IngInv, NEW j \in Request, JobStep(j) \/ Cancel(j) \/ WorkerDies(j)
  PROVE  TypeOK'
<1> TypeOK /\ RequestOK(j) /\ JobOK(j)
  BY DEF IngInv
<1>0. job[j] \in JobState /\ Of(j) \in Doc \cup {NoDoc} /\ job \in [Request -> JobState]
  BY DEF TypeOK, ApiState, Of
<1>1. ASSUME NEW p \in {"queued"} \cup Settled \cup {"failing"}, Leave(j, p),
             UNCHANGED <<chunks, stored, api>>, status' \in [Doc -> Status]
      PROVE  TypeOK'
  BY <1>1, LeaveType DEF TypeOK
<1>2. status \in [Doc -> Status]
  BY DEF TypeOK
<1>3. CASE Begin(j)
  <2>1. CASE Leave(j, "failed")
    BY <1>1, <1>2, <1>3, <2>1 DEF Begin, Settled
  <2>2. CASE job' = [job EXCEPT ![j].pc = "reading", ![j].try = @ + 1, ![j].saw = status[Of(j)]]
             /\ Exists(Of(j))
    <3>1. Of(j) \in Doc /\ status[Of(j)] \in Status
      BY <1>0, <1>2, <1>3 DEF Begin, RequestOK
    <3>2. job[j].try + 1 \in 0..MaxTries
      BY <1>0, <1>3, IngestionAssumption DEF Begin, JobState
    <3>3. job' \in [Request -> JobState]
      BY <1>0, <2>2, <3>1, <3>2 DEF JobState, Live, Running
    <3> QED
      BY <1>3, <3>3 DEF Begin, TypeOK
  <2> QED
    BY <1>3, <2>1, <2>2 DEF Begin
<1>4. CASE MarkProcessing(j)
  <2>1. job' \in [Request -> JobState]
    BY <1>0, <1>4 DEF MarkProcessing, JobState, Live, Running, Status
  <2>2. status' \in [Doc -> Status]
    BY <1>2, <1>4 DEF MarkProcessing, AfterUpdate, Status
  <2> QED
    BY <1>4, <2>1, <2>2 DEF MarkProcessing, TypeOK
<1>5. CASE Load(j)
  <2>0. PICK found \in BOOLEAN : job' = [job EXCEPT ![j].pc = "embedded", ![j].found = found]
    BY <1>5 DEF Load
  <2>1. job' \in [Request -> JobState]
    BY <1>0, <2>0 DEF JobState, Live, Running
  <2> QED
    BY <1>5, <2>1 DEF Load, TypeOK
<1>6. CASE DeleteOld(j)
  <2>1. ChunksOf(Of(j)) \subseteq Chunks
    BY DEF TypeOK, ChunksOf
  <2>2. job' \in [Request -> JobState]
    BY <1>0, <1>6, <2>1 DEF DeleteOld, JobState, Live, Running
  <2> QED
    BY <1>6, <2>2 DEF DeleteOld, TypeOK
<1>7. CASE CommitChunks(j)
  <2>1. Inserted(j) \subseteq Chunks
    BY <1>0, <1>7 DEF CommitChunks, Inserted, Chunks, JobOK, Running, RequestOK
  <2>2. job' \in [Request -> JobState]
    BY <1>0, <1>7 DEF CommitChunks, JobState, Live
  <2>3. status' \in [Doc -> Status]
    BY <1>2, <1>7 DEF CommitChunks, Status
  <2> QED
    BY <1>7, <2>1, <2>2, <2>3 DEF CommitChunks, TypeOK
<1>8. CASE Raise(j)
  BY <1>1, <1>2, <1>8 DEF Raise
<1>9. CASE FailRead(j)
  <2>1. CASE Leave(j, "failed")
    BY <1>1, <1>2, <1>9, <2>1 DEF FailRead, Settled
  <2>2. CASE job' = [job EXCEPT ![j].pc = "recording", ![j].saw = status[Of(j)]] /\ Exists(Of(j))
    <3>1. Of(j) \in Doc /\ status[Of(j)] \in Status
      BY <1>0, <1>2, <1>9 DEF FailRead, RequestOK
    <3>2. job' \in [Request -> JobState]
      BY <1>0, <2>2, <3>1 DEF JobState, Live, Running
    <3> QED
      BY <1>9, <3>2 DEF FailRead, TypeOK
  <2> QED
    BY <1>9, <2>1, <2>2 DEF FailRead
<1>10. CASE FailCommit(j)
  <2>1. status' \in [Doc -> Status]
    BY <1>2, <1>10 DEF FailCommit, AfterUpdate, Status
  <2> QED
    BY <1>1, <1>10, <2>1 DEF FailCommit, Settled
<1>11. CASE Acknowledge(j) \/ Cancel(j) \/ WorkerDies(j) \/ GiveUp(j)
  BY <1>1, <1>2, <1>11 DEF Acknowledge, Cancel, WorkerDies, GiveUp, Settled
<1> QED
  BY <1>3, <1>4, <1>5, <1>6, <1>7, <1>8, <1>9, <1>10, <1>11 DEF JobStep

-----------------------------------------------------------------------------
(* Steps that leave the chunks alone.                                       *)

\* One call or job moves, and at most its own document changes its status.
LEMMA QuietStep ==
  ASSUME IngInv, TypeOK', NEW r \in Request, UNCHANGED chunks,
         \A s \in Request \ {r} : api'[s] = api[s] /\ job'[s] = job[s],
         Of(r)' = Of(r) \/ api[r].pc = "idle",
         RequestOK(r)', JobOK(r)',
         \A d \in Doc :
           /\ d \in stored /\ Exists(d) => d \in stored'
           /\ d # Of(r)' => status'[d] = status[d]
           /\ status'[d] = "absent" => status[d] = "absent"
           /\ status[d] = "deleted" => status'[d] = "deleted"
           /\ Exists(d) => Exists(d)'
           /\ Exists(d)' => Exists(d) \/ status[d] = "absent"
           /\ status'[d] = "ready" => status[d] = "ready",
         Of(r)' \in Doc /\ Unsettled(Of(r))' =>
           WillSettle(r)' \/ (~WillSettle(r) /\ status'[Of(r)'] = status[Of(r)'])
  PROVE  IngInv'
<1>1. TypeOK /\ RequestOK(r)
  BY DEF IngInv
<1>2. ASSUME NEW s \in Request PROVE RequestOK(s)' /\ JobOK(s)'
  <2>1. CASE s = r
    BY <2>1
  <2>2. CASE s # r
    <3>1. api'[s] = api[s] /\ job'[s] = job[s] /\ RequestOK(s) /\ JobOK(s) /\ Of(s)' = Of(s)
      BY <2>2 DEF IngInv, Of
    <3>2. RequestOK(s)'
      BY <3>1 DEF RequestOK
    <3>3. job[s].pc \in {"embedded", "replacing"} => Of(s) \in Doc /\ status[Of(s)] # "absent"
      BY <3>1 DEF RequestOK
    <3>4. JobOK(s)'
      BY <3>1, <3>3, <1>1, IngestionAssumption DEF JobOK
    <3> QED
      BY <3>2, <3>4
  <2> QED
    BY <2>1, <2>2
<1>3. ChunksOwned'
  <2> SUFFICES ASSUME NEW c \in chunks PROVE Exists(c.doc)' /\ c.doc = Of(c.job)'
    BY DEF ChunksOwned
  <2>1. c.doc \in Doc /\ c.job \in Request /\ Exists(c.doc) /\ c.doc = Of(c.job)
    BY <1>1 DEF TypeOK, Chunks, IngInv, ChunksOwned
  <2>2. Of(c.job)' = Of(c.job)
    BY <1>1, <2>1, IngestionAssumption DEF RequestOK, Of
  <2> QED
    BY <2>1, <2>2
<1>4. RedeliveryIsIdempotent'
  BY DEF IngInv, RedeliveryIsIdempotent
<1>5. ReadyHasSource'
  BY DEF IngInv, ReadyHasSource, Exists
<1>6. SomeoneSettles'
  <2> SUFFICES ASSUME NEW d \in Doc, Unsettled(d)' PROVE \E s \in Request : Of(s)' = d /\ WillSettle(s)'
    BY DEF SomeoneSettles
  <2>1. CASE d = Of(r)' /\ WillSettle(r)'
    BY <2>1
  <2>2. CASE ~(d = Of(r)' /\ WillSettle(r)')
    <3>1. status'[d] = status[d] /\ ~(d = Of(r)' /\ WillSettle(r))
      BY <2>2 DEF Unsettled
    <3>2. PICK s \in Request : Of(s) = d /\ WillSettle(s)
      BY <3>1 DEF IngInv, SomeoneSettles, Unsettled
    <3>3. s # r
      BY <1>1, <3>1, <3>2, IngestionAssumption DEF RequestOK
    <3>4. Of(s)' = d /\ WillSettle(s)'
      BY <3>2, <3>3 DEF WillSettle, Lost, Of
    <3> QED
      BY <3>4
  <2> QED
    BY <2>1, <2>2
<1> QED
  BY <1>2, <1>3, <1>4, <1>5, <1>6 DEF IngInv

LEMMA ApiSteps ==
  ASSUME IngInv, NEW r \in Request,
         \/ \E d \in Doc : Create(r, d) \/ ReindexRead(r, d)
         \/ StoreSource(r) \/ Enqueue(r) \/ ReindexCommit(r) \/ Unlink(r) \/ LoseRequest(r)
  PROVE  IngInv'
<1>1. TypeOK' /\ TypeOK /\ RequestOK(r) /\ JobOK(r)
  BY ApiTypes DEF IngInv
<1>2. api[r] \in ApiState /\ api \in [Request -> ApiState] /\ job \in [Request -> JobState]
  BY <1>1 DEF TypeOK
<1> USE <1>1, <1>2 DEF RequestOK, JobOK, WillSettle, Unsettled, Exists, Of
<1>3. ASSUME NEW d \in Doc, Create(r, d) PROVE IngInv'
  <2>1. api' = [api EXCEPT ![r] = api'[r]] /\ Of(r)' = d /\ UNCHANGED <<chunks, stored, job>>
        /\ api'[r].pc \in {"storing", "enqueueing"}
    BY <1>3 DEF Create
  <2>2. status' = [status EXCEPT ![d] = "pending"] /\ status[d] = "absent"
    BY <1>3 DEF Create
  <2>3. RequestOK(r)' /\ JobOK(r)' /\ WillSettle(r)'
    BY <1>3, <2>1, <2>2 DEF Create, TypeOK, Running
  <2> QED
    BY <1>3, <2>1, <2>2, <2>3, QuietStep DEF Create, TypeOK
<1>4. ASSUME NEW d \in Doc, ReindexRead(r, d) PROVE IngInv'
  <2>1. api'[r] = [pc |-> "loaded", doc |-> d, saw |-> status[d]] /\ api[r].pc = "idle"
        /\ UNCHANGED <<status, chunks, stored, job>> /\ status[d] # "absent"
        /\ \A s \in Request \ {r} : api'[s] = api[s]
    BY <1>4 DEF ReindexRead
  <2>2. RequestOK(r)' /\ JobOK(r)' /\ ~WillSettle(r)
    BY <2>1 DEF Running, Lost
  <2> QED
    BY <2>1, <2>2, QuietStep
<1>5. CASE StoreSource(r)
  <2>1. api'[r].pc = "enqueueing" /\ Of(r)' = Of(r) /\ api[r].pc = "storing"
        /\ UNCHANGED <<status, chunks, job>> /\ stored \subseteq stored'
        /\ \A s \in Request \ {r} : api'[s] = api[s]
    BY <1>5 DEF StoreSource, Step, ApiState
  <2>2. RequestOK(r)' /\ JobOK(r)' /\ WillSettle(r)'
    BY <2>1 DEF Running
  <2> QED
    BY <2>1, <2>2, QuietStep
<1>6. CASE Enqueue(r)
  <2>1. api'[r].pc = "over" /\ Of(r)' = Of(r) /\ api[r].pc = "enqueueing"
        /\ UNCHANGED <<status, chunks, stored>> /\ job'[r].pc = "queued"
        /\ \A s \in Request \ {r} : api'[s] = api[s] /\ job'[s] = job[s]
    BY <1>6 DEF Enqueue, Step, ApiState, NoJob
  <2>2. RequestOK(r)' /\ JobOK(r)' /\ WillSettle(r)'
    BY <2>1 DEF Running
  <2> QED
    BY <2>1, <2>2, QuietStep
<1>7. CASE ReindexCommit(r)
  <2>1. api'[r].pc = "enqueueing" /\ Of(r)' = Of(r) /\ api[r].pc = "loaded"
        /\ UNCHANGED <<chunks, stored, job>>
        /\ \A s \in Request \ {r} : api'[s] = api[s]
    BY <1>7 DEF ReindexCommit, Step, ApiState
  <2>2. \/ UNCHANGED status
        \/ Exists(Of(r)) /\ status' = [status EXCEPT ![Of(r)] = "pending"]
    BY <1>7 DEF ReindexCommit, AfterUpdate, TypeOK
  <2>3. RequestOK(r)' /\ JobOK(r)' /\ WillSettle(r)'
    BY <2>1, <2>2 DEF Running, TypeOK
  <2> QED
    BY <2>1, <2>2, <2>3, QuietStep DEF TypeOK
<1>8. CASE Unlink(r)
  <2>1. api'[r].pc = "over" /\ Of(r)' = Of(r) /\ api[r].pc = "unlinking"
        /\ UNCHANGED <<status, chunks, job>> /\ stored' = stored \ {Of(r)}
        /\ \A s \in Request \ {r} : api'[s] = api[s]
    BY <1>8 DEF Unlink, Step, ApiState
  <2>2. RequestOK(r)' /\ JobOK(r)' /\ status[Of(r)] = "deleted"
    BY <2>1 DEF Running
  <2> QED
    BY <2>1, <2>2, QuietStep
<1>9. CASE LoseRequest(r)
  <2>1. api'[r].pc = "lost" /\ Of(r)' = Of(r) /\ api[r].pc # "idle" /\ job[r].pc = "none"
        /\ UNCHANGED <<status, chunks, stored, job>>
        /\ \A s \in Request \ {r} : api'[s] = api[s]
    BY <1>9 DEF LoseRequest, Step, ApiState
  <2>2. RequestOK(r)' /\ JobOK(r)' /\ WillSettle(r)'
    BY <2>1 DEF Running, Lost
  <2> QED
    BY <2>1, <2>2, QuietStep
<1> QED
  BY <1>3, <1>4, <1>5, <1>6, <1>7, <1>8, <1>9

LEMMA JobSteps ==
  ASSUME IngInv, NEW j \in Request, JobStep(j) \/ Cancel(j) \/ WorkerDies(j), ~CommitChunks(j)
  PROVE  IngInv'
<1>1. TypeOK' /\ TypeOK /\ RequestOK(j) /\ JobOK(j)
  BY JobTypes DEF IngInv
<1>2. job[j] \in JobState /\ job \in [Request -> JobState] /\ status \in [Doc -> Status]
  BY <1>1 DEF TypeOK
<1>3. UNCHANGED <<chunks, stored, api>> /\ job[j].pc # "none"
      /\ \A s \in Request \ {j} : job'[s] = job[s]
  <2> USE <1>2 DEF Leave, Running
  <2>1. CASE Begin(j) \/ MarkProcessing(j) \/ Load(j) \/ DeleteOld(j)
    BY <2>1 DEF Begin, MarkProcessing, Load, DeleteOld
  <2>2. CASE Raise(j) \/ FailRead(j) \/ FailCommit(j)
    BY <2>2 DEF Raise, FailRead, FailCommit
  <2>3. CASE Acknowledge(j) \/ GiveUp(j) \/ Cancel(j) \/ WorkerDies(j)
    BY <2>3 DEF Acknowledge, GiveUp, Cancel, WorkerDies
  <2> QED
    BY <2>1, <2>2, <2>3 DEF JobStep
<1>4. Of(j)' = Of(j) /\ Of(j) \in Doc /\ status[Of(j)] # "absent" /\ api[j].pc = "over"
  BY <1>1, <1>3 DEF RequestOK, Of
\* The steps after which the coroutine is over.
<1>5. ASSUME NEW p \in {"queued"} \cup Settled \cup {"failing"}, Leave(j, p), UNCHANGED status,
             p = "failing" => job[j].try \in 1..MaxTries,
             Unsettled(Of(j)) /\ WillSettle(j) => p \in {"queued", "failing", "abandoned"}
      PROVE  IngInv'
  <2>1. job'[j].pc = p /\ job'[j].try = job[j].try
    BY <1>2, <1>5 DEF Leave, NoJob
  <2>2. RequestOK(j)' /\ JobOK(j)'
    BY <1>1, <1>3, <1>4, <2>1, <1>5 DEF RequestOK, JobOK, Running, Settled, Of
  <2>3. Unsettled(Of(j))' => WillSettle(j)' \/ ~WillSettle(j)
    BY <1>3, <1>4, <1>5, <2>1 DEF WillSettle, Lost, Unsettled
  <2> QED
    BY <1>1, <1>3, <1>4, <1>5, <2>2, <2>3, QuietStep DEF Exists
<1>6. CASE Begin(j)
  <2>1. CASE ~Exists(Of(j))
    BY <1>5, <1>6, <2>1 DEF Begin, Exists, Unsettled, Settled
  <2>2. CASE Exists(Of(j))
    <3>1. job'[j].pc = "reading" /\ job'[j].try \in 1..MaxTries /\ UNCHANGED status
      BY <1>2, <1>6, <2>2, IngestionAssumption DEF Begin, JobState
    <3>2. RequestOK(j)' /\ JobOK(j)' /\ WillSettle(j)'
      BY <1>1, <1>3, <1>4, <3>1 DEF RequestOK, JobOK, WillSettle, Of
    <3> QED
      BY <1>1, <1>3, <1>4, <3>1, <3>2, QuietStep DEF Exists
  <2> QED
    BY <2>1, <2>2
<1>7. CASE MarkProcessing(j)
  <2>1. job'[j].pc = "loading" /\ job'[j].try = job[j].try /\ job[j].pc = "reading"
    BY <1>2, <1>7 DEF MarkProcessing, JobState
  <2>2. \/ UNCHANGED status
        \/ Exists(Of(j)) /\ status' = [status EXCEPT ![Of(j)] = "processing"]
    BY <1>2, <1>4, <1>7 DEF MarkProcessing, AfterUpdate
  <2>3. RequestOK(j)' /\ JobOK(j)' /\ WillSettle(j)'
    BY <1>1, <1>2, <1>3, <1>4, <2>1, <2>2 DEF RequestOK, JobOK, WillSettle, Of, Running
  <2> QED
    BY <1>1, <1>2, <1>3, <1>4, <2>1, <2>2, <2>3, QuietStep DEF Exists
<1>8. CASE Load(j)
  <2>1. job'[j].pc = "embedded" /\ job'[j].try = job[j].try /\ job[j].pc = "loading"
        /\ UNCHANGED status /\ Of(j) \in stored \cup UrlDoc
    BY <1>2, <1>8 DEF Load, JobState
  <2>2. RequestOK(j)' /\ JobOK(j)' /\ WillSettle(j)'
    BY <1>1, <1>3, <1>4, <2>1 DEF RequestOK, JobOK, WillSettle, Of, Running
  <2> QED
    BY <1>1, <1>3, <1>4, <2>1, <2>2, QuietStep DEF Exists
<1>9. CASE DeleteOld(j)
  <2>1. job'[j].pc = "replacing" /\ job'[j].try = job[j].try /\ job[j].pc = "embedded"
        /\ job'[j].doomed = ChunksOf(Of(j)) /\ UNCHANGED status
    BY <1>2, <1>9 DEF DeleteOld, JobState
  <2>2. \A c \in chunks : c.job = j => c \in ChunksOf(Of(j))
    BY DEF IngInv, ChunksOwned, ChunksOf
  <2>3. JobOK(j)'
    BY <1>1, <1>3, <1>4, <2>1, <2>2 DEF JobOK, Running, ChunksOf, Exists
  <2>4. RequestOK(j)' /\ WillSettle(j)'
    BY <1>1, <1>3, <1>4, <2>1 DEF RequestOK, WillSettle, Of
  <2> QED
    BY <1>1, <1>3, <1>4, <2>1, <2>3, <2>4, QuietStep DEF Exists
<1>10. CASE Raise(j) \/ Acknowledge(j) \/ Cancel(j) \/ WorkerDies(j) \/ GiveUp(j)
  <2>1. CASE Acknowledge(j)
    <3>1. ~WillSettle(j)
      BY <1>4, <2>1 DEF Acknowledge, WillSettle, Lost
    <3> QED
      BY <1>5, <2>1, <3>1 DEF Acknowledge, Settled
  <2>2. CASE Raise(j) \/ Cancel(j) \/ WorkerDies(j) \/ GiveUp(j)
    BY <1>1, <1>5, <2>2 DEF Raise, Cancel, WorkerDies, GiveUp, Settled, JobOK, Running
  <2> QED
    BY <1>10, <2>1, <2>2
<1>11. CASE FailRead(j)
  <2>1. CASE ~Exists(Of(j))
    BY <1>5, <1>11, <2>1 DEF FailRead, Exists, Unsettled, Settled
  <2>2. CASE Exists(Of(j))
    <3>1. job'[j].pc = "recording" /\ job'[j].saw = status[Of(j)] /\ job'[j].try = job[j].try
          /\ job[j].pc = "failing" /\ UNCHANGED status
      BY <1>2, <1>11, <2>2 DEF FailRead, JobState
    <3>2. RequestOK(j)' /\ JobOK(j)' /\ (Unsettled(Of(j))' => WillSettle(j)')
      BY <1>1, <1>3, <1>4, <3>1 DEF RequestOK, JobOK, WillSettle, Unsettled, Of, Running
    <3> QED
      BY <1>1, <1>3, <1>4, <3>1, <3>2, QuietStep DEF Exists
  <2> QED
    BY <2>1, <2>2
<1>12. CASE FailCommit(j)
  <2>1. job'[j].pc = "failed" /\ job[j].pc = "recording"
    BY <1>2, <1>12 DEF FailCommit, Leave, NoJob
  <2>2. \/ UNCHANGED status /\ (Exists(Of(j)) => job[j].saw = "failed")
        \/ Exists(Of(j)) /\ status' = [status EXCEPT ![Of(j)] = "failed"]
    BY <1>2, <1>4, <1>12 DEF FailCommit, AfterUpdate
  <2>3. RequestOK(j)' /\ JobOK(j)'
    BY <1>1, <1>2, <1>3, <1>4, <2>1, <2>2 DEF RequestOK, JobOK, Running, Of, Exists
  <2>4. Unsettled(Of(j))' => ~WillSettle(j) /\ status'[Of(j)] = status[Of(j)]
    BY <1>2, <1>3, <1>4, <2>1, <2>2 DEF WillSettle, Lost, Unsettled, Exists
  <2> QED
    BY <1>1, <1>2, <1>3, <1>4, <2>1, <2>2, <2>3, <2>4, QuietStep DEF Exists
<1> QED
  BY <1>6, <1>7, <1>8, <1>9, <1>10, <1>11, <1>12 DEF JobStep

-----------------------------------------------------------------------------
(* The two steps that change the chunks.                                    *)

LEMMA DeleteStep ==
  ASSUME IngInv, NEW r \in Request, NEW d \in Doc, Delete(r, d)
  PROVE  IngInv'
<1>1. TypeOK' /\ TypeOK /\ RequestOK(r)
  BY ApiTypes DEF IngInv
<1>2. /\ api'[r].pc = "unlinking" /\ Of(r)' = d /\ api[r].pc = "idle" /\ job[r].pc = "none"
      /\ UNCHANGED <<stored, job>> /\ chunks' = chunks \ ChunksOf(d)
      /\ status' = [status EXCEPT ![d] = "deleted"] /\ Exists(d)
      /\ \A s \in Request \ {r} : api'[s] = api[s]
  BY <1>1 DEF Delete, TypeOK, Of, RequestOK
<1>3. ASSUME NEW s \in Request PROVE RequestOK(s)' /\ JobOK(s)'
  BY <1>1, <1>2 DEF IngInv, RequestOK, JobOK, Of, Exists, TypeOK, Running
<1>4. ChunksOwned'
  <2> SUFFICES ASSUME NEW c \in chunks \ ChunksOf(d) PROVE Exists(c.doc)' /\ c.doc = Of(c.job)'
    BY <1>2 DEF ChunksOwned
  <2>1. c.doc \in Doc /\ c.job \in Request /\ Exists(c.doc) /\ c.doc = Of(c.job) /\ c.doc # d
    BY <1>1 DEF TypeOK, Chunks, IngInv, ChunksOwned, ChunksOf
  <2>2. c.job # r
    BY <1>1, <1>2, <2>1, IngestionAssumption DEF RequestOK
  <2> QED
    BY <1>1, <1>2, <2>1, <2>2 DEF Exists, Of, TypeOK
<1>5. RedeliveryIsIdempotent'
  BY <1>2 DEF IngInv, RedeliveryIsIdempotent
<1>6. ReadyHasSource'
  BY <1>1, <1>2 DEF IngInv, ReadyHasSource, TypeOK
<1>7. SomeoneSettles'
  <2> SUFFICES ASSUME NEW e \in Doc, Unsettled(e)' PROVE \E s \in Request : Of(s)' = e /\ WillSettle(s)'
    BY DEF SomeoneSettles
  <2>1. Unsettled(e)
    BY <1>1, <1>2 DEF Unsettled, TypeOK
  <2>2. PICK s \in Request : Of(s) = e /\ WillSettle(s)
    BY <2>1 DEF IngInv, SomeoneSettles
  <2>3. s # r
    BY <1>1, <1>2, <2>2, IngestionAssumption DEF RequestOK
  <2> QED
    BY <1>2, <2>2, <2>3 DEF WillSettle, Lost, Of
<1> QED
  BY <1>1, <1>3, <1>4, <1>5, <1>6, <1>7 DEF IngInv

\* What a run that commits does: replace what the document had of its own and of
\* what it found, or nothing if the document is gone.
LEMMA CommitEffect ==
  ASSUME IngInv, NEW j \in Request, CommitChunks(j)
  PROVE  /\ Of(j) \in Doc /\ job[j].pc = "replacing" /\ UNCHANGED <<stored, api>>
         /\ job'[j].pc = "committed" /\ job'[j].try = job[j].try
         /\ \A s \in Request \ {j} : job'[s] = job[s]
         /\ chunks' = (chunks \ job[j].doomed) \cup Inserted(j)
         /\ \A c \in job[j].doomed : c.doc = Of(j)
         /\ \A c \in Inserted(j) : c.doc = Of(j) /\ c.job = j
         /\ Inserted(j) \in {{}} \cup {{x} : x \in Chunks}
         /\ \/ Exists(Of(j)) /\ status' = [status EXCEPT ![Of(j)] = "ready"]
            \/ ~Exists(Of(j)) /\ UNCHANGED <<status, chunks>>
<1>1. TypeOK /\ RequestOK(j) /\ JobOK(j) /\ job[j] \in JobState /\ status \in [Doc -> Status]
  BY DEF IngInv, TypeOK
<1>2. /\ Of(j) \in Doc /\ job[j].pc = "replacing" /\ UNCHANGED <<stored, api>>
      /\ job'[j].pc = "committed" /\ job'[j].try = job[j].try
      /\ \A s \in Request \ {j} : job'[s] = job[s]
      /\ chunks' = (chunks \ job[j].doomed) \cup Inserted(j)
  BY <1>1 DEF CommitChunks, RequestOK, TypeOK, JobState
<1>3. \A c \in job[j].doomed : c.doc = Of(j)
  BY <1>1, <1>2 DEF JobOK
<1>4. Inserted(j) \in {{}} \cup {{x} : x \in Chunks}
      /\ \A c \in Inserted(j) : c.doc = Of(j) /\ c.job = j
  <2>1. [doc |-> Of(j), job |-> j, try |-> job[j].try] \in Chunks
    BY <1>1, <1>2 DEF JobOK, Running, Chunks
  <2> QED
    BY <2>1 DEF Inserted
<1>5. \/ Exists(Of(j)) /\ status' = [status EXCEPT ![Of(j)] = "ready"]
      \/ ~Exists(Of(j)) /\ UNCHANGED <<status, chunks>>
  <2>1. CASE Exists(Of(j))
    BY <2>1 DEF CommitChunks
  <2>2. CASE ~Exists(Of(j))
    <3>1. Inserted(j) = {}
      BY <2>2 DEF CommitChunks, Inserted
    <3>2. chunks \cap job[j].doomed = {}
      BY <1>3, <2>2 DEF IngInv, ChunksOwned
    <3>3. status' = status
      BY <1>1, <2>2 DEF CommitChunks
    <3> QED
      BY <1>2, <2>2, <3>1, <3>2, <3>3
  <2> QED
    BY <2>1, <2>2
<1> QED
  BY <1>2, <1>3, <1>4, <1>5

LEMMA CommitStep ==
  ASSUME IngInv, NEW j \in Request, CommitChunks(j)
  PROVE  IngInv'
<1>1. TypeOK' /\ TypeOK /\ RequestOK(j) /\ JobOK(j) /\ status \in [Doc -> Status]
  BY JobTypes DEF IngInv, TypeOK, JobStep
<1>2. /\ Of(j) \in Doc /\ job[j].pc = "replacing" /\ UNCHANGED <<stored, api>>
      /\ job'[j].pc = "committed" /\ job'[j].try = job[j].try
      /\ \A s \in Request \ {j} : job'[s] = job[s]
      /\ chunks' = (chunks \ job[j].doomed) \cup Inserted(j)
      /\ \A c \in job[j].doomed : c.doc = Of(j)
      /\ \A c \in Inserted(j) : c.doc = Of(j) /\ c.job = j
      /\ Inserted(j) \in {{}} \cup {{x} : x \in Chunks}
      /\ \/ Exists(Of(j)) /\ status' = [status EXCEPT ![Of(j)] = "ready"]
         \/ ~Exists(Of(j)) /\ UNCHANGED <<status, chunks>>
  BY CommitEffect
<1>3. \A d \in Doc : /\ status'[d] = "deleted" <=> status[d] = "deleted"
                     /\ status'[d] = "absent" <=> status[d] = "absent"
                     /\ Exists(d)' <=> Exists(d)
                     /\ Unsettled(d)' => Unsettled(d) /\ d # Of(j)
  BY <1>1, <1>2 DEF Exists, Unsettled
<1>4. ASSUME NEW s \in Request PROVE RequestOK(s)' /\ JobOK(s)'
  <2>1. RequestOK(s) /\ JobOK(s) /\ Of(s)' = Of(s) /\ api'[s] = api[s]
    BY <1>2 DEF IngInv, Of
  <2>2. RequestOK(s)'
    BY <1>2, <1>3, <2>1 DEF RequestOK
  <2>3. CASE s = j
    BY <1>1, <1>2, <2>2, <2>3 DEF JobOK, Running
  <2>4. CASE s # j
    <3>1. job'[s] = job[s] /\ (job[s].pc \in {"embedded", "replacing"} => Of(s) \in Doc)
      BY <1>2, <2>1, <2>4 DEF RequestOK
    <3>2. \A c \in chunks' : c.job = s => c \in chunks
      BY <1>2, <2>4
    <3> QED
      BY <1>2, <1>3, <2>1, <2>2, <3>1, <3>2 DEF JobOK
  <2> QED
    BY <2>3, <2>4
<1>5. ChunksOwned'
  <2> SUFFICES ASSUME NEW c \in chunks' PROVE Exists(c.doc)' /\ c.doc = Of(c.job)'
    BY DEF ChunksOwned
  <2>1. CASE c \in chunks
    <3>1. Exists(c.doc) /\ c.doc = Of(c.job) /\ c.doc \in Doc
      BY <1>1, <2>1 DEF IngInv, ChunksOwned, TypeOK, Chunks
    <3> QED
      BY <1>2, <1>3, <3>1 DEF Of
  <2>2. CASE c \notin chunks
    BY <1>2, <1>3, <2>2 DEF Of
  <2> QED
    BY <2>1, <2>2
<1>6. RedeliveryIsIdempotent'
  <2> SUFFICES ASSUME NEW c1 \in chunks', NEW c2 \in chunks', c1.job = c2.job PROVE c1 = c2
    BY DEF RedeliveryIsIdempotent
  <2>1. CASE c1.job = j
    <3>1. \A c \in chunks : c.job = j => c \in job[j].doomed
      BY <1>1, <1>2 DEF JobOK
    <3>2. c1 \in Inserted(j) /\ c2 \in Inserted(j)
      BY <1>2, <2>1, <3>1
    <3> QED
      BY <1>2, <3>2
  <2>2. CASE c1.job # j
    <3>1. c1 \in chunks /\ c2 \in chunks
      BY <1>2, <2>2
    <3> QED
      BY <3>1 DEF IngInv, RedeliveryIsIdempotent
  <2> QED
    BY <2>1, <2>2
<1>7. ReadyHasSource'
  BY <1>1, <1>2 DEF IngInv, ReadyHasSource, JobOK
<1>8. SomeoneSettles'
  <2> SUFFICES ASSUME NEW d \in Doc, Unsettled(d)' PROVE \E s \in Request : Of(s)' = d /\ WillSettle(s)'
    BY DEF SomeoneSettles
  <2>1. PICK s \in Request : Of(s) = d /\ WillSettle(s)
    BY <1>3 DEF IngInv, SomeoneSettles
  <2>2. s # j
    BY <1>3, <2>1
  <2> QED
    BY <1>2, <2>1, <2>2 DEF WillSettle, Lost, Of
<1> QED
  BY <1>1, <1>4, <1>5, <1>6, <1>7, <1>8 DEF IngInv

-----------------------------------------------------------------------------
(* The theorems.                                                            *)

LEMMA Inductive == IngInv /\ [Next]_vars => IngInv'
<1> SUFFICES ASSUME IngInv, [Next]_vars PROVE IngInv'
  OBVIOUS
<1>1. CASE UNCHANGED vars
  BY <1>1 DEF vars, IngInv, TypeOK, ChunksOwned, RedeliveryIsIdempotent, ReadyHasSource,
              SomeoneSettles, Unsettled, WillSettle, Lost, RequestOK, JobOK, Exists, Of
<1>2. CASE Next
  <2>1. PICK r \in Request :
          \/ \E d \in Doc : Create(r, d) \/ ReindexRead(r, d) \/ Delete(r, d)
          \/ StoreSource(r) \/ Enqueue(r) \/ ReindexCommit(r) \/ Unlink(r) \/ LoseRequest(r)
          \/ JobStep(r) \/ Cancel(r) \/ WorkerDies(r)
    BY <1>2 DEF Next
  <2>2. CASE JobStep(r) \/ Cancel(r) \/ WorkerDies(r)
    BY <2>2, JobSteps, CommitStep
  <2>3. CASE \E d \in Doc : Delete(r, d)
    BY <2>3, DeleteStep
  <2> QED
    BY <2>1, <2>2, <2>3, ApiSteps
<1> QED
  BY <1>1, <1>2

\* The inductive invariant of the endpoints, the queue and run_ingestion.
THEOREM IngestionInvariant == Spec => []IngInv
<1> QED
  BY InitOK, Inductive, PTL DEF Spec

\* A job that arq delivers again leaves the chunks of one run.
THEOREM RedeliveredOnce == Spec => []RedeliveryIsIdempotent
<1>1. IngInv => RedeliveryIsIdempotent
  BY DEF IngInv
<1> QED
  BY <1>1, IngestionInvariant, PTL

\* What has been indexed from a file can be indexed again.
THEOREM SourcesStay == Spec => []ReadyHasSource
<1>1. IngInv => ReadyHasSource
  BY DEF IngInv
<1> QED
  BY <1>1, IngestionInvariant, PTL

\* A document is left pending or processing only by a lost call or job.
THEOREM OnlyLossStrands == Spec => []StrandedOnlyByLoss
<1>1. IngInv => StrandedOnlyByLoss
  BY DEF IngInv, SomeoneSettles, Unsettled, StrandedOnlyByLoss, WillSettle, Responsible, Live, Running
<1> QED
  BY <1>1, IngestionInvariant, PTL

-----------------------------------------------------------------------------
(* The refinement: each step is one of KnowledgeBase, or changes nothing     *)
(* that retrieval sees.                                                      *)

States == [d \in Doc |-> Shown(status[d])]
Contents == [d \in Doc |-> ChunksOf(d)]

LEMMA SeenAlike == UNCHANGED <<status, chunks>> => UNCHANGED <<States, Contents>>
BY DEF States, Contents, ChunksOf

\* A step that gives one document another status.
LEMMA StatusSeen ==
  ASSUME NEW d \in Doc, NEW new \in Status, status \in [Doc -> Status],
         status' = [status EXCEPT ![d] = new], UNCHANGED chunks
  PROVE  States' = [States EXCEPT ![d] = Shown(new)] /\ UNCHANGED Contents
BY DEF States, Contents, ChunksOf

LEMMA BaseInit == Init => Base!KBInit
BY DEF Init, Base!KBInit, Shown, ChunksOf

\* What the actions of KnowledgeBase are under the refinement mapping.
LEMMA BaseActions ==
  ASSUME NEW d \in Doc
  PROVE  /\ status[d] = "absent" /\ UNCHANGED Contents
            /\ States' = [States EXCEPT ![d] = "indexing"] => Base!KBNext
         /\ Exists(d) /\ UNCHANGED Contents
            /\ (\/ States' = [States EXCEPT ![d] = "indexing"]
                \/ States' = [States EXCEPT ![d] = "failed"]) => Base!KBNext
         /\ Exists(d) /\ States' = [States EXCEPT ![d] = "deleted"]
            /\ Contents' = [Contents EXCEPT ![d] = {}] => Base!KBNext
         /\ \A replaced \in SUBSET ChunksOf(d), extracted \in {{}} \cup {{x} : x \in Chunks} :
              /\ Exists(d) /\ States' = [States EXCEPT ![d] = "ready"]
              /\ Contents' = [Contents EXCEPT ![d] = (@ \ replaced) \cup extracted]
              => Base!KBNext
<1>1. States[d] = Shown(status[d]) /\ Contents[d] = ChunksOf(d)
  BY DEF States, Contents
<1>2. ASSUME status[d] = "absent", UNCHANGED Contents, States' = [States EXCEPT ![d] = "indexing"]
      PROVE  Base!KBNext
  BY <1>1, <1>2 DEF Base!KBNext, Base!Add, States, Contents, Shown
<1>3. Exists(d) => Base!Listed(d)
  BY <1>1 DEF Exists, Base!Listed, States, Shown
<1>4. ASSUME Exists(d), UNCHANGED Contents, States' = [States EXCEPT ![d] = "indexing"]
      PROVE  Base!KBNext
  BY <1>3, <1>4 DEF Base!KBNext, Base!StartIndexing, States, Contents
<1>5. ASSUME Exists(d), UNCHANGED Contents, States' = [States EXCEPT ![d] = "failed"]
      PROVE  Base!KBNext
  BY <1>3, <1>5 DEF Base!KBNext, Base!FailIndexing, States, Contents
<1>6. ASSUME Exists(d), States' = [States EXCEPT ![d] = "deleted"],
             Contents' = [Contents EXCEPT ![d] = {}]
      PROVE  Base!KBNext
  BY <1>3, <1>6 DEF Base!KBNext, Base!Remove, States, Contents
<1>7. ASSUME NEW replaced \in SUBSET ChunksOf(d),
             NEW extracted \in {{}} \cup {{x} : x \in Chunks},
             Exists(d), States' = [States EXCEPT ![d] = "ready"],
             Contents' = [Contents EXCEPT ![d] = (@ \ replaced) \cup extracted]
      PROVE  Base!KBNext
  <2>1. Base!Publish(d, extracted)
    BY <1>1, <1>3, <1>7 DEF Base!Publish, States, Contents
  <2> QED
    BY <1>7, <2>1 DEF Base!KBNext
<1> QED
  BY <1>2, <1>4, <1>5, <1>6, <1>7

LEMMA BaseStep == IngInv /\ [Next]_vars => [Base!KBNext]_(Base!kbVars)
<1> SUFFICES ASSUME IngInv, [Next]_vars PROVE Base!KBNext \/ UNCHANGED <<States, Contents>>
  BY DEF Base!kbVars, States, Contents
<1>1. CASE UNCHANGED vars
  BY <1>1, SeenAlike DEF vars
<1>2. CASE Next
  <2>1. PICK r \in Request :
          \/ \E d \in Doc : Create(r, d) \/ ReindexRead(r, d) \/ Delete(r, d)
          \/ StoreSource(r) \/ Enqueue(r) \/ ReindexCommit(r) \/ Unlink(r) \/ LoseRequest(r)
          \/ JobStep(r) \/ Cancel(r) \/ WorkerDies(r)
    BY <1>2 DEF Next
  <2>2. RequestOK(r) /\ status \in [Doc -> Status] /\ job[r] \in JobState
    BY DEF IngInv, TypeOK
  <2>3. ASSUME NEW d \in Doc, Create(r, d) PROVE Base!KBNext
    <3>1. States' = [States EXCEPT ![d] = "indexing"] /\ UNCHANGED Contents
      BY <2>2, <2>3, StatusSeen DEF Create, Status, Shown
    <3> QED
      BY <2>3, <3>1, BaseActions DEF Create
  <2>4. ASSUME NEW d \in Doc, Delete(r, d) PROVE Base!KBNext
    <3>1. States' = [States EXCEPT ![d] = "deleted"]
      BY <2>2, <2>4 DEF Delete, States, Shown
    <3>2. Contents' = [Contents EXCEPT ![d] = {}]
      BY <2>4 DEF Delete, Contents, ChunksOf
    <3> QED
      BY <2>4, <3>1, <3>2, BaseActions DEF Delete
  <2>5. CASE CommitChunks(r)
    <3>1. CASE ~Exists(Of(r))
      BY <2>5, <3>1, CommitEffect, SeenAlike
    <3>2. CASE Exists(Of(r))
      <4> DEFINE d == Of(r)
                 replaced == ChunksOf(d) \cap job[r].doomed
      <4>1. /\ d \in Doc /\ status' = [status EXCEPT ![d] = "ready"]
            /\ chunks' = (chunks \ job[r].doomed) \cup Inserted(r)
            /\ \A c \in job[r].doomed : c.doc = d
            /\ \A c \in Inserted(r) : c.doc = d
            /\ Inserted(r) \in {{}} \cup {{x} : x \in Chunks}
        BY <2>5, <3>2, CommitEffect
      <4>2. States' = [States EXCEPT ![d] = "ready"]
        BY <2>2, <4>1 DEF States, Shown
      <4>3. ASSUME NEW e \in Doc
            PROVE  ChunksOf(e)' = IF e = d THEN (ChunksOf(d) \ replaced) \cup Inserted(r) ELSE ChunksOf(e)
        BY <4>1 DEF ChunksOf
      <4>4. Contents' = [Contents EXCEPT ![d] = (@ \ replaced) \cup Inserted(r)]
        BY <4>1, <4>3 DEF Contents
      <4> QED
        BY <3>2, <4>1, <4>2, <4>4, BaseActions
    <3> QED
      BY <3>1, <3>2
  <2>6. ASSUME NEW new \in {"pending", "processing", "failed"}, Of(r) \in Doc, UNCHANGED chunks,
               \/ UNCHANGED status
               \/ Exists(Of(r)) /\ status' = [status EXCEPT ![Of(r)] = new]
        PROVE  Base!KBNext \/ UNCHANGED <<States, Contents>>
    <3>1. CASE UNCHANGED status
      BY <2>6, <3>1, SeenAlike
    <3>2. CASE Exists(Of(r)) /\ status' = [status EXCEPT ![Of(r)] = new]
      <4>1. States' = [States EXCEPT ![Of(r)] = Shown(new)] /\ UNCHANGED Contents
        BY <2>2, <2>6, <3>2, StatusSeen DEF Status
      <4>2. Shown(new) \in {"indexing", "failed"}
        BY <2>6 DEF Shown
      <4> QED
        BY <2>6, <3>2, <4>1, <4>2, BaseActions
    <3> QED
      BY <2>6, <3>1, <3>2
  <2>7. CASE ReindexCommit(r)
    <3>1. Of(r) \in Doc
      BY <2>2, <2>7 DEF ReindexCommit, RequestOK
    <3> QED
      BY <2>2, <2>6, <2>7, <3>1 DEF ReindexCommit, AfterUpdate
  <2>8. CASE MarkProcessing(r)
    <3>1. Of(r) \in Doc
      BY <2>2, <2>8 DEF MarkProcessing, RequestOK
    <3> QED
      BY <2>2, <2>6, <2>8, <3>1 DEF MarkProcessing, AfterUpdate
  <2>9. CASE FailCommit(r)
    <3>1. Of(r) \in Doc
      BY <2>2, <2>9 DEF FailCommit, RequestOK
    <3> QED
      BY <2>2, <2>6, <2>9, <3>1 DEF FailCommit, AfterUpdate
  <2>10. CASE \/ \E d \in Doc : ReindexRead(r, d)
              \/ StoreSource(r) \/ Enqueue(r) \/ Unlink(r) \/ LoseRequest(r)
    BY <2>10, SeenAlike DEF ReindexRead, StoreSource, Enqueue, Unlink, LoseRequest
  <2>11. CASE \/ Begin(r) \/ Load(r) \/ DeleteOld(r) \/ Raise(r) \/ FailRead(r)
              \/ Acknowledge(r) \/ GiveUp(r) \/ Cancel(r) \/ WorkerDies(r)
    BY <2>11, SeenAlike
       DEF Begin, Load, DeleteOld, Raise, FailRead, Acknowledge, GiveUp, Cancel, WorkerDies
  <2> QED
    BY <2>1, <2>3, <2>4, <2>5, <2>7, <2>8, <2>9, <2>10, <2>11 DEF JobStep
<1> QED
  BY <1>1, <1>2

\* The endpoints, the queue and the pipeline implement the knowledge base that
\* retrieval relies on: content is replaced in one step or not at all, and is gone
\* with its document.
THEOREM ImplementsKnowledgeBase == Spec => IsKnowledgeBase
<1>1. Spec => Base!KBInit /\ [][Base!KBNext]_(Base!kbVars)
  BY BaseInit, BaseStep, IngestionInvariant, PTL DEF Spec
<1> QED
  BY <1>1 DEF IsKnowledgeBase, Base!KBSpec

=============================================================================
