# HelpDeck in TLA+

HelpDeck is a multi-tenant support desk. Customers chat with an agent that answers from the
organization's documents and hands over to people when it cannot; staff upload documents, watch
the inbox and manage each other. The API is FastAPI with one Postgres (row-level security,
pgvector), Redis (answer cache, rate limits, arq queue), an arq worker and a model gateway.

This directory specifies the parts of it whose correctness depends on what happens *between* two
steps (coroutines of one process, the API next to the worker, transactions at READ COMMITTED), and
the chunker and the embedding of its chunks, whose loops are easy to get wrong at their ends.

## How the code is read

* **A step is what other parties cannot see the middle of.** A transaction whose effect depends
  on an earlier read is two steps (the read, the commit), because the engine (`core/db.py`) leaves
  Postgres at its default READ COMMITTED and nothing is locked with `FOR UPDATE`. A transaction
  that writes without having read is one step.
* **SQLAlchemy emits no UPDATE for an attribute set to the value it read** (`expire_on_commit` is
  off): the operator `AfterUpdate(now, read, new)`. An UPDATE of a row that has been deleted
  raises, a DELETE does not.
* **Every awaited call may raise, and every coroutine may be cancelled** at any step; the handler
  of the code decides what is left.
* Texts, vectors, scores and names are abstracted to what the control flow tells apart.
* Definitions keep the names of the source where they can. An operator whose comment starts with
  *Fault* is not part of the specification: it is a variant of the operator after it, with a
  plausible bug, and serves to see that a property notices.

## Inventory

| component | state | operations | hard part | module |
|---|---|---|---|---|
| Chat turn (`routers/chat.py`) | conversations, messages, SSE events | open, persist, cache lookup, stream, settle, store, finish | failure or disconnect between two commits; streaming before the verdict | ChatTurn |
| Agent graph (`agent/`) | agent state, checkpoint per conversation | route, retrieve, answer, judge, gate, respond, escalate | state left by the previous turn; read and commit of the escalation | ChatTurn |
| Inbox (`routers/conversations.py`) | conversation status, escalations | resolve, reply | resolution between SELECT and commit, next to running turns | ChatTurn |
| Widget API (`routers/widget.py`) | csat score, feedback | chat, rate, feedback, public key checks | two ratings at once; a vote and its score in two steps | ChatTurn (rating), WidgetGate (gate, feedback) |
| Demo organization (`services/demo.py`) | conversations of one org | nightly reset, re-ingestion, write guard | deletes rows under running turns | ChatTurn (reset) |
| Answer cache (`services/cache.py`) | answers by question and version | get, set, TTL, version | the version repeats, and is read before retrieval | ResponseCache, ChatTurn |
| Knowledge base and ingestion (`routers/documents.py`, `workers/`, `services/ingestion/pipeline.py`) | documents, chunks, stored files, queue | upload, create, re-index, delete, run, fail, redeliver | at-least-once jobs, overlapping runs, cancellation, worker death | Ingestion, KnowledgeBase |
| Members (`routers/members.py`, `services/members.py`) | memberships, invitations | change role, remove, invite, revoke, accept | checks on rows that change before the commit | Members |
| Tenant isolation (`core/db.py`, RLS migration) | `app.current_tenant` per connection | open tenant session, scope, commit, reset, pool reuse | a setting that outlives its session, or does not outlive its transaction, or dies with its connection | TenantSession |
| API keys (`services/api_keys.py`) | keys, throttle in Redis | create, revoke, verify, touch `last_used_at` | one request touches for many, next to a revocation | WidgetGate |
| Rate limiter (`services/rate_limit.py`) | counters in Redis | read the clock, INCR, EXPIRE | failure between INCR and EXPIRE; a counter that expires under a slow request | WidgetGate |
| Authentication (`routers/auth.py`, `core/security.py`, the web app's `lib/session.ts`, `proxy.ts`) | cookies, tokens, the tabs' sessions | signup, login, me, refresh, logout | calls of several tabs in flight, expiry on the way | Sessions |
| Retrieval, reranking | none | two searches, fusion, rerank | pure; its two reads are in ResponseCache | not modelled |
| Chunker, extractors | none | sections, sentences, overlap, merge | size, overlap and merge at the edges | Chunker |
| Model gateway, embeddings (`services/llm.py`, `services/embeddings.py`) | probe cache of each process, the worker's embedding service | probe, choose a provider, complete, embed in batches, retry | a stale probe; stand-in and real model in one index; the retry loop | Gateway, TextIndex |
| Online evaluation (`workers/online_eval.py`) | eval runs | sample, judge, commit, alert | chunks replaced since the answer; failure in mid-sample; the alert's windows | Nightly |
| Analytics | none | clustering, aggregation | pure | not modelled |
| Widget client (`apps/widget`) | stored conversation id, messages, timers | send, parse the stream, rate, close, reload | late events against a rated conversation; effects that run after the next event; events lost between pieces | WidgetClient |
| Audit log | audit rows | record, list | none: a row in its caller's transaction | in Members' commits |
| Web dashboard | who is signed in, in each tab | | the session; its pages show what the API returns | Sessions |
| Seeding, tracing, evaluation harness, infrastructure | | | none of its own | not modelled |

`PROJECT.json` lists the same components with their files, and the hazards with the line where
each bites and the properties that watch it.

How they meet: a turn reads chunks that ingestion replaces, computes the cache version from the
documents' rows, and writes conversations, messages and escalations that the inbox, a rating and
the demo reset change under it. The API and the worker share nothing but Postgres, the storage
and the queue, and each asks the model server on its own whether it is there. Members decides who
may call any of this, Sessions who is calling from the dashboard, and WidgetGate what a website's
visitors may call.

What makes each part correct:

* **Chat turn**: a turn that ends as handed off has recorded a ticket, and so has one that told its
  customer of a human, unless the conversation was deleted under it, when it ends in an error;
  nobody gets an answer as settled that its own run did not vet; an open stream always gets its
  last event; the transcript has no answer without its question.
* **Cache**: only vetted answers go in; a hit is drawn from what retrieval would find.
* **Ingestion**: chunks belong to documents; a redelivered job changes nothing; a failed run
  leaves what was searchable searchable; a document is stuck only if something was really lost.
* **Members**: owners come from owners, and a change hits the membership it was checked against.
* **Tenant isolation**: a session works on the rows of its own organization, whatever the
  connection it gets was used for before; a job that has lost its connection works on none.
* **Chunker**: no sentence is lost, chunks advance and stay within their bound and their heading
  path.
* **Gate**: the limit is exact in every window, and `last_used_at` can be believed when a key is
  revoked.
* **Sessions**: a logout lasts; a session whose refresh token lives is not lost.
* **Gateway and embeddings**: nothing is built on a stand-in later than the probe's TTL after the
  server is back; every stored vector is its chunk's own.
* **Online evaluation**: the judge reads what the answer cited, the row stands for its sample, and
  the alert tells a collapse from a steady record.
* **Widget client**: the text of an answer is its own stream's; what a reload resumes is what was
  shown; a rated conversation does not go on; the composer comes back.

## The modules

### SupportDesk, and ChatTurn that implements it

`SupportDesk` is what a customer may rely on: a question is asked, its own run reaches a verdict
(approved, or a ticket), and only then is it answered or handed off; it may be dropped at any
time; a cached answer was approved for the same question by someone's run.

`ChatTurn` has one coroutine per turn, its phase in `pc`:

| code | actions |
|---|---|
| `_ensure_conversation` | `Open`, `Reject` |
| `_persist_message` | `Persist` in `PersistUser`, `PersistHit`, `PersistAnswer` |
| `cache.get` / `_replay_cached` | `Hit`, `MissOrBypass`, `Replay` |
| nodes of `build_agent_graph` | `Route`, `RouteToChitchat`, `Retrieve`, `Stream` and `FinishAnswer` (answer), `Judge` with `Gate`, `Respond`, `RecordRead` and `RecordCommit` (escalate) |
| the rest of `event_stream` | `SendCanned`, `PersistAnswer`, `StoreInCache`, `Finish`; its handlers `Fail`, `Abort` |
| `widget_csat` | `RateRead`, `RateCommit` |
| `resolve_conversation` | `ResolveRead`, `ResolveSelect` (the flush that takes the row lock), `ResolveCommit` |
| `reply_to_conversation`, `reset_demo_conversations`, TTL | `Reply`, `ResetDemo`, `Expire` |

The agent state is three booleans: chunks were found, the answer cites one, the judge was confident.
`thread` is the LangGraph checkpoint that the next turn of the conversation starts from: what a node
does not overwrite is the previous turn's. The canned texts are sent before the answer is inserted
(`SendCanned`), so what the customer has `seen` may be a promise whose turn then fails: the event
"handoff" is the text that promises a human. `final` is what the `updates` stream delivered to the
endpoint. `verdict` is auxiliary: what this turn's own run decided. `Locked` is the row lock a
resolution holds between its flush and its commit; the insert of an escalation does not wait for it,
because a foreign-key check is compatible with an UPDATE of other columns.

### KnowledgeBase, and Ingestion that implements it

`KnowledgeBase` is the knowledge base as retrieval sees it: content of a document is replaced in
one step or not at all, and is gone with the document. `Ingestion` has the calls of the endpoints
(`api`), one arq job per call (`job`), the storage and both tables. A job reads the document,
commits `processing`, loads, chunks and embeds (`Load`), deletes and inserts chunks (`DeleteOld`,
`CommitChunks`), or fails and records it (`Raise`, `FailRead`, `FailCommit`). `Cancel` is arq's
time limit, whose `CancelledError` passes `except Exception`; `WorkerDies` gives the job back to
the queue, also after its commit; `GiveUp` is `max_tries`. A DELETE removes the chunks that are
committed when it runs, which `doomed` remembers. The row locks two overlapping runs take on the
chunks both delete only remove orders of their commits; the model has all of them. `Cancel` also
stands for a job whose connection has lost its tenant (see TenantSession): it finds no rows and
leaves without a trace.

### ResponseCache

The key of a cached answer holds `compute_kb_version`: how many documents are ready and the latest
`updated_at` of those. An answer is abstracted to the indexing runs whose chunks it was drawn
from. A run loads its document (`Load`), commits `processing` (`Process`), loads the source, cuts and
embeds it, and only then opens the transaction that deletes the old chunks (`Replace`), whatever the
document's status is by then, and commits the new ones (`Publish`); it may end without (`FailRun`).
`now()` in Postgres is the start of the transaction, so the stamp of a run is taken by
`Replace` and becomes visible with `Publish`. SQLAlchemy sends no UPDATE for a status that is what
was read, so a re-index or a run that read an outdated status may leave a document ready (`Index`,
`Process`). The auxiliary `raced` says that two runs of a document overlapped between `Load` and
their last commit. A turn computes the version (`Lookup`), searches
twice (`Search`), and stores (`Store`).

### Members

Role changes and removals (`LoadTarget`, `CountOwners`, `CommitTarget`), invitations
(`CreateInvite`, `RevokeRead`, `RevokeCommit`, `AcceptRead`, `AcceptCommit`, `Expire`). A request
acts on the role it authenticated with and on the rows it read. A membership has a row identity:
one that is removed and invited again has a new one.

### TenantSession

The row-level policies compare `org_id` with `app.current_tenant`, a setting of the connection.
`tenant_session` and `signup` set it for their transaction (`OpenTenant`, `Signup`);
`tenant_worker_session` sets it for the session and clears it in `finally` (`OpenJob`, `Leave`).
SQLAlchemy returns a connection to the pool at every commit and rollback, so the transactions of
one job (`CommitProcessing`, `DeleteOld` with `CommitReady`, `MarkFailed`, `Leave`) may run on
different connections. A pool hands out any idle connection before it makes a new one; the code's
pool hands out the one idle for longest, which is one of these behaviours. Both pools ping what
they hand out (`pool_pre_ping`): an idle connection that has died is replaced by a fresh one without
the setting (`Die`), also between two transactions of a job; the auxiliary `cutOff` names the jobs
whose connection did. A statement under
another tenant finds no rows, an INSERT raises.

### Chunker

`chunk_text` as the iterations of its loops: `_split_sections` (`ReadHeading`, `Pop`, `Push`,
`ReadSentence`, `EndOfText`), the sentences of a section (`Take`, `EmitFull`), the overlap
(`SeedOverlap`, `Seeded`) and the tail (`EndSection` with `MergeTail` or `Emit`). The text is an
input that is read line by line: a heading is level and title, a sentence its token count. The
list `current` is always a run of sentences of one section, so two indices stand for it, and a
chunk is a set of such runs. `count_tokens` of joined sentences is the sum of their counts give or
take `Seam` for each blank, because a token may straddle a blank.

### TextIndex

The step of Ingestion that turns a text into chunks with vectors, opened up: Chunker, then
`embed_texts` batch by batch (`Embed`, `Miscount`, `ProviderRaises`, `Wake`), then the strict zip
of chunks and vectors (`Store`). A vector is named by the chunk it was computed from, a pause by how
many base delays it takes. `Arranged` is the sort of a provider's answers by their index. What the
provider raises is retried, a wrong number of vectors is not.

### WidgetGate

What a widget request passes: the lookup of its key (`Resolve`), the throttle in Redis and the
`last_used_at` it decides on (`Throttle`, `Touch`), the origin (`Refuse`), the limits of its key
and of its address (`HitKey`, `HitIp`, each an `Incr` and, for the first, a `SetExpiry`), and one
endpoint, the thumb (`ReadMessage`, `CommitVote`, `RecordScore`). Owners revoke next to it
(`ReadKey`, `Revoke`). The clock counts rate-limit windows. `Incr` uses a window between the one
the request was last seen in and the present one, because the limiter reads the clock before it
awaits Redis. `Fail` is an error or a death at any step.

### Gateway, and Nightly in its worker

`Gateway` says which model answers and which embeds, in each process. `ollama_reachable` keeps a
success for good and a failure for a TTL (`Cached`, `Fresh`). An API process builds both gateways
for each turn, the LLM's when the request comes in (`Ask`) and the embedding service when the stream
starts (`BuildDependencies`), unless the cache has answered (`AnswerFromCache`). The question is
embedded with that service later, after the agent has asked a model for the route (`Search`): what
was chosen in an outage is used after it. `late` (auxiliary) marks a turn that began a TTL after the
last outage. With a hosted LLM and no OpenAI key, the agent may answer from what the stand-in found
while the server is down; `NeverHalfOffline` is about turns of the model server. The worker builds
its embedding service when it starts (`StartWorker`). The server comes and goes (`GoDown`,
`ComeUp`), and of the chunks it matters which model embedded them (`Ingest`).

`Nightly` is `sample_online_quality` of one night in that worker: the gateway it judges with
(`Begin`), the sample (`ReadAnswers`), one query for all the chunks it cites (`ReadChunks`), which
finds any part of them, then `Skip` or `AskJudge` with `Scored` for each answer, the row
(`Commit`) and the alert (`Alert`). `Raise` is an error in any call, `RestartWorker` a death with
its redelivery. The rows of the nights before are whatever they may be: `Alert` and the property
about it quantify over them. An answer that was given while tracing was off has no trace, so its
score goes into the row alone (`Scored`; the auxiliary `lacking`).

### Sessions

One browser with several tabs. The cookie jar is shared; a call takes its cookie along when it
leaves (`sent`), is handled later (`Handle`), and its `Set-Cookie` takes effect when the answer
arrives (`Receive...`). A tab loads a page (`Visit`, behind the guard of `proxy.ts`), signs in
(`Login`, for signup too) or out (`Logout`), and looks for its session as `resolveSession` does:
`/auth/me`, upon a 401 `/auth/refresh`, and `/auth/me` again. Tokens are not stored by the API and
cannot be revoked: they are accepted until they expire. `Tick` is time, and the browser that drops
cookies. `domain` is whether COOKIE_DOMAIN is set.

### WidgetClient

The app of the widget's iframe. Event handlers are steps; a render with its effects is a step of
its own (`RunEffects`), which other events may precede. A stream gives tokens, then `done` or
`error`, or it breaks off (`OnToken`, `OnDone`, `OnError`, `BreakOff`). The parser of `api.ts`
takes a response in pieces; it may not recognize the end of an event (`Tear`), and then drops it
together with the next (`Drop`). `Rate`, `Ask`, `Dismiss`, `Close` and `Launcher` are the clicks,
`IdleTimeout` the timer, `Reload` the page's. The ChatTurn side is only what such a client notices
of it.

## What is model-checked

Runs that pass:

| run | instance | shows |
|---|---|---|
| chat_conversation | 2 turns in one conversation, 2 ratings, 1 inbox user, 1 reset | `HandoffReachesInbox` (`HandoffHasTicket` and `PendingIsQueued`), `AnsweredIsGrounded`, `AnswerFollowsQuestion`, `ScoredOnce`, `QueueLeftByResolution` |
| chat_promise | 2 turns, 2 questions, 1 conversation, 1 reset, fair | `KeepsPromise` (refines SupportDesk), `CacheIsVetted`, `StreamsTerminate` |
| ingestion_calls | 2 calls on an uploaded and a URL document, 2 tries, fair | `IsKnowledgeBase` (refines KnowledgeBase), `RedeliveryIsIdempotent`, `ReadyHasSource`, `StrandedOnlyByLoss`, `LeavesPending` |
| members_roles | founder and 1 user, 4 requests | `OwnersAreAppointed`, `LastOwnerFallsToARace`, `ChangesHitTheRowTheyChecked`, `InvitationsClose` |
| cache_settled | 2 documents, 4 indexing runs, 1 turn | `SettledHitIsCurrent` |
| tenant_scoped | 2 organizations, 2 requests, 2 jobs, 2 connections in each pool | `ApiScoped`, `ReplacedTogether`, `LoneJobScoped` |
| text_index | all texts of 5 headings and sentences, batches of 2, 2 retries | `ChunksKnowTheirHeadings` (`PathsEnclose` and `PartsAgree`), `NothingLost`, `PartsAdvance`, `SizeBounded`, `EmbedsAllOrGivesUp` |
| gate_limits | 2 requests, 2 keys, 1 address, a limit of 1, 2 windows, 1 revocation | `LimitIsExact`, `LastUsedIsTrue`, `ScoreFollowsFeedback` |
| nightly_sample | 1 API process and the worker, 2 answers with 2 citations, 2 nights a week, 2 deliveries | `RecoversWithinTtl`, `NeverHalfOffline`, `JudgeSeesCitations`, `RowAccountsForSample`, `AlertsOnCollapse` |
| sessions_tabs | 2 users, 2 tabs, 3 ticks; the access token lives 1, the refresh token 2 | `LogoutLasts`, `RefreshKeepsSession` |
| widget_session | 3 questions | `AnswersStayApart`, `StorageFollows`, `RatedComesBackOnlyLate`, `ComposerComesBack` |

The run stays_scoped finds the counterexample that is described below.

Why these bounds: the hazards are pairs. Two turns are needed for a checkpoint or cached answer to
come from another run, and a third turn would only repeat the second, since turns meet nowhere but
in the conversation, the checkpoint and the cache. One conversation makes them meet; the two
questions of chat_promise let them share or not share an answer. One reset is enough to delete under
any step, and a conversation id is never minted again. Two calls on a document are an upload and a
re-indexing whose jobs overlap, or a deletion under a running job; two tries are a redelivery. That
more calls and tries change nothing is proved for all four safety properties of that run. Four
requests are what it takes to remove a user, invite the same user again, accept, and still have the
old removal in flight. Two documents and four runs let the version repeat: one run for each document
and two more for re-indexings, while the turn is between version and store. Two requests reuse one
connection, two jobs exchange theirs, and any idle connection may die. Five lines make a chunk that
is full, an overlap, a sentence that does not fit it and a tail, or two sections with one path next
to headings that skip levels; the token counts 1, 2 and 9 against a target of 10 are tiny, fitting
the overlap and not fitting it. They make up to five chunks, so three batches, the last of them
partial, each with its retries. With a limit of one, two requests fill a window and overflow it, and
the second window is there for a slow request, an expired counter and a throttle that is free again.
Two answers, each citing the first passage, the second or both, leave a gap before a citation and a
citation whose chunk is gone next to one that is there; a week of two nights has a night in which
the alert may fire early. In three ticks the access token dies once while the refresh token lives,
and then that one dies too, in each case before, in or after a call of the other tab. The third
question of the widget is asked after a second conversation has been rated.

The system may stop (customers stop asking), so deadlock is not checked.

### Fairness

`ChatTurn!FairSpec` has weak fairness of a turn's next step or failure: every call a coroutine
awaits returns or raises (asyncpg, redis and the model client all do, the last with a timeout) and
the event loop runs it again. Nothing obliges a customer to ask, a turn to succeed, staff to resolve
or the demo reset to run. The lock a resolution holds needs no fairness: a turn that waits for it
may fail. `Ingestion!FairSpec` has weak fairness of each job's step: a worker is running and what a
job awaits returns. Deaths and cancellations may happen at any time and are bounded by arq's
`max_tries`, so no strong fairness is needed. A document whose *request* is lost is not promised
anything, and `LeavesPending` only speaks of queued jobs.

### A claim the code does not keep

* **StaysScoped** (`core/db.py` 104-107, run stays_scoped): two jobs of different organizations
  exchange connections between their transactions, so one goes on under the other's tenant or
  under none. Its statements then find nothing or raise; a document can be left in `processing`,
  with its old chunks. The property leaves out the jobs whose connection died in the pool, which go
  on under none as well, so that the counterexample is an exchange.

What remains true beside it is checked too: jobs that do not overlap stay scoped, but for one whose
connection dies, which has no tenant then and never another's (`LoneJobScoped`), and no job keeps
old chunks next to new ones (`ReplacedTogether`).

The models also have behaviours a reader of the code may not expect, which no run is spent on;
the properties say what holds instead:

* `tests/test_ingestion_pipeline.py` 230 expects a re-indexing to replace the chunks. Two overlapping
  runs of a document leave the chunks of both; redelivery of one job does not
  (`RedeliveryIsIdempotent`).
* `services/llm.py` 41-42 says that a restarted Ollama is picked up. The worker builds its embedding
  service once (`workers/main.py` 21): one that starts in an outage indexes with the stand-in
  until it is restarted, while the API searches with the real model (`RecoversWithinTtl` excepts
  that worker and what it left).
* `_clear_auth_cookies` (`routers/auth.py` 65-67) names no domain. With COOKIE_DOMAIN set, as
  `docs/deploy.md` 84 recommends, a logout leaves the cookies where they are, although
  `e2e/auth.spec.ts` 23 expects it to block the dashboard; `LogoutLasts` is for cookies of a host.
* `proxy.ts` sends a page load without an access cookie to the login page while the refresh token
  still lives; `session.ts` 64 tries the refresh only in a page that has been let through.
* The widget's parser replaces CR LF in each piece of a response by itself. A piece that ends
  inside the blank line between two events joins them, and both are dropped, `done` perhaps
  among them (`ComposerComesBack` excepts it).
* A judge that fails in mid-sample leaves scores in the traces and no row; the second delivery
  scores again (`RowAccountsForSample` is about the delivery that writes the row).
* The text that promises a human is sent before the answer is inserted (`chat.py` 264, 267). If a
  reset deletes the conversation during the run, `_record_escalation` returns without a ticket, the
  customer reads the promise, and then the stream ends with an error (`HandoffReachesInbox`).
* A chat turn that was built in an outage embeds its question with the stand-in after the server is
  back, and finds passages by it (`RecoversWithinTtl` is about turns that begin later).
* `tests/test_rbac_matrix.py` 210 says "Token is single-use." `accepted_at` is read without a lock and
  written without a condition, so two users who open an invitation before either accepts both join
  by it; nobody opens one that was used, and nobody joins by a revoked one (`InvitationsClose`).
* `services/members.py` 26 says that the organization must always retain an owner. Two owners who
  demote, remove or leave at the same time both count two, and none is left; it takes such a race
  (`LastOwnerFallsToARace`).
* `README.md` 38 promises judged answers; the draft is streamed while it is generated, and after a
  rejection the streamed text is what the transcript keeps. The cache never holds one
  (`CacheIsVetted`).
* An escalation recorded between a resolution's SELECT and its commit stays pending in a closed
  conversation, because the turn read `escalated` and so writes no status. It is the only way a
  pending ticket leaves the inbox queue (`PendingIsQueued`).
* A document that is being indexed is not in the cache's version but is in retrieval, so a version
  comes back and with it an answer from replaced chunks, until every document is ready; or for
  longer, if two runs of one document overlap, also if only one of them was replacing chunks at a
  time (`SettledHitIsCurrent`).
* `chunker.py` 5 says that chunks never cross heading boundaries. The tail of a section is merged
  into a chunk with the same heading *path*, so two sections under repeated headings end up in
  one chunk; `PartsAgree` is what holds.
* In the widget a `done` that arrives after the rating brings the rated conversation back, an idle
  timer may ask for a rating twice, and a stream that breaks off leaves the composer disabled
  until the page is loaded again.

## What is proved

Each theorem is for every value of the constants that the module's assumptions allow; the run in
brackets checks the same property on its instance.

### ChatTurnProofs

`ChatTurnProofs` proves, for any number of turns, conversations, questions, ratings, inbox users
and resets:

| theorem | property |
|---|---|
| TypeCorrect | `TypeOK` |
| TurnInvariant | `TurnInv` |
| CacheVetted | `CacheIsVetted` |
| HandoffTicketed | `HandoffHasTicket` |
| AnswerGrounded | `AnsweredIsGrounded` |
| AnswersHaveQuestions | `AnswerFollowsQuestion` |
| RatedOnce | `ScoredOnce` |
| QueueLeft | `QueueLeftByResolution` |
| PendingQueued | `PendingIsQueued` |
| HandoffReaches | `HandoffReachesInbox`, from HandoffTicketed and PendingQueued |
| ImplementsSupportDesk | `KeepsPromise`, that ChatTurn refines SupportDesk |

The only assumption is `ConstantsDistinct`: the null values are not values.

None of the properties is inductive. That an answered turn is vetted depends on what the
gate saw; the gate sees the agent state, which started as somebody else's checkpoint; so the
invariant has to say when the citations in the agent state are this run's own. `TurnInv` is:

* `Admitted`: a turn that was let in has a conversation that has been minted, and a question;
* `OwnEvidence`: nothing is escalated before the run settles; from the judge on, the citations in
  the agent state are those of this run, and only with chunks; at the `respond` node they are
  there, and the judge was sure;
* `SettledIsVetted`: what is settled, replayed or done is vetted or escalated, and what is
  replayed or about to be cached is not escalated;
* `EscalatedIsTicketed`: what is escalated has its ticket, or the conversation is deleted and the
  turn has still to persist its answer, which it then cannot, though it may have sent its text;
* `CacheIsVetted`, for what a hit brings in;
* `OthersAdmitted` and `TypeOK`.

The proof has one lemma per action for the turn that moves, a frame lemma for the turns that do
not (their state is unchanged and a minted conversation never becomes absent again), and one
lemma per group of actions of the other parties.

The others have invariants of their own next to `TurnInv`:

* `ToldInv`: a customer who has been told of a human has a ticket, or the conversation is deleted
  and the turn is past its run (`Told`): a deleted conversation stays deleted, so the answer is not
  inserted and the turn does not end as done;
* `TranscriptInv`: the question of a turn under way stays in the transcript for as long as its
  conversation does (`QuestionKept`), because a conversation loses all its messages at once and
  its id is never minted again; so the answer that is inserted has its question before it;
* `ScoreInv`: a score is that of the one visitor whose rating was accepted, and a conflict means
  that there is a score or no conversation (`Scored`). The second UPDATE's condition is what
  keeps it, whatever the first read;
* `QueueLeft` is an action property. It follows from the types and from what `ResolveCommit` alone
  does to a status, case by case over the actions;
* `QueueInv`: while a resolution that will close its conversation holds the lock, the pending tickets
  it has not found are those of turns that read the conversation as escalated (`Taken`): any other
  turn's UPDATE waits for the lock, and then puts the conversation back on the queue;
* `PromiseInv`: an approved verdict stands behind every answer that is replayed, settled or cached
  (`ApprovedFor`, `Decided`), which is what SupportDesk asks for before it lets a turn answer. The
  refinement has one lemma per action: `Open` asks, the end of a run decides, the last event
  answers or hands off, a failure drops, and everything else stutters.

### TenantSessionProofs

For any organizations, connections, requests and jobs: `SessionInvariant` (`SessionInv`),
`RequestsScoped` (`ApiScoped`), `ChunksReplaced` (`ReplacedTogether`) and `LoneJobsScoped`
(`LoneJobScoped`). The assumption `SessionAssumption` says that the null values are not values, that
the two pools have no connection in common and that a request is not a job. `ApiScoped` needs that
what a session leaves on a connection of the API's pool is nothing, also a session that fails:
`ApiPoolClean` and `RequestOK`. `ReplacedTogether` needs that whether a job's DELETE found the old
chunks depends on the tenant its INSERT is checked against, since both are in one transaction:
`JobOK`. `LoneJobScoped` needs more than that one job is at work: `LoneInv` says that the worker's
pool then has one connection idle at most, so that the job gets back the one it has set, or a fresh
one in its place if that died (`Alone`), or holds it (`Own`); `DieOK` and `DieAlone` are the steps
of a connection that dies. It holds only until two jobs have overlapped once; what they leave is
StaysScoped's counterexample.

### ChunkerProofs

For any text, token counts, targets and seam: `ChunkInvariant` (`ChunkInv`), `TextKept`
(`NothingLost`), `ChunksAdvance` (`PartsAdvance`), `ChunksAgree` (`PartsAgree`), `ChunksBounded`
(`SizeBounded`), `PathInvariant` (`PathInv`), `PathsComplete` (`PathsEnclose`) and, of these,
`HeadingsKnown` (`ChunksKnowTheirHeadings`), from `ChunkerAssumption` (the parameters are natural
numbers).
`ChunkInv` says where the loops are (`LoopsOK`), that the current run is no longer than a chunk
may be (`CurrentBounded`), that what lies behind it is in chunks (`BehindIsInChunks`) and that all
chunks have lies behind it (`PartOK`). Two lemmas, `EmitStores` and `MergeStores`, show what
storing the current run makes of the chunks, either way; the step lemmas use only their common
conclusion `Stored`. `PathInv` is about `_split_sections`: there is an increasing list of positions
whose headings are those on the stack, and they are the ones that enclose what follows, but for
those the new heading is about to close (`OnStack`); a path is such a stack (`OnPath`). A heading
that is pushed closes none of those left on the stack, because their levels increase. `PathsEnclose`
states the same with cardinalities, and `Enumerated` says that they count along such a list.

For any batch size and number of retries as well (`TextIndexAssumption`): `TextIndexIsChunker`, that
TextIndex refines Chunker, so that all of the above holds in it; `EmbedInvariant` (`EmbedInv`) and
`EmbeddingComplete` (`EmbedsAllOrGivesUp`; text_index). `VectorsInv` says that the vectors so far are
those of the first chunks, in order, and that there are some to come until all are there: so the
strict zip never fails. It needs that the answers of a batch, listed in any order and sorted, are
its vectors in the batch's order (`ArrangedIsBatch`), for which an increasing list of as many
numbers as there are has each at its place (`InOrder`). `RetryInv` counts a batch's calls and writes
its pauses out: 1, 2, 4, ... base delays.

### IngestionProofs

For any documents, calls and number of tries: `IngestionInvariant` (`IngInv`), `RedeliveredOnce`
(`RedeliveryIsIdempotent`), `SourcesStay` (`ReadyHasSource`), `OnlyLossStrands`
(`StrandedOnlyByLoss`) and `ImplementsKnowledgeBase` (`IsKnowledgeBase`; ingestion_calls).
`IngInv` adds to the properties who owns a chunk (`ChunksOwned`), what each phase of a call and of a
job implies for its document and its source (`RequestOK`, `JobOK`), and that every unfinished
document has somebody who settles it (`SomeoneSettles`). The refinement maps every
action to a step of KnowledgeBase or to a stutter (`BaseStep`): `CommitChunks` is `Publish`, which
replaces what its DELETE had found and adds what it inserted; `Delete` is `Remove`; the jobs'
transactions before the commit stutter or start the indexing.

### AccountProofs

About Members and Sessions, which both extend Accounts (the users of an organization).

For any users and requests: `MembersInvariant` (`MembersInv`), `OwnersAppointed`
(`OwnersAreAppointed`), `LastOwnerRaces` (`LastOwnerFallsToARace`), `CommitsHitCheckedRows`
(`ChangesHitTheRowTheyChecked`) and `InvitationsEnd` (`InvitationsClose`; members_roles). What a
request that is past its check may still do was allowed by the role it authenticated with, and an
invitation to ownership was written by an owner: that is `RequestOK` and `InvitationOK`. The proof
that the last owner falls to a race counts: a step takes one owner at most, so the owners before it
were that one, and a request whose count was of these would have been refused. `InvitationsClose`
needs that an invitation somebody has joined by is accepted or revoked ever after (`JoinedInv`),
whatever expires, is revoked or is accepted again.

For any users, tabs and token lifetimes: `SessionsInvariant` (`SessionsInv`), `LoggedOut`
(`LogoutLasts`) and `SessionKept` (`RefreshKeepsSession`; sessions_tabs). `LogoutLasts` is made
inductive by `Ended`: after a logout no call on its way carries a refresh token or brings a new one,
but for those that were overtaken. `RefreshKeepsSession` needs `Searching`: a tab whose search is
not excused has sent a refresh token that is still alive, or has an access token that was made by a
refresh and is. No assumption relates the two lifetimes.

### WidgetProofs

About both ends of the widget: WidgetGate, its API, and WidgetClient, its app.

For any limit, requests, keys, addresses and windows: `GateInvariant` (`GateInv`), `LimitExact`
(`LimitIsExact`), `UseShown` (`LastUsedIsTrue`), `ScoreFollows` (`ScoreFollowsFeedback`;
gate_limits) and `CountersExpire` (`CountersGoAway`, which no run is spent on). The counter alone
does not say who was counted; `GateInv` ties it to the auxiliary `hits`: a counter is at most the
number of requests that have hit it, and one that was never counted anew is that number, or has
expired (`CountOK`); nobody hits a counter twice (`HitOnce`); and who was refused had more than the
limit before it (`ReqOK`). Cardinalities come from the library's theorems on finite sets.
`LastUsedIsTrue` has two halves. A request that does not win the throttle relies on the one that
did: `UseInv` says that nobody passes the throttle of a key unless it is shown as used, or about to
be, or its touch has failed. That a revoked key is not shown as used later is `RevokeInv`: a touch
writes the time its request began, and such a request had found the key alive.
`ScoreFollowsFeedback` is `VoteInv`: as long as votes have not overlapped or failed there is one at
most, and it read what is in the transcript.

For any number of questions: `ClientInvariant` (`ClientInv`), `TypeCorrect` and `AnswersApart`,
`StorageFollowed`, `RatedOnlyLate`, `ComposerBack` (widget_session). Every event patches "the last
message", whichever that is: `AnswersStayApart` is inductive only with `Current`, that the one
response being read answers the last question, which is the last message's, and with the same of
the stored messages, which a reload brings back. For `RatedComesBackOnlyLate`, `Current` also says
that a response for a rated conversation was overtaken by the rating. Messages and stored messages
never outnumber the questions (`Counted`), which is only needed for the types.

### NightlyProofs

For any API processes, TTL, tries, answers, citations and scores: `NightInvariant` (`NightInv`),
`NightTyped` (`TypeOK`), `OutageForgotten` (`RecoversWithinTtl`), `GatewaysAgree`
(`NeverHalfOffline`), `JudgeInformed` (`JudgeSeesCitations`), `RowsAccount`
(`RowAccountsForSample`) and `AlertsTrue` (`AlertsOnCollapse`; nightly_sample). The assumptions are
`GatewayAssumption` and `NightlyAssumption`: among others, that answers and the numbers they cite
are finite sets, as the sample's LIMIT and a parsed text make them; and for the alert
`ScoresAssumption`, that two scores are more than two thresholds apart, as 0 and 1 are with a
threshold of 0.05.

`GatewayInv` bounds what a failed probe has left to live by what remains of the TTL since the server
came back (`ProbeInv`). `TurnInv` says of the turn in flight that one answered by the model server
has seen it reachable, which its process never forgets, and that one that began late has seen no
failure since (`ReachableLate`), because an outage makes it a turn that is not late. `SampleInv`
splits the sample into what is to do, asked, scored and skipped, and counts them; `TraceInv` ties
the sum of a delivery's scores to what it sent to the traces: no more, and no less unless an answer
lacked a trace; a redelivery starts both anew. `JudgeSeesCitations` comes down to the passages: they
are the citations up to the highest of them in order, padding where one is missing, so passage n of
an answer all of whose chunks were found is citation n (`InPlace`). That a finite set of numbers has
a maximum (`FiniteMax`) is proved by taking a least set that has none.

`AlertsOnCollapse` compares sums over two windows, which the library defines by a fold: a recursive
function over the subsets of a window, that is a CHOOSE. That there is a function to choose
(`TableExists`) and that the sum does not depend on the order it was taken in (`SumWithout`) are
proved with least subsets as well, so no induction over data is needed; then that a sum lies between
as many times the least and the greatest value (`SumBetween`). `AveragedRows` and `Windows` say that
a night before tonight has one row at most and that each row of the earlier window is older than each
of the later. So a record that never falls has sums in the order of the windows (`NoFall`); and after
a collapse all of the later window is bad but for one row, that of a week ago on the late side of the
edge, which the rows of tonight make up for (`FarBelow`): here the two thresholds are needed.

### ResponseCacheProofs

For any documents, indexing runs, turns and versions: `CacheInvariant` (`CacheInv`) and
`HitsCurrent` (`SettledHitIsCurrent`; cache_settled). An answer from replaced chunks may well be in
the cache, and may be stored long after they were; what has to be shown is that its version cannot
be the present one when all documents are ready. The invariant says for each version that is cached
under or held by a turn that either nothing has moved since (`Still`) and the answer is from what
retrieval finds, or the version has `Gone`: there are more documents than it counted, or one of them
will, when it is ready, have a stamp above the version's (`Dirty`): it is not ready without one, and
every run that is replacing its chunks was stamped later. As long as no two runs of a document
overlap, one that has committed `processing` keeps it from being ready until that run ends. A stamp
is a moment of a clock that only goes forward (`RunInv`), and a run that starts after the version
was computed is stamped after it. `BoundedMax` is about maxima, as `FiniteMax` is.

### Only model-checked

Liveness (`StreamsTerminate`, `LeavesPending`) is out of the prover's reach. Everything else that a
passing run checks is proved.

## What is not modelled

Model output quality, ranking, texts and layout; the dashboard's pages, which show what the API
returns; rank fusion, reranking and analytics, which read rows and return sums and sorts; logging
and tracing, on which nothing depends but whether an answer has a trace (in Nightly); seeding and
evaluation scripts, which are sequential. In ChatTurn: the tenant (one organization) and the
widget's `user_identifier` column. In Ingestion: extraction, chunking and embedding are one step
with three outcomes (TextIndex has chunking and embedding by themselves; extractors are library
calls). In Members: sessions and tokens; what a request knows of its caller is the role it
authenticated with. In Chunker: the regular expressions and the tokenizer, which are abstracted to
what they yield. In WidgetGate: the creation and listing of keys and the configuration endpoint. In
Gateway: cost and token accounting. In Nightly: several organizations or nights at once. In
Sessions: an API on another site than the dashboard, deleted users, and the onboarding page, which
has the dashboard's guard. In WidgetClient: branding, the citation popover and two tabs that share
one storage.

## Plan

What is left, in this order:

1. **Fusion**: reciprocal rank fusion and greedy clustering as operators against reference
   definitions.
2. **Demo corpus**: the nightly re-ingestion of `ingest_corpus_into` next to running jobs.
