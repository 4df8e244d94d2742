------------------------------ MODULE ChatTurn ------------------------------
(***************************************************************************)
(* A chat turn of HelpDeck from the HTTP request to the last SSE event     *)
(* (routers/chat.py, agent/graph.py), several turns at once, together with *)
(* the other writers of the conversation tables: the inbox                 *)
(* (routers/conversations.py), the widget's CSAT rating (routers/widget.py)*)
(* and the nightly demo reset (services/demo.py).                          *)
(*                                                                         *)
(* Every database transaction that reads a row and later writes what it    *)
(* read is two steps, the read and the commit, because Postgres runs at    *)
(* READ COMMITTED; a transaction whose effect does not depend on an        *)
(* earlier read is one step.  One organization and one kb_version: tenant  *)
(* isolation and the versioned cache key have modules of their own.        *)
(***************************************************************************)
EXTENDS Naturals

CONSTANTS Turn,        \* requests to POST /chat (dashboard or widget)
          Conv,        \* conversation ids that may be minted
          Question,    \* normalized question texts
          Rater,       \* widget visitors posting /widget/csat
          Staff,       \* inbox users posting /conversations/{id}/resolve
          NoConv, NoQuestion, NoRater, NoTurn, Miss,
          MaxResets    \* bound on nightly demo resets

ASSUME ConstantsDistinct ==
  /\ NoConv \notin Conv /\ NoQuestion \notin Question
  /\ NoRater \notin Rater /\ NoTurn \notin Turn
  /\ MaxResets \in Nat

VARIABLES
  \* Postgres
  status, score,          \* conversations.status and .csat_score
  messages, escalations,  \* the rows of both tables
  thread,                 \* LangGraph checkpoint of each conversation
  resets,
  \* Redis
  cache,                  \* the answer stored for each question, or Miss
  \* one coroutine per turn
  pc, conv, question,
  graph,                  \* agent state inside the running graph
  final,                  \* node updates of this run, or the cached answer
  saw,                    \* conversations.status as _record_escalation read it
  seen,                   \* SSE events the client has received
  verdict,                \* auxiliary: what this turn's own run decided
  \* other requests
  rater, desk

conversations == <<status, score, messages, escalations, resets>>
turnVars == <<pc, conv, question, graph, final, saw, seen, verdict>>
vars == <<conversations, thread, cache, turnVars, rater, desk>>

Status == {"absent", "open", "escalated", "closed", "deleted"}
Text == {"none", "draft", "refusal", "chitchat", "handoff"}

AgentState == [chunks : BOOLEAN, cited : BOOLEAN, sure : BOOLEAN]
Answer == [content : Text, cited : BOOLEAN, sure : BOOLEAN, escalated : BOOLEAN]

FreshState == [chunks |-> FALSE, cited |-> FALSE, sure |-> FALSE]
NoAnswer == [content |-> "none", cited |-> FALSE, sure |-> FALSE, escalated |-> FALSE]

\* SSE events; the one "handoff" stands for the token event with the canned text
\* that promises a human.
Event == {"token", "handoff", "citation", "done", "error"}

MessageRow == [conv : Conv, turn : Turn \cup {NoTurn}, role : {"user", "assistant"}]
\* queued is auxiliary: the conversation was escalated when it was read.
EscalationRow == [conv : Conv, turn : Turn, status : {"pending", "resolved"}, queued : BOOLEAN]

\* Before the response starts an exception is an HTTP error; afterwards it is
\* an SSE error event.
Requested == {"ensured", "asked", "hit"}
Running == {"routing", "retrieving", "answering", "judging", "responding",
            "escalating", "recording", "settling", "storing"}
Streaming == Running \cup {"replaying", "closing"}
Ended == {"done", "rejected", "failed", "error", "gone"}
Phase == {"idle"} \cup Requested \cup Streaming \cup Ended

RaterState == [pc : {"idle", "checked", "rated", "conflict", "missing"},
               conv : Conv \cup {NoConv}]
DeskState == [pc : {"idle", "loaded", "resolving"}, conv : Conv \cup {NoConv},
              saw : Status, tickets : SUBSET Turn]
Away == [pc |-> "idle", conv |-> NoConv, saw |-> "absent", tickets |-> {}]

IsRow(s) == s \in {"open", "escalated", "closed"}
Exists(c) == IsRow(status[c])

Init ==
  /\ status = [c \in Conv |-> "absent"] /\ score = [c \in Conv |-> NoRater]
  /\ messages = {} /\ escalations = {} /\ resets = 0
  /\ thread = [c \in Conv |-> FreshState]
  /\ cache = [q \in Question |-> Miss]
  /\ pc = [t \in Turn |-> "idle"] /\ conv = [t \in Turn |-> NoConv]
  /\ question = [t \in Turn |-> NoQuestion]
  /\ graph = [t \in Turn |-> FreshState] /\ final = [t \in Turn |-> NoAnswer]
  /\ saw = [t \in Turn |-> "absent"] /\ seen = [t \in Turn |-> {}]
  /\ verdict = [t \in Turn |-> "none"]
  /\ rater = [r \in Rater |-> [pc |-> "idle", conv |-> NoConv]]
  /\ desk = [s \in Staff |-> Away]

Goto(t, p) == pc' = [pc EXCEPT ![t] = p]
Emit(t, events) == seen' = [seen EXCEPT ![t] = @ \cup events]

\* The ORM emits no UPDATE for an attribute set to the value that was read.
AfterUpdate(now, read, new) == IF read = new THEN now ELSE new

\* A resolution that has flushed its UPDATE of the row holds the row's lock, so
\* other statements that change or delete the row wait.  Inserting a row that
\* refers to it does not.
Locked(c) ==
  \E s \in Staff : desk[s].pc = "resolving" /\ desk[s].conv = c /\ desk[s].saw # "closed"

-----------------------------------------------------------------------------
(* The request, up to the first byte of the response: run_chat_stream.      *)

Row(t, role) == [conv |-> conv[t], turn |-> t, role |-> role]

\* _ensure_conversation: a request that names no conversation mints one, one
\* that names a conversation needs it to exist.
Open(t) ==
  /\ pc[t] = "idle"
  /\ \E q \in Question, c \in Conv :
       /\ status[c] # "deleted"
       /\ question' = [question EXCEPT ![t] = q]
       /\ conv' = [conv EXCEPT ![t] = c]
       /\ status' = [status EXCEPT ![c] = IF @ = "absent" THEN "open" ELSE @]
  /\ Goto(t, "ensured")
  /\ UNCHANGED <<score, messages, escalations, resets, thread, cache, graph, final,
                 saw, seen, verdict, rater, desk>>

Reject(t) ==
  /\ pc[t] = "idle" /\ \E c \in Conv : status[c] = "deleted"
  /\ Goto(t, "rejected")
  /\ UNCHANGED <<conversations, thread, cache, conv, question, graph, final, saw,
                 seen, verdict, rater, desk>>

\* Fault: no foreign key from messages to conversations.
PersistUnchecked(t, role) == messages' = messages \cup {Row(t, role)}

\* _persist_message.  The foreign key rejects the row once the conversation is
\* gone: then the insert raises, and Fail is all the turn can do.
Persist(t, role) == /\ Exists(conv[t])
                    /\ messages' = messages \cup {Row(t, role)}

PersistUser(t) ==
  /\ pc[t] = "ensured"
  /\ Persist(t, "user") /\ Goto(t, "asked")
  /\ UNCHANGED <<status, score, escalations, resets, thread, cache, conv, question,
                 graph, final, saw, seen, verdict, rater, desk>>

\* cache.get, unless the request bypasses the cache.
Hit(t) ==
  /\ pc[t] = "asked" /\ cache[question[t]] # Miss
  /\ final' = [final EXCEPT ![t] = cache[question[t]]] /\ Goto(t, "hit")
  /\ UNCHANGED <<conversations, thread, cache, conv, question, graph, saw, seen,
                 verdict, rater, desk>>

MissOrBypass(t) ==
  /\ pc[t] = "asked" /\ Goto(t, "routing")
  /\ UNCHANGED <<conversations, thread, cache, conv, question, graph, final, saw,
                 seen, verdict, rater, desk>>

\* The cached path persists the assistant message before it starts to stream.
PersistHit(t) ==
  /\ pc[t] = "hit"
  /\ Persist(t, "assistant") /\ Goto(t, "replaying")
  /\ UNCHANGED <<status, score, escalations, resets, thread, cache, conv, question,
                 graph, final, saw, seen, verdict, rater, desk>>

Closing(a) == {"token", "done"} \cup IF a.cited THEN {"citation"} ELSE {}

Replay(t) ==
  /\ pc[t] = "replaying"
  /\ Emit(t, Closing(final[t])) /\ Goto(t, "done")
  /\ UNCHANGED <<conversations, thread, cache, conv, question, graph, final, saw,
                 verdict, rater, desk>>

-----------------------------------------------------------------------------
(* The agent graph.  A run starts from the checkpoint of its conversation;  *)
(* every node's update goes into the running state, the checkpoint and,     *)
(* through the "updates" stream, final.                                     *)

\* The node of turn t leaves the agent state g.
Checkpoint(t, g) == /\ graph' = [graph EXCEPT ![t] = g]
                    /\ thread' = [thread EXCEPT ![conv[t]] = g]

\* The intent is faq or human_request.
Route(t) ==
  /\ pc[t] = "routing"
  /\ Checkpoint(t, thread[conv[t]])
  /\ Goto(t, "retrieving") \/ Goto(t, "escalating")
  /\ UNCHANGED <<conversations, cache, conv, question, final, saw, seen, verdict,
                 rater, desk>>

\* The intent is chitchat, whose node only sets the canned response.
RouteToChitchat(t) ==
  /\ pc[t] = "routing"
  /\ final' = [final EXCEPT ![t].content = "chitchat"]
  /\ verdict' = [verdict EXCEPT ![t] = "approved"]
  /\ Goto(t, "settling")
  /\ UNCHANGED <<conversations, thread, cache, conv, question, graph, saw, seen,
                 rater, desk>>

Retrieve(t) ==
  /\ pc[t] = "retrieving"
  /\ \E found \in BOOLEAN : Checkpoint(t, [graph[t] EXCEPT !.chunks = found])
  /\ Goto(t, "answering")
  /\ UNCHANGED <<conversations, cache, conv, question, final, saw, seen, verdict,
                 rater, desk>>

\* A piece of the strong model's answer that is not blank goes to the client
\* at once.
Stream(t) ==
  /\ pc[t] = "answering" /\ graph[t].chunks /\ "token" \notin seen[t]
  /\ Emit(t, {"token"})
  /\ UNCHANGED <<conversations, thread, cache, pc, conv, question, graph, final, saw,
                 verdict, rater, desk>>

\* Fault: the refusal branch does not reset the citations of the checkpoint.
AnsweredStale(g, cites) == IF g.chunks THEN [g EXCEPT !.cited = cites] ELSE g

\* The answer node's update of the agent state: the [n] markers that
\* parse_citations found within the chunks, none for the refusal without chunks.
Answered(g, cites) == [g EXCEPT !.cited = g.chunks /\ cites]

FinishAnswer(t) ==
  /\ pc[t] = "answering"
  /\ \E cites \in {c \in BOOLEAN : c => graph[t].chunks /\ "token" \in seen[t]} :
       /\ Checkpoint(t, Answered(graph[t], cites))
       /\ final' = [final EXCEPT ![t].cited = cites]
  /\ Goto(t, "judging")
  /\ UNCHANGED <<conversations, cache, conv, question, saw, seen, verdict, rater, desk>>

\* Fault: the gate looks at the citations only.
GateOnCitations(g) == IF g.cited THEN "responding" ELSE "escalating"

\* gate_after_judge; confidence is abstracted to "at least the threshold".
Gate(g) == IF g.cited /\ g.sure THEN "responding" ELSE "escalating"

\* Without citations the judge model is not asked and the confidence is 0.
Judge(t) ==
  /\ pc[t] = "judging"
  /\ \E sure \in {c \in BOOLEAN : c => graph[t].cited} :
       /\ Checkpoint(t, [graph[t] EXCEPT !.sure = sure])
       /\ final' = [final EXCEPT ![t].sure = sure]
  /\ Goto(t, Gate(graph'[t]))
  /\ UNCHANGED <<conversations, cache, conv, question, saw, seen, verdict, rater, desk>>

\* What the turn will persist: the streamed text, else the graph's response.
Content(t, response) == IF "token" \in seen[t] THEN "draft" ELSE response

\* The last node writes its checkpoint too; then the run is over and its local
\* state is gone.
Settle(t, response, escalated) ==
  /\ thread' = [thread EXCEPT ![conv[t]] = graph[t]]
  /\ final' = [final EXCEPT ![t].content = Content(t, response), ![t].escalated = escalated]
  /\ graph' = [graph EXCEPT ![t] = FreshState]
  /\ Goto(t, "settling")

Respond(t) ==
  /\ pc[t] = "responding"
  /\ Settle(t, IF graph[t].chunks THEN "draft" ELSE "refusal", FALSE)
  /\ verdict' = [verdict EXCEPT ![t] = "approved"]
  /\ UNCHANGED <<conversations, cache, conv, question, saw, seen, rater, desk>>

\* _record_escalation reads the conversation.  If it is gone that is only
\* logged, and the node still reports escalated.
RecordRead(t) ==
  /\ pc[t] = "escalating"
  /\ \/ /\ Exists(conv[t]) /\ Goto(t, "recording")
        /\ saw' = [saw EXCEPT ![t] = status[conv[t]]]
        /\ UNCHANGED <<thread, final, graph>>
     \/ ~Exists(conv[t]) /\ Settle(t, "handoff", TRUE) /\ saw' = saw
  /\ UNCHANGED <<conversations, cache, conv, question, seen, verdict, rater, desk>>

Ticket(t) == [conv |-> conv[t], turn |-> t, status |-> "pending", queued |-> saw[t] = "escalated"]

\* ... and commits; a conversation deleted since makes the commit raise.
RecordCommit(t) ==
  /\ pc[t] = "recording" /\ Exists(conv[t])
  /\ saw[t] = "escalated" \/ ~Locked(conv[t])
  /\ status' = [status EXCEPT ![conv[t]] = AfterUpdate(@, saw[t], "escalated")]
  /\ escalations' = escalations \cup {Ticket(t)}
  /\ verdict' = [verdict EXCEPT ![t] = "ticketed"]
  /\ saw' = [saw EXCEPT ![t] = "absent"]
  /\ Settle(t, "handoff", TRUE)
  /\ UNCHANGED <<score, messages, resets, cache, conv, question, seen, rater, desk>>

-----------------------------------------------------------------------------
(* After the graph: the rest of event_stream.                               *)

\* Fault: escalated answers are cached too.
CacheableAny(a) == a.content # "none"

Cacheable(a) == ~a.escalated /\ a.content # "none"

\* A canned text was not streamed and goes out as one token, before its row is
\* inserted: the client is told of a handoff whether or not the insert succeeds.
SendCanned(t) ==
  /\ pc[t] = "settling" /\ "token" \notin seen[t]
  /\ Emit(t, {"token"} \cup ({final[t].content} \cap {"handoff"}))
  /\ UNCHANGED <<conversations, thread, cache, pc, conv, question, graph, final, saw,
                 verdict, rater, desk>>

PersistAnswer(t) ==
  /\ pc[t] = "settling" /\ "token" \in seen[t]
  /\ Persist(t, "assistant")
  /\ Goto(t, IF Cacheable(final[t]) THEN "storing" ELSE "closing")
  /\ UNCHANGED <<status, score, escalations, resets, thread, cache, conv, question,
                 graph, final, saw, seen, verdict, rater, desk>>

StoreInCache(t) ==
  /\ pc[t] = "storing" /\ Goto(t, "closing")
  /\ cache' = [cache EXCEPT ![question[t]] = final[t]]
  /\ UNCHANGED <<conversations, thread, conv, question, graph, final, saw, seen,
                 verdict, rater, desk>>

Finish(t) ==
  /\ pc[t] = "closing"
  /\ Emit(t, Closing(final[t])) /\ Goto(t, "done")
  /\ UNCHANGED <<conversations, thread, cache, conv, question, graph, final, saw,
                 verdict, rater, desk>>

\* The turn ends early; whatever transaction was open rolls back.
Drop(t, p) == /\ Goto(t, p)
              /\ graph' = [graph EXCEPT ![t] = FreshState]
              /\ final' = [final EXCEPT ![t] = NoAnswer]
              /\ saw' = [saw EXCEPT ![t] = "absent"]
              /\ UNCHANGED <<conversations, thread, cache, conv, question, verdict,
                             rater, desk>>

\* Fault: exceptions inside the stream are not reported.
FailQuietly(t) == pc[t] \in Requested /\ Drop(t, "failed") /\ seen' = seen

\* A call to Postgres, Redis or a model raises: an HTTP error before the
\* response has started, an error event afterwards.
Fail(t) ==
  \/ pc[t] \in Requested /\ Drop(t, "failed") /\ seen' = seen
  \/ pc[t] \in Running /\ Drop(t, "error") /\ Emit(t, {"error"})

\* The client disconnects (CancelledError) or the API process dies.
Abort(t) ==
  /\ pc[t] \in Requested \cup Streaming
  /\ Drop(t, "gone") /\ seen' = seen

-----------------------------------------------------------------------------
(* The other writers of the conversation tables.                            *)

\* widget_csat: the existence check, then both conditional UPDATEs, the second
\* under the row lock of the first.
RateRead(r, c) ==
  /\ rater[r].pc = "idle" /\ status[c] # "absent"
  /\ rater' = [rater EXCEPT ![r] = [pc |-> IF Exists(c) THEN "checked" ELSE "missing",
                                    conv |-> c]]
  /\ UNCHANGED <<conversations, thread, cache, turnVars, desk>>

\* Fault: the first UPDATE loses its csat_score IS NULL.
UnratedOrNot(c) == Exists(c)

Unrated(c) == Exists(c) /\ score[c] = NoRater

\* Fault: a rated conversation is closed, whatever it was.
ClosedByRating(s) == "closed"

AfterRating(s) == IF s = "open" THEN "closed" ELSE s

RateCommit(r) ==
  /\ rater[r].pc = "checked" /\ ~Locked(rater[r].conv)
  /\ LET c == rater[r].conv IN
     IF Unrated(c)
     THEN /\ score' = [score EXCEPT ![c] = r]
          /\ status' = [status EXCEPT ![c] = AfterRating(@)]
          /\ rater' = [rater EXCEPT ![r].pc = "rated"]
     ELSE /\ rater' = [rater EXCEPT ![r].pc = "conflict"]
          /\ UNCHANGED <<score, status>>
  /\ UNCHANGED <<messages, escalations, resets, thread, cache, turnVars, desk>>

\* resolve_conversation: load, ...
ResolveRead(s, c) ==
  /\ desk[s].pc = "idle" /\ Exists(c)
  /\ desk' = [desk EXCEPT ![s] = [Away EXCEPT !.pc = "loaded", !.conv = c, !.saw = status[c]]]
  /\ UNCHANGED <<conversations, thread, cache, turnVars, rater>>

PendingOf(c) == {e.turn : e \in {f \in escalations : f.conv = c /\ f.status = "pending"}}

\* ... flush the new status when the pending escalations are selected, ...
ResolveSelect(s) ==
  /\ desk[s].pc = "loaded" /\ (desk[s].saw = "closed" \/ ~Locked(desk[s].conv))
  /\ desk' = [desk EXCEPT ![s] =
                IF Exists(desk[s].conv)
                THEN [@ EXCEPT !.pc = "resolving", !.tickets = PendingOf(desk[s].conv)]
                ELSE Away]
  /\ UNCHANGED <<conversations, thread, cache, turnVars, rater>>

\* Fault: resolving closes the conversation and forgets its escalations.
ResolvedNever(e) == e

Resolved(e) == [e EXCEPT !.status = "resolved"]

\* ... and commit both; a rollback changes nothing.
ResolveCommit(s) ==
  /\ desk[s].pc = "resolving"
  /\ desk' = [desk EXCEPT ![s] = Away]
  /\ LET c == desk[s].conv IN
     \/ /\ Exists(c)
        /\ status' = [status EXCEPT ![c] = AfterUpdate(@, desk[s].saw, "closed")]
        /\ escalations' = {IF e.conv = c /\ e.turn \in desk[s].tickets
                            THEN Resolved(e) ELSE e : e \in escalations}
     \/ UNCHANGED <<status, escalations>>
  /\ UNCHANGED <<score, messages, resets, thread, cache, turnVars, rater>>

\* reply_to_conversation: a human's message, stored as an assistant row.
Reply(c) ==
  /\ Exists(c)
  /\ messages' = messages \cup {[conv |-> c, turn |-> NoTurn, role |-> "assistant"]}
  /\ UNCHANGED <<status, score, escalations, resets, thread, cache, turnVars, rater, desk>>

\* reset_demo_conversations: every conversation, with its messages and
\* escalations by ON DELETE CASCADE.  Checkpoints and the cache stay.
ResetDemo ==
  /\ resets < MaxResets /\ \A c \in Conv : ~Locked(c)
  /\ resets' = resets + 1
  /\ status' = [c \in Conv |-> IF Exists(c) THEN "deleted" ELSE status[c]]
  /\ messages' = {} /\ escalations' = {}
  /\ UNCHANGED <<score, thread, cache, turnVars, rater, desk>>

\* The entry's TTL runs out.
Expire(q) ==
  /\ cache[q] # Miss
  /\ cache' = [cache EXCEPT ![q] = Miss]
  /\ UNCHANGED <<conversations, thread, turnVars, rater, desk>>

-----------------------------------------------------------------------------
\* What the coroutine of a turn does next when nothing goes wrong.
Progress(t) ==
  \/ PersistUser(t) \/ Hit(t) \/ MissOrBypass(t) \/ PersistHit(t) \/ Replay(t)
  \/ Route(t) \/ RouteToChitchat(t) \/ Retrieve(t) \/ Stream(t) \/ FinishAnswer(t)
  \/ Judge(t) \/ Respond(t) \/ RecordRead(t) \/ RecordCommit(t)
  \/ SendCanned(t) \/ PersistAnswer(t) \/ StoreInCache(t) \/ Finish(t)

Next ==
  \/ \E t \in Turn : Open(t) \/ Reject(t) \/ Progress(t) \/ Fail(t) \/ Abort(t)
  \/ \E r \in Rater : RateCommit(r) \/ \E c \in Conv : RateRead(r, c)
  \/ \E s \in Staff : ResolveSelect(s) \/ ResolveCommit(s) \/ \E c \in Conv : ResolveRead(s, c)
  \/ \E c \in Conv : Reply(c)
  \/ ResetDemo
  \/ \E q \in Question : Expire(q)

Spec == Init /\ [][Next]_vars

\* Every call a turn awaits (Postgres, Redis, the model gateway) returns or
\* raises, so its coroutine goes on; nothing obliges people or cron jobs.
FairSpec == Spec /\ \A t \in Turn : WF_vars(Progress(t) \/ Fail(t))

-----------------------------------------------------------------------------
(* Correctness.                                                             *)

TypeOK ==
  /\ status \in [Conv -> Status] /\ score \in [Conv -> Rater \cup {NoRater}]
  /\ messages \subseteq MessageRow /\ escalations \subseteq EscalationRow
  /\ resets \in 0..MaxResets
  /\ thread \in [Conv -> AgentState]
  /\ cache \in [Question -> Answer \cup {Miss}]
  /\ pc \in [Turn -> Phase] /\ conv \in [Turn -> Conv \cup {NoConv}]
  /\ question \in [Turn -> Question \cup {NoQuestion}]
  /\ graph \in [Turn -> AgentState] /\ final \in [Turn -> Answer]
  /\ saw \in [Turn -> Status]
  /\ seen \in [Turn -> SUBSET Event]
  /\ verdict \in [Turn -> {"none", "approved", "ticketed"}]
  /\ rater \in [Rater -> RaterState] /\ desk \in [Staff -> DeskState]

\* The cache holds only settled answers: nothing escalated, nothing empty, and
\* a grounded draft only with citations that passed the judge (chat.py 305-307:
\* "Cache only settled (non-escalated) answers").
Vetted(a) == /\ ~a.escalated /\ a.content \in {"draft", "chitchat"}
             /\ a.content = "draft" => a.cited /\ a.sure
CacheIsVetted == \A q \in Question : cache[q] # Miss => Vetted(cache[q])

\* A turn that ends as escalated recorded a ticket itself, even when a reset
\* removes the conversation while the agent runs and _record_escalation silently
\* returns.  The canned text that promises a human goes out earlier
\* (chat.py 262-264): a customer who read it has that ticket too, unless the
\* conversation is deleted, and then the row cannot be inserted, so that the
\* stream never ends with done.
HandoffHasTicket ==
  \A t \in Turn :
    /\ pc[t] = "done" /\ (final[t].escalated \/ "handoff" \in seen[t])
         => verdict[t] = "ticketed"
    /\ "handoff" \in seen[t] => verdict[t] = "ticketed" \/ status[conv[t]] = "deleted"

\* A turn that ends as answered gave a chitchat reply or a text whose own
\* citations passed the judge, never one vouched for by what an earlier turn
\* of the conversation left in its checkpoint.
AnsweredIsGrounded ==
  \A t \in Turn : pc[t] = "done" /\ ~final[t].escalated => Vetted(final[t])

\* The transcript never holds an answer without its question: whatever deletes
\* the conversation between the two, the rows of a turn go together.
AnswerFollowsQuestion ==
  \A m \in messages : m.turn # NoTurn /\ m.role = "assistant" =>
    \E u \in messages : u.role = "user" /\ u.turn = m.turn /\ u.conv = m.conv

\* A conversation is scored once (widget.py 203-219: of two ratings that both
\* read NULL exactly one wins and the loser gets a 409).
ScoredOnce ==
  /\ \A r \in Rater : rater[r].pc = "rated" => score[rater[r].conv] = r
  /\ \A r \in Rater : rater[r].pc = "conflict" /\ Exists(rater[r].conv)
       => score[rater[r].conv] \in Rater \ {r}

\* Only a resolution takes a conversation out of the escalated queue, and it
\* settles the tickets it found; a rating or another turn never does.
QueueLeftByResolution == [][
  \A c \in Conv : status[c] = "escalated" /\ status'[c] = "closed" =>
    \E s \in Staff : /\ desk[s].pc = "resolving" /\ desk'[s].pc = "idle" /\ desk[s].conv = c
                     /\ desk[s].tickets \cap {e.turn : e \in
                          {f \in escalations' : f.conv = c /\ f.status = "pending"}} = {}]_vars

\* A pending ticket is off the inbox queue only if the turn that recorded it had read
\* the conversation while another ticket kept it there, so that no UPDATE put it
\* back: any other order of turns, ratings, resolutions and resets leaves each
\* pending ticket in an escalated conversation.
PendingIsQueued ==
  \A e \in escalations : e.status = "pending" /\ ~e.queued => status[e.conv] = "escalated"

\* A handoff reaches the inbox, where staff find it, but for conversations that
\* are deleted: both halves.
HandoffReachesInbox == HandoffHasTicket /\ PendingIsQueued

\* A client that stays connected is never left without a last event: its stream
\* ends with done or error.
StreamsTerminate ==
  \A t \in Turn : pc[t] \in Streaming ~>
    pc[t] = "gone" \/ "done" \in seen[t] \/ "error" \in seen[t]

\* Refinement: what each turn promised the customer.
Outcome(t) ==
  CASE pc[t] = "done" -> IF final[t].escalated THEN "handed_off" ELSE "answered"
    [] pc[t] \in Ended \ {"done"} -> "dropped"
    [] OTHER -> "none"

Promise == INSTANCE SupportDesk
  WITH asked <- question, verdict <- verdict, outcome <- [t \in Turn |-> Outcome(t)]
KeepsPromise == Promise!DeskSpec

=============================================================================
